--------------------------- MODULE MCCallPipeline ---------------------------
EXTENDS CallPipeline, TLC
CONSTANTS w1, w2
WorkerSymmetry == Permutations(Workers)
=============================================================================
