-------------------------- MODULE MCReportReaders --------------------------
(* Two outcomes of an analysis for ReportReaders: one with two identical     *)
(* facts, one with a refusal and an absence.                                 *)
EXTENDS ReportReaders, TLC

MCAnalyses ==
  { [keys |-> <<"fact", "risk", "fact">>, refused |-> 0, outcome |-> "SHIPPED"],
    [keys |-> <<"gap", "fact">>, refused |-> 1, outcome |-> "PARTIAL"] }

Interchangeable == Permutations(Workers)
=============================================================================
