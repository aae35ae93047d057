CONSTANTS
  Ids <- MCIds
  Titles <- MCTitles
  Phrases <- MCPhrases
  Labels <- MCLabels
  Recaps <- MCRecaps
  Inputs <- MCInputs
SPECIFICATION Spec
INVARIANTS
  ClaimsAreProven
  NoEvidenceTwice
  RefusalsAreDeserved
  ExtractorsOnlyRepeat
  AbsencesAreReal
  SurfacesAgree
  NothingUnbacked
CHECK_DEADLOCK FALSE
