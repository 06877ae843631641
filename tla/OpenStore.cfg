SPECIFICATION Spec
CONSTANTS
  Names = {n1, n2}
  ContentSchema = 6
  OldSchemas = {5}
  LaterMetadata = {4}
  MaxCrashes = 2
  None = None
SYMMETRY Symmetry
INVARIANTS
  OpenIsComplete
  ContentIsWhole
  LabelsSurvive
  DigestsOfWholeOpens
  WholeOpensSucceed
