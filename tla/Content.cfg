SPECIFICATION Spec
CONSTANTS
  p = p  c1 = c1  c2 = c2  slash = slash
  b1 = b1  b2 = b2  b3 = b3
  v1 = v1  v2 = v2
  catA = catA  catB = catB
  None = None  NoVersion = NoVersion  NoName = NoName  Failed = Failed
  Catalogs = {catA, catB}
  Segments = {p, c1, c2}
  Bundles = {b1, b2, b3}
  Versions = {v1, v2}
  Contents <- MCContents
  MaxCommits = 3
INVARIANTS ReferencesStayInCatalog ContentOfOneImport
  StaleGraphNamesNoOther NothingYieldedTwice
  SuccessorsOfOneImport SuccessorsExactWhenUnshared
CHECK_DEADLOCK FALSE
