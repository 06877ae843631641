SPECIFICATION Spec
CONSTANTS
  p = p  q = q  stable = stable  fast = fast
  b1 = b1  b2 = b2  b3 = b3  b4 = b4
  catA = catA  catB = catB  catC = catC
  None = None  NoVersion = NoVersion  NoName = NoName  Failed = Failed
  Catalogs = {catA, catB, catC}
  Segments = {p, q, stable, fast}
  Bundles = {b1, b2, b3, b4}
  Versions <- MCVersions
  Priorities = {0, 1}
  Contents <- MCContents
  Requests <- MCRequests
  MaxCommits = 4
  MaxFaults = 1
SYMMETRY Symmetry
CHECK_DEADLOCK FALSE
INVARIANTS SelectedOverLacking BundlesOfOneImport UndisturbedIsExact
