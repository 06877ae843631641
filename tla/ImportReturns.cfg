SPECIFICATION FairSpec
CONSTANTS
  p = p  q = q  c = c  slash = slash
  b1 = b1  b2 = b2  b3 = b3
  v1 = v1  v2 = v2
  cat = cat
  None = None  NoVersion = NoVersion  Failed = Failed  NoPackage = NoPackage
  Catalogs = {cat}  Catalog = cat
  Segments = {p, q, c}
  Bundles = {b1, b2, b3}
  Versions = {v1, v2}
  Inputs <- MCInputs
  HasExtension = TRUE
  ChannelCap = 1
  BatchSize = 2
CHECK_DEADLOCK FALSE
PROPERTY ImportReturns
