SPECIFICATION FairSpec
CONSTANTS
  Clients = {c1, c2}
  Names = {"a", "b"}
  URIs = {u1, u2}
  Priorities = {0, 1}
  DefaultPriority = 0
  LabelKeys = {tier, reserved}
  LabelValues = {gold, "a", "b"}
  Reserved = reserved
  Digests = {d1, d2}
  NoDigest = NoDigest
  Packages = {p1, p2}
  Configs <- AllConfigs
  Selectors <- NoSelectors
  MaxCalls = 3
  Nothing = Nothing
  None = None
  p1 = p1
  p2 = p2
  u1 = u1
  u2 = u2
  d1 = d1
  d2 = d2
  tier = tier
  gold = gold
  reserved = reserved
CHECK_DEADLOCK FALSE
INVARIANTS
  TypeOK
  ReservedLabel
  NoOrphans
  DigestNamesContent
  ConnectionReturned
PROPERTIES
  SetReportsWhatItCommitted
  ErrorCommitsNothing
  ImplementsAtomicStore
  CallsReturn
