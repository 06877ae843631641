SPECIFICATION Spec
CONSTANTS
  Namespaces = {"op", "w", "v", "pkg-system"}
  BadNames = {"Bad", "Pkg-system"}
  Absent = Absent
  Null = Null
  Malformed = Malformed
  Erased = Erased
  Unconfigured = Unconfigured
  NoRequest = NoRequest
  SystemNamespace <- MCSystemNamespace
  NoDots <- MCNoDots
  Cut <- MCCut
  Subdomains = {"d", "d.x", "d-x", "e", "v", "w", "c", "long1", "long2"}
  SupportedKinds = {"ConfigMap", "ClusterRole", "RoleBinding", "ServiceAccount", "Service"}
  NamespacedKinds = {"ConfigMap", "RoleBinding", "ServiceAccount", "Service"}
  Bundles <- MCBundles
  Offered <- MCOffered
  Parts <- MCParts
  MaxRenders = 1
INVARIANTS
  BundleReadOnly
CHECK_DEADLOCK FALSE
