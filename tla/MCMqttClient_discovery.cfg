SPECIFICATION Spec
CONSTANTS
  Sources = {s1, s2}
  Fields = {f1, f2}
  MaxConnections = 3
  MaxFailures = 1
INVARIANTS ClientTypeOK CacheSound DiscoveryFirst
PROPERTIES Reannounced
