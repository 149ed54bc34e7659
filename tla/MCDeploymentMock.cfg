SPECIFICATION Spec
CONSTANTS
  Connections = {c1, c2}
  Deployments = {d1}
  Statuses = {queued, exporting, ready}
  StorageKeys = {k1, k2}
  ManifestDigests = {g1}
  Extras = {x1, x1r, x2, huge}
  Contents = {v1, v2}
  FailModes = {"http500"}
  SeedStatuses = {queued}
  MaxSeeds = 3
  None = None
  d1 = d1
  queued = queued
  exporting = exporting
  ready = ready
  k1 = k1
  k2 = k2
  g1 = g1
  x1 = x1
  x1r = x1r
  x2 = x2
  huge = huge
  v1 = v1
  v2 = v2
CONSTANTS
  Requests <- MCRequests
  Decoded <- MCDecoded
SYMMETRY AnyConnection
INVARIANTS
  TrailExplainsStatus
  ClaimedOnce
  OneManifest
