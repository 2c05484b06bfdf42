\* Two executors on one existing ledger.
SPECIFICATION Spec
CONSTANTS
  c1 = c1 c2 = c2 p1 = p1 p2 = p2 m1 = m1 m2 = m2
  Procs = {p1, p2}
  Cells = {c1, c2}
  Manifests = {m1}
  NoManifest = NoManifest
  Existing = TRUE
  MaxFailures = 2
INVARIANTS DoubleAckFailsClosed
PROPERTIES AdmittedIsOnDisk
