\* One executor, restarted with the same or another manifest.
SPECIFICATION Spec
CONSTANTS
  c1 = c1 c2 = c2 p1 = p1 p2 = p2 m1 = m1 m2 = m2
  Procs = {p1}
  Cells = {c1, c2}
  Manifests = {m1, m2}
  NoManifest = NoManifest
  Existing = FALSE
  MaxFailures = 3
INVARIANTS TypeOK AckedOnce OneManifest
