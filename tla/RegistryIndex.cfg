SPECIFICATION Spec
CONSTANTS
  Repos = {p}
  Blobs = {b}
  Manifests = {i, m}
  Refs <- MCIndex
  EmptyBlob = e
  Uploads = {u}
  Clients = {c}
  Sweepers = {g}
  MaxCrashes = 0
  None = None
  Index = i
PROPERTIES
  SweepSpares
CHECK_DEADLOCK FALSE
