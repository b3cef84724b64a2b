SPECIFICATION MCSpec
CONSTANTS
  Repos = {p, q}
  Blobs = {b}
  Manifests = {m}
  Refs <- MCImage
  EmptyBlob = e
  Uploads = {u}
  Clients = {c1, c2}
  Sweepers = {g}
  MaxCrashes = 1
  None = None
  Index = None
  Paths = {"d", "f", "g", "e"}
  Up <- MCUp
  Top = "top"
  MaxEntries = 3
  MaxLayers = 2
SYMMETRY MCSymmetry
INVARIANTS
  Pullable
  TreeIsUnion
  NothingBehindLinks
PROPERTIES
  SweepSpares
CHECK_DEADLOCK FALSE
