\* A file was deleted in front of the directories of the root.
CONSTANTS
  a = a
  b = b
  c = c
  f = f
  up = up
  top = top
  na = na
  nb = nb
  nc = nc
  nf = nf
  ng = ng
  zero = zero
  Names = {a, b, c, f, up}
  Nodes = {top, na, nb, nc, nf, ng, zero}
  Root = top
  Broken = {nc}
  Volumes <- OnlyHoled
  Requests <- SomeRequests
  DemoPaths <- DemoPath
  MAX_FILEDESCRIPTORS = 2
  Blocks = 20
SPECIFICATION Spec
INVARIANTS
  FoundIfThere
CHECK_DEADLOCK FALSE
