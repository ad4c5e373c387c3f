\* One or two opens at a time, until the heap is used up.
CONSTANTS
  a = a
  b = b
  c = c
  f = f
  up = up
  top = top
  na = na
  nb = nb
  nc = nc
  nf = nf
  ng = ng
  zero = zero
  Names = {a, b, c, f, up}
  Nodes = {top, na, nb, nc, nf, ng, zero}
  Root = top
  Broken = {nc}
  Volumes <- PlainAndHoled
  Requests <- SomeRequests
  DemoPaths <- DemoPath
  MAX_FILEDESCRIPTORS = 2
  Blocks = 25
SPECIFICATION Spec
INVARIANTS
  TypeOK
  DescriptorsIntact
  OpensWhatPathDenotes
  FoundIfNoneDeleted
  SafeWithRoom
  NothingElseLost
PROPERTIES
  CallsAdvance
  ImplementsFileTable
CHECK_DEADLOCK FALSE
