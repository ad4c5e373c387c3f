\* Every request fits in one block, as those of the kernel's own structures do.
CONSTANTS
  Blocks = 5
  MaxRun = 1
  Holders = {h1, h2, h3, h4, h5, h6}
  Sizes = {1, 4096}
SPECIFICATION Spec
INVARIANTS
  NoLeak
PROPERTIES
  ImplementsExact
