\* Requests of no block, one block and three; frees the discipline allows.
\* A holder of a region of no blocks can never free it quietly, so the system
\* stops when every holder has one.
CONSTANTS
  Blocks = 5
  MaxRun = 3
  Holders = {h1, h2, h3}
  Sizes = {0, 1, 8193}
SPECIFICATION QuietSpec
SYMMETRY Symmetry
CHECK_DEADLOCK FALSE
INVARIANTS
  TypeOK
  NoOverlap
  ChainsIntact
PROPERTIES
  LiveUntouched
  ImplementsSafe
