\* Requests that do not fit in what is left at the end of the pool.
CONSTANTS
  Blocks = 5
  MaxRun = 2
  Holders = {h1, h2, h3}
  Sizes = {1, 4097}
SPECIFICATION QuietSpec
INVARIANTS
  InPool
