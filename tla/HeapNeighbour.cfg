\* Any free at any time.
CONSTANTS
  Blocks = 5
  MaxRun = 2
  Holders = {h1, h2, h3}
  Sizes = {1, 4097}
SPECIFICATION Spec
PROPERTIES
  LiveUntouched
