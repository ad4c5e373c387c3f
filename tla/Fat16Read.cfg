\* Chains of up to three clusters of two sectors of two bytes.
CONSTANTS
  SectorSize = 2
  SectorsPerCluster = 2
  FirstDataSector = 8
  Clusters = 3
  Tables <- AllTables
  Items <- SomeItems
  Sizes = {3, 6}
  Counts = {1, 3}
  Offsets <- MCOffsets
  MaxPos = 8
SPECIFICATION Spec
INVARIANTS
  TypeOK
  RightBytes
  RightResult
PROPERTIES
  ReadAdvances
  ReadEnds
  ImplementsOpenFile
