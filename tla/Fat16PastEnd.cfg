\* A legal volume; a read from the end of the file, and one that ends there.
CONSTANTS
  SectorSize = 2
  SectorsPerCluster = 2
  FirstDataSector = 8
  Clusters = 2
  Tables <- OneTable
  Items <- FullItem
  Sizes = {4}
  Counts = {1, 2, 3}
  Offsets = {8}
  MaxPos = 9
SPECIFICATION Spec
INVARIANTS
  OkMeansInFile
