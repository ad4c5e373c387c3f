CONSTANTS
  RegisterSize = 3
  TopSize = 2
  Words = 2
  Requests <- SomeReads
  LoaderRequest <- FirstSectors
SPECIFICATION Spec
INVARIANTS
  TypeOK
  BufferRight
  InStep
PROPERTIES
  ReadAdvances
  ReadEnds
