CONSTANTS
  LimitFirst = 8
  LimitHigh = 2
  PageUnit = 4
  BaseByte = 2
  Entries = 2
  PageSize = 8
  PPARSER_MAX_PATH = 6
  SegmentTables <- Tables
  Vectors = {0, 1, 2, 3}
  Keyboard = 2
  no_interrupt = 21
  int21h = 43
  Directory = 40
  Changes = 2
  Addresses = {0, 8, 12, 16}
  NewEntries <- Entered
  PathStrings <- Strings
  Numbers <- Numbers0
  Items <- Entries83
SPECIFICATION Spec
INVARIANTS
  TypeOK
  InterruptsTakeable
  SegmentsAsStated
  PagesAsAsked
  PathAsWritten
  NamesTellEntries
  NumberReadsBack
