\* Rows of three characters, texts up to five, a message of two.
CONSTANTS
  Width = 3
  a = a
  b = b
  c = c
  k1 = k1
  k2 = k2
  NewLine = NewLine
  Chars <- MCChars
  Texts <- MCTexts
  Message <- MCMessage
  MaxIrqs = 2
  MaxChars = 9
SPECIFICATION Spec
INVARIANTS
  TypeOK
  CursorOnScreen
  TextInPlace
PROPERTIES
  PrintingAdvances
  PrintingEnds
\* The kernel ends in panic's endless loop.
CHECK_DEADLOCK FALSE
