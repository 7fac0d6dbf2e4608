SPECIFICATION Spec
CONSTANTS
  Texts <- MCTexts
  BufSize = 5
INVARIANTS TypeOK BytesKept CharactersWhole
CHECK_DEADLOCK FALSE
