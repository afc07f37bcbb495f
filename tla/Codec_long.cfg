\* Messages longer than Base + 5 bytes.
SPECIFICATION Spec
CONSTANTS
  Base = 16
  TypeMax = 5
  Ascii = 8
  FirstName = 10
  LastFirst = 11
  Messages <- LongMessages
  Noise <- NoNoise
INVARIANT
  NumbersKeepOneByteLength
CHECK_DEADLOCK FALSE
