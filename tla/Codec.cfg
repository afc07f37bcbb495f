\* Every message of up to nine bytes from an alphabet of three, and of up to
\* seven from another, where a name may come twice; the messages
\* devices make, and the program's own trigger.
SPECIFICATION FairSpec
CONSTANTS
  Base = 16
  TypeMax = 5
  Ascii = 8
  FirstName = 10
  LastFirst = 11
  Messages <- WellMadeMessages
  Noise <- AnyBytes
INVARIANTS
  TypeOK
  FieldInBounds
  ShortBodiesKeepLengths
  RoundTrip
  WalkIsDecodeFields
PROPERTY
  WalkEnds
CHECK_DEADLOCK FALSE
