\* A pack with a short or a long serial number, or none; firmwares that send
\* one field short, to any size; a6 in a message or not.
SPECIFICATION Spec
CONSTANTS
  Base = 256
  TypeMax = 49
  Ascii = 128
  FirstName = 160
  LastFirst = 169
  PackSerials = {4, 17}
  Omitted = {"a6"}
INVARIANTS
  TypeOK
  NeverMisread
  WholeFieldsArrive
  DcInputFromEither
  ReportComplete
