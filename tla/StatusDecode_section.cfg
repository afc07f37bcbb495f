\* The section of the expansion pack, over messages with and without it.
SPECIFICATION Spec
CONSTANTS
  Base = 256
  TypeMax = 49
  Ascii = 128
  FirstName = 160
  LastFirst = 169
  PackSerials = {4, 17}
  Omitted = {"c0"}
INVARIANT
  PackSectionIsStructural
