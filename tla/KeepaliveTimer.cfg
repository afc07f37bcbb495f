\* A timeout above the five-second margin, with all but one second of it used.
SPECIFICATION Spec
CONSTANTS
  Timeout = 8
  MaxLate = 2
  MaxLatency = 2
INVARIANTS
  TypeOK
  StreamNeverLapses
