\* An owner that replaces its monitor once, on accounts of up to three devices;
\* three readings.  The program may end, so the system may stop.
SPECIFICATION FairSpec
CONSTANTS
  Accounts <- SmallAccounts
  MaxRebuilds = 1
  MaxReadings = 3
INVARIANT
  TypeOK
PROPERTIES
  SetBackOnlyByAborted
  ReadingsReachScreen
  PollLoopGoesRound
  InsistedCtrlCStops
CHECK_DEADLOCK FALSE
