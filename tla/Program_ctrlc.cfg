\* main: one monitor.  A Ctrl+C that comes while a report is printed, or with
\* the end of the sleep.
SPECIFICATION FairSpec
CONSTANTS
  Accounts <- SmallAccounts
  MaxRebuilds = 0
  MaxReadings = 1
PROPERTY
  CtrlCStops
CHECK_DEADLOCK FALSE
