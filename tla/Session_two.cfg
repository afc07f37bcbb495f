\* Two callers interleave; their steps take no time of their own; the server
\* may never answer.
SPECIFICATION FairSpec
CONSTANTS
  Callers = {a, b}
  Skew = 3
  ClockLag = 1
  Lifetime = 3
  HttpTimeout = 1
  RetrySleep = 0
  LocalDelay = 0
  MaxTokens = 2
  MaxTime = 3
INVARIANT
  UnexpiredInFlight
PROPERTY
  CallsReturn
