\* One caller at a time, held up between its steps.
SPECIFICATION Spec
CONSTANTS
  Callers = {a}
  Skew = 7
  ClockLag = 1
  Lifetime = 10
  HttpTimeout = 1
  RetrySleep = 1
  LocalDelay = 1
  MaxTokens = 2
  MaxTime = 14
INVARIANTS
  TypeOK
  UnexpiredInFlight
  RetryCarriesNewToken
  CacheNotOlder
