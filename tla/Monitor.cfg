\* Room for two requests, three connections, a reader: the safety properties
\* and, under the scheduler's fairness, progress.
SPECIFICATION FairSpec
CONSTANTS
  ChannelCap = 2
  MaxBackoff = 4
  MaxConn = 3
  ReadingsPerConn = 2
  InboundCap = 2
  MaxReaders = 1
INVARIANTS
  TypeOK
  SubscribeSurvivesQueue
  RearmQueuedOrSent
  RetriesStartQuick
  KeepaliveFailsAtMostOnce
PROPERTIES
  FeedSpec
  LoopReturnsToPoll
  ConnectionServes
  AbortStopsKeepalive
