\* The doc comment of spawn_monitor, without the condition on the channel.
SPECIFICATION FairSpec
CONSTANTS
  ChannelCap = 2
  MaxBackoff = 2
  MaxConn = 2
  ReadingsPerConn = 1
  InboundCap = 2
  MaxReaders = 1
PROPERTY
  ConnectedGetsSubscribed
