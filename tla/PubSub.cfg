CONSTANTS
  c1 = c1
  c2 = c2
  s1 = s1
  s2 = s2
  f1 = f1
  f2 = f2
  None = None
  Channels <- TwoChannels
  Streams <- TwoStreams
  Forwarders <- TwoForwarders
  Capacity = 1
  MaxMessages = 2
SPECIFICATION FairSpec
INVARIANTS
  TypeOK
  InOrderOnce
PROPERTY Delivered
