CONSTANTS
  c1 = c1
  c2 = c2
  s1 = s1
  s2 = s2
  f1 = f1
  f2 = f2
  None = None
  Channels <- OneChannel
  Streams <- OneStream
  Forwarders <- TwoForwarders
  Capacity = 1
  MaxMessages = 2
SPECIFICATION FairSpec
PROPERTY StreamEnds
