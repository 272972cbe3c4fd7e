CONSTANTS
  c1 = c1
  c2 = c2
  s1 = s1
  s2 = s2
  Channels <- TwoChannels
  Subs <- TwoSubs
  Wish <- SharedWish
  OutSize = 1
  InSize = 1
  MaxMessages = 2
SPECIFICATION FairSpec
INVARIANTS
  TypeOK
  InOrderOnce
PROPERTIES
  UnsubscribeHolds
  Delivered
  StreamEnds
