SPECIFICATION FairSpec
CONSTANTS
  w1 = w1
  w2 = w2
  c1 = c1
  c2 = c2
  i1 = i1
  i2 = i2
  i3 = i3
  NoItem = NoItem
  NoThread = NoThread
  Pushers <- MCPushers
  Poppers <- MCPoppers
  Clearers <- MCClearers
  Items <- MCItems
INVARIANTS
  TypeOK
  NoLostWakeup
  NeverPopsEmpty
PROPERTIES
  ImplementsFifo
  QueuedIsServed
