SPECIFICATION Spec
CONSTANTS
  w1 = w1
  w2 = w2
  bob = bob
  f1 = f1
  f2 = f2
  x1 = x1
  x2 = x2
  NoContent = NoContent
  Empty = Empty
  Torn = Torn
  NoUser = NoUser
  NoFile = NoFile
  Workers <- MCWorkers
  Users <- JustBob
  Files <- OneFile
  Contents <- TwoContents
  Contested <- Nothing
INVARIANTS
  ReceivedIsForwarded
CHECK_DEADLOCK FALSE
