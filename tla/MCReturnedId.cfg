SPECIFICATION Spec
CONSTANTS
  w1 = w1
  w2 = w2
  alice = alice
  bob = bob
  carol = carol
  NoMsg = NoMsg
  MaxMsgs = 3
  Workers <- TwoWorkers
  Names <- MCNames
  StartUsers <- MCStartUsers
  Overlapping <- Nobody
INVARIANTS
  ReturnedIdIsOwn
CHECK_DEADLOCK FALSE
