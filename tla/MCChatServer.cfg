SPECIFICATION Spec
CONSTANTS
  w1 = w1
  w2 = w2
  alice = alice
  bob = bob
  c1 = c1
  c2 = c2
  NoMsg = NoMsg
  NoConn = NoConn
  NoPkt = NoPkt
  NoWorker = NoWorker
  NoReq = NoReq
  NoList = NoList
  MaxMsgs = 2
  Workers <- MCWorkers
  Names <- MCNames
  StartUsers <- OnlyAlice
  Overlapping <- Nobody
  Conns <- OneConn
  Breakable <- OneConn
INVARIANTS
  TypeOK
  NotifiedIsAcked
  CountedIsPullable

  
SYMMETRY WorkerSymmetry
CHECK_DEADLOCK FALSE
