SPECIFICATION Spec
CONSTANTS
  w1 = w1
  w2 = w2
  alice = alice
  bob = bob
  c1 = c1
  c2 = c2
  NoMsg = NoMsg
  NoConn = NoConn
  NoPkt = NoPkt
  NoWorker = NoWorker
  NoReq = NoReq
  NoList = NoList
  MaxMsgs = 1
  Workers <- MCWorkers
  Names <- MCNames
  StartUsers <- AliceAndBob
  Overlapping <- Nobody
  Conns <- TwoConns
  Breakable <- OneConn
PROPERTIES
  UsesChannels
SYMMETRY WorkerSymmetry
CHECK_DEADLOCK FALSE
