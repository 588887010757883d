SPECIFICATION FairSpec
CONSTANTS
  w1 = w1
  w2 = w2
  alice = alice
  bob = bob
  c1 = c1
  c2 = c2
  l1 = l1
  n1 = n1
  NoUser = NoUser
  NoConn = NoConn
  NoPkt = NoPkt
  NoWorker = NoWorker
  MaxQueue = 1
  Workers <- MCWorkers
  Users <- TwoUsers
  Conns <- TwoConns
  Breakable <- OneBreakable
  Lists <- MCLists
  Notes <- MCNotes
INVARIANTS
  TypeOK
  AckFromSameChannel
  ContactListOwed
PROPERTIES
  ChannelGetsList
  WorkerReturns
  OnlineIsNotified
