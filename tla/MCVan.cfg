SPECIFICATION FairSpec
CONSTANTS
  w1 = w1
  w2 = w2
  alice = alice
  c1 = c1
  c2 = c2
  c3 = c3
  NoConn = NoConn
  Workers <- MCWorkers
  Conns <- ThreeConns
  Breakable <- TheSecond
  Split <- TheThird
  Channels <- TheThird
  Users <- JustAlice
  Owner <- OfAlice
  Bound <- TwoOnTheFirst
  MaxPackets = 1
INVARIANTS
  TypeOK
  
  
  OpenIsWatched
CHECK_DEADLOCK FALSE

  
