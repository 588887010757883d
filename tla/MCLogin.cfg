SPECIFICATION Spec
CONSTANTS
  w1 = w1
  w2 = w2
  w3 = w3
  alice = alice
  bob = bob
  ch1 = ch1
  ch2 = ch2
  t1 = t1
  t2 = t2
  NoChallenge = NoChallenge
  NoToken = NoToken
  NoUser = NoUser
  Workers <- MCWorkers
  Users <- MCUsers
  Patient <- JustAlice
  Challenges <- MCChallenges
  Tokens <- MCTokens
INVARIANTS
  TypeOK
  RightLoginSucceeds
  ChallengeUsedOnce
  AnsweredTokenWorks
SYMMETRY MCSymmetry
CHECK_DEADLOCK FALSE
