\* Two heights, three messages, two consumers, one fault of any kind.  The system may
\* really stop: with the mutex left locked nothing moves.
SPECIFICATION FairSpec
CONSTANTS
  m1 = m1
  m2 = m2
  m3 = m3
  miner = miner
  pool = pool
  nobody = nobody
  c1 = c1
  c2 = c2
  Messages <- ThreeMessages
  Edges <- OneSize
  HeightOf <- SharesAt
  UserOf <- Senders
  Users <- TwoUsers
  NoUser = nobody
  PoolUser = pool
  Consumers = {c1, c2}
  NoMessage = nomessage
  MaxHeight = 4
  Lag = 1
  MaxFaults = 1
  DbFails = TRUE
  Stalls = TRUE
INVARIANTS TypeOK CountedOnce AckedIsKept Kept
PROPERTIES RecordedOrStuck
CHECK_DEADLOCK FALSE
