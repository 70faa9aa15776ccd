\* MariaDB is out of reach once, while the scheduler holds the mutex; then the
\* system may really stop.
SPECIFICATION FairSpec
CONSTANTS
  m1 = m1
  m2 = m2
  m3 = m3
  miner = miner
  pool = pool
  nobody = nobody
  c1 = c1
  Messages <- TwoMessages
  Edges <- OneSize
  HeightOf <- SharesAt
  UserOf <- Senders
  Users <- TwoUsers
  NoUser = nobody
  PoolUser = pool
  Consumers = {c1}
  NoMessage = nomessage
  MaxHeight = 4
  Lag = 1
  MaxFaults = 1
  DbFails = TRUE
  Stalls = FALSE
PROPERTIES SharesRecorded
CHECK_DEADLOCK FALSE
