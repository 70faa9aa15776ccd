\* A slate returned when its time has passed, while tidyWallet has it on its list.
SPECIFICATION FairSpec
CONSTANTS
  u1 = u1
  u2 = u2
  p1 = p1
  p2 = p2
  w1 = w1
  w2 = w2
  Users <- OneUser
  Slates <- OneSlate
  Workers <- OneWorker
  Payout = payout
  Nobody = nobody
  NoSlate = noslate
  MinPayout = 2
  AutoMinimum = 1
  Fees <- OneFee
  Grants <- GrantThree
  MaxGranted = 3
  MaxCrashes = 0
  SlowCreate = FALSE
  LateReturns = TRUE
  OthersReturn = FALSE
  LockTimeouts = FALSE
PROPERTIES CancelsOnlyUnposted
