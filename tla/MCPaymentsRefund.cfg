\* A row lock that times out between the update of the record and the refund.
SPECIFICATION Spec
CONSTANTS
  u1 = u1
  u2 = u2
  p1 = p1
  p2 = p2
  w1 = w1
  w2 = w2
  Users <- TwoUsers
  Slates <- TwoSlates
  Workers <- OneWorker
  Payout = payout
  Nobody = nobody
  NoSlate = noslate
  MinPayout = 2
  AutoMinimum = 1
  Fees <- OneFee
  Grants <- GrantThree
  MaxGranted = 3
  MaxCrashes = 0
  SlowCreate = FALSE
  LateReturns = FALSE
  OthersReturn = TRUE
  LockTimeouts = TRUE
SYMMETRY Symmetry
INVARIANTS ExpiredIsRefunded
