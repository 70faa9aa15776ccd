\* One account, two payouts, two API threads beside makePayouts and tidyWallet;
\* slates may come back late.
SPECIFICATION Spec
CONSTANTS
  u1 = u1
  u2 = u2
  p1 = p1
  p2 = p2
  w1 = w1
  w2 = w2
  Users <- OneUser
  Slates <- TwoSlates
  Workers <- TwoWorkers
  Payout = payout
  Nobody = nobody
  NoSlate = noslate
  MinPayout = 2
  AutoMinimum = 1
  Fees <- OneFee
  Grants <- GrantThree
  MaxGranted = 6
  MaxCrashes = 1
  SlowCreate = FALSE
  LateReturns = TRUE
  OthersReturn = FALSE
  LockTimeouts = FALSE
SYMMETRY Symmetry
INVARIANTS TypeOK LedgerBalanced
PROPERTIES SettledStays ImplementsLedger
