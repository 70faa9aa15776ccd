\* Two accounts and one payout under way at a time; row locks may time out,
\* get_tx_slate may hang, a process may die.  Liveness, hence no symmetry.
SPECIFICATION FairSpec
CONSTANTS
  u1 = u1
  u2 = u2
  p1 = p1
  p2 = p2
  w1 = w1
  w2 = w2
  Users <- TwoUsers
  Slates <- OneSlate
  Workers <- OneWorker
  Payout = payout
  Nobody = nobody
  NoSlate = noslate
  MinPayout = 2
  AutoMinimum = 1
  Fees <- OneFee
  Grants <- GrantThree
  MaxGranted = 3
  MaxCrashes = 1
  SlowCreate = TRUE
  LateReturns = TRUE
  OthersReturn = TRUE
  LockTimeouts = TRUE
INVARIANTS MinedIsCharged LockedIsRecorded HandedOver
PROPERTIES EventuallySettled CancelsUnlessLate
