\* Two blocks, reorganisations two deep, two failed or killed runs; one miner
\* has no account row yet, so that paymentMaker commits in the middle.
\* Liveness, hence no symmetry.
SPECIFICATION FairSpec
CONSTANTS
  f1 = f1
  m1 = m1
  m2 = m2
  MaxHeight = 5
  Winnable <- FirstTwo
  Ours = ours
  Foreign <- OneForeign
  NoBlock = noblock
  LockTime = 2
  ExpireTime = 3
  ReorgDepth = 2
  Users <- TwoMiners
  Registered <- OneMiner
  MaxCrashes = 2
INVARIANTS TypeOK CreditedOnce CreditsOnRecord UnlockedIsFinal
PROPERTIES EventuallyDecided
CHECK_DEADLOCK FALSE
