\* Two miners that come, are dropped, come back and send shares before they log
\* in, four templates; a node that restarts, perhaps one block behind.
SPECIFICATION Spec
CONSTANTS
  Conns = {c1, c2}
  c1 = c1
  c2 = c2
  Users = {u1}
  u1 = u1
  NoUser = nouser
  Nonces = {1}
  Kinds = {"login", "submit", "keepalive"}
  MaxTemplates = 4
  FirstHeight = 100
  MaxRestarts = 1
  MaxHangUps = 0
  MaxMail = 1
  Patient = FALSE
  Falling = TRUE
SYMMETRY ConnSymmetry
INVARIANTS TypeOK CountsConserved CountsFit SubmittedAsIssued CreditedOnce FreshJob
CONSTRAINT Few
