\* Two requests under way; liveness.
SPECIFICATION FairSpec
CONSTANTS
  Conns = {c1}
  c1 = c1
  Users = {u1}
  u1 = u1
  NoUser = nouser
  Nonces = {1}
  Kinds = {"login", "getjobtemplate", "submit", "other"}
  MaxTemplates = 2
  FirstHeight = 100
  MaxRestarts = 1
  MaxHangUps = 1
  MaxMail = 2
  Patient = TRUE
  Falling = FALSE
 
PROPERTIES JobServed HungUpLeaves
