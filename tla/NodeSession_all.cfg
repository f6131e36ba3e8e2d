\* A caller with the session to itself, and two that share it.
SPECIFICATION FairSpec
CONSTANTS
  Tasks = {t1, t2}
  Parties <- AloneOrTwo
  t1 = t1
  t2 = t2
  u1 = u1
  u2 = u2
  Users = {u1, u2}
  ApiUser = "api"
  MaxTokens = 4
  Supply <- FewTokens
INVARIANTS SlotOwners SudoIdIsTrue AuthenticateDecorates
PROPERTIES CallsReturn NoDirectSwitch LoginImpersonates GetTokenIsActive LogoutTakesEffect
