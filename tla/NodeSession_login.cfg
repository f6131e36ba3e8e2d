\* One caller, an API token and one more.
SPECIFICATION Spec
CONSTANTS
  Tasks = {t1, t2}
  Parties <- Alone
  t1 = t1
  t2 = t2
  u1 = u1
  u2 = u2
  Users = {u1, u2}
  ApiUser = "api"
  MaxTokens = 2
  Supply <- TwoTokens
PROPERTIES LoginActivates
