\* Two callers: one logs out while the other refreshes.
SPECIFICATION Spec
CONSTANTS
  t1 = t1  t2 = t2
  Tasks = {t1, t2}
  MaxLogins = 1
  MaxTokens = 2
  Patient = TRUE
PROPERTIES LogoutStays
