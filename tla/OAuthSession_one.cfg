\* One caller, who waits while the browser leaves the page.
SPECIFICATION Spec
CONSTANTS
  t1 = t1  t2 = t2
  Tasks = {t1}
  MaxLogins = 3
  MaxTokens = 4
  Patient = TRUE
INVARIANTS ChallengeShown
PROPERTIES LogoutStays RefreshKept
