CONSTANTS
  u1 = u1
  u2 = u2
  Users <- TwoUsers
  Api = Api
  None = None
  Langs <- AllLangs
  MaxTokens = 4
SPECIFICATION Spec
INVARIANTS SudoTokenIsSudoIds LoginImpersonates  RequestsAuthenticated SlotsMatchServer
PROPERTY CallsReturn
CHECK_DEADLOCK FALSE
