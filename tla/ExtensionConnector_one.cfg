\* A provider that has core SDKs and the one that has none.
SPECIFICATION Spec
CONSTANTS
  c1 = c1  c2 = c2
  Places <- FewPlaces
  Home <- HomePlace
  Callers = {c1}
  Versions = {"new", "old", "unnamed", "none"}
  Required = TRUE
  MaxQueue = 2
  MaxContext = 1
  Providers = {"ExtensionProvider", "ExtensionProviderBase"}
CHECK_DEADLOCK FALSE
INVARIANTS ConnectedToRequired RoutesAgree
PROPERTIES ConnectSettles RefreshIsCurrent SdkWhileMounted
