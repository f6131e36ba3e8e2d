\* Two callers and the context data; one place is enough.
SPECIFICATION Spec
CONSTANTS
  c1 = c1  c2 = c2
  Places <- OnePlace
  Home <- HomePlace
  Callers = {c1, c2}
  Versions = {"new"}
  Required = FALSE
  MaxQueue = 1
  MaxContext = 2
  Providers = {"ExtensionProvider"}
CHECK_DEADLOCK FALSE
INVARIANT SavedContextIsReturned
