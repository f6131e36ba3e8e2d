SPECIFICATION Spec
CONSTANTS
  Schemas = {"Plan", "WritePlan", "User"}
  Methods = {"create_plan", "update_plan"}
  SchemaDefs <- FewSchemaDefs
  ParamLists <- FewParamLists
  EnumName <- NumberedName
  WriteName <- WriteOf
  RequestName <- RequestOf
  MaxDepth = 5
INVARIANTS WriteTypesAreRight RequestTypesFit NamesResolve
PROPERTIES LoadingEnds
\* A constructor call that has returned or crashed makes no more steps.
CHECK_DEADLOCK FALSE
