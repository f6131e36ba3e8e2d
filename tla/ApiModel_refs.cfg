\* A schema has the name of the writeable type of another, as in Looker.4.0.oas.json.
SPECIFICATION Spec
CONSTANTS
  Schemas = {"Plan", "WritePlan", "User"}
  Methods = {"create_plan"}
  SchemaDefs <- FewSchemaDefs
  ParamLists <- FewParamLists
  EnumName <- NumberedName
  WriteName <- WriteOf
  RequestName <- RequestOf
  MaxDepth = 5
INVARIANT RefsAgree
CHECK_DEADLOCK FALSE
