----------------------------- MODULE MCApiModel -----------------------------
(* Instances of ApiModel for TLC. *)
EXTENDS ApiModel, TLC

Prop(kind, of, readOnly) == [kind |-> kind, of |-> of, readOnly |-> readOnly]

FewSchemaDefs == {
  Nothing,
  "plan" :> Prop("intrinsic", "", TRUE) @@ "kind" :> Prop("enum", "v", FALSE),
  "plan" :> Prop("ref", "User", FALSE) @@ "kind" :> Prop("enums", "v", FALSE),
  "plan" :> Prop("ref", "User", FALSE) @@ "kind" :> Prop("intrinsic", "", TRUE),
  "plan" :> Prop("ref", "Plan", FALSE) @@ "kind" :> Prop("intrinsic", "", TRUE),
  "plan" :> Prop("enum", "v", FALSE) @@ "kind" :> Prop("enums", "w", FALSE),
  "plan" :> Prop("array", "Plan", FALSE) @@ "kind" :> Prop("ref", "WritePlan", TRUE) }

Param(name, type, required, location) ==
  [name |-> name, type |-> type, required |-> required, location |-> location]

Body(n, required) == Param("body", IType("ref", n), required, "body")
Query(name)       == Param(name, IType("intrinsic", ""), FALSE, "query")

FewParamLists == {
  <<Query("limit"), Query("sort"), Body("Plan", TRUE)>>,
  <<Query("limit"), Query("sort"), Body("User", TRUE)>>,
  <<Query("limit"), Body("WritePlan", FALSE)>> }

\* The filter of the model is that of the language.
ASSUME LocatedIsFilter ==
  \A l \in FewParamLists, required \in BOOLEAN, location \in Locations :
    Located(l, required, location)
      = SelectSeq(l, LAMBDA p : p.required = required /\ p.location = location)

NumberedName(p, i) ==
  (IF p = "plan" THEN "Plan" ELSE "Kind") \o (IF i = 0 THEN "" ELSE ToString(i))

WriteOf(n)   == "Write" \o n
RequestOf(m) == "Request" \o m
=============================================================================
