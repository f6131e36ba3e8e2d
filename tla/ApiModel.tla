------------------------------ MODULE ApiModel ------------------------------
(***************************************************************************)
(* packages/sdk-codegen/src/sdkModels.ts: how ApiModel.load builds the     *)
(* symbol table of a specification.  The schemas become types whose        *)
(* properties are resolved one by one, enums being named and registered    *)
(* on the way; then every method asks for the request type and the         *)
(* writeable types it needs, which are derived recursively.                *)
(*                                                                         *)
(* The order of schemas, properties and methods is that of the document:   *)
(* any order is possible.  The recursion is a stack of the types under     *)
(* construction.  The specification is valid: every $ref has its schema.   *)
(***************************************************************************)
EXTENDS Integers, Sequences, FiniteSets

CONSTANTS
  Schemas,        \* names of the schemas a specification may have
  Methods,        \* operation ids
  SchemaDefs,     \* what a schema may be: its property schemas, by name
  ParamLists,     \* the parameters a method may have, the body included
  EnumName(_, _), \* titleCase of a property name, and the same with the number i
  WriteName(_),   \* "Write" before the name of a schema
  RequestName(_), \* "Request" before the name of a method
  MaxDepth        \* bound: types under construction, the JavaScript stack

ASSUME SchemasAssumption == IsFiniteSet(Schemas)
ASSUME MaxDepthAssumption == MaxDepth \in Nat /\ MaxDepth > Cardinality(Schemas) + 1

\* MethodParameterLocation.
Locations == {"path", "body", "query", "header", "cookie"}

Kinds == {"intrinsic", "ref", "array", "enum", "enums"}

\* A property schema: of an intrinsic type (or an array or hash of one), a $ref,
\* an array or hash of a $ref, an enum, or an array of enum values.
ASSUME SchemaDefsAssumption ==
  \A d \in SchemaDefs : \A p \in DOMAIN d :
    /\ d[p].kind \in Kinds /\ d[p].readOnly \in BOOLEAN
    /\ d[p].kind \in {"ref", "array"} => d[p].of \in Schemas

ASSUME ParamListsAssumption ==
  \A l \in ParamLists :
    /\ l \in Seq({l[i] : i \in DOMAIN l})
    /\ \A i \in DOMAIN l :
         /\ l[i].required \in BOOLEAN /\ l[i].location \in Locations
         /\ l[i].type.kind \in {"intrinsic", "ref", "array"}
         /\ l[i].type.kind \in {"ref", "array"} => l[i].type.name \in Schemas
         /\ \A j \in DOMAIN l : l[i].name = l[j].name => i = j

VARIABLES
  schemas,   \* spec.components.schemas
  params,    \* spec.paths: the parameters of each method
  at,        \* "schemas", "methods", "done" or "crashed"
  unloaded,  \* schemas whose properties are not loaded
  loading,   \* the schema whose properties are being loaded
  left,      \* its properties that are not
  props,     \* Type.properties, by schema
  types,     \* ApiModel.types: what each name denotes
  enumTypes, \* ApiModel.enumTypes: the name of the enum with these values
  unmade,    \* methods whose types are not made
  stack,     \* the types under construction
  writers,   \* ApiModel.requestTypes, the writeable types: their properties
  requests   \* ApiModel.requestTypes, the request types, by the hash of the parameters

spec == <<schemas, params>>
loads == <<unloaded, loading, left, props, enumTypes>>
vars == <<spec, at, loads, types, unmade, stack, writers, requests>>

Nothing == [x \in {} |-> x]
None == ""
Extend(f, x, v) == [y \in DOMAIN f \union {x} |-> IF y = x THEN v ELSE f[y]]

Schema(n)    == [kind |-> "schema", of |-> n]
Enum(values) == [kind |-> "enum", of |-> values]
Write(n)     == [kind |-> "write", of |-> n]
Request(m)   == [kind |-> "request", of |-> m]

\* The IType of a property: for an array that of its elements.
IType(kind, name) == [kind |-> kind, name |-> name]
Writer(n) == IType("write", n)

----------------------------------------------------------------------------
(* Type.load: the properties of the schemas.                               *)

NextSchema ==
  /\ at = "schemas" /\ left = {}
  /\ \E n \in unloaded :
       /\ unloaded' = unloaded \ {n}
       /\ loading' = n /\ left' = DOMAIN schemas[n]
  /\ UNCHANGED <<spec, at, props, enumTypes, types, unmade, stack, writers, requests>>

SetProperty(p, t) ==
  /\ props' = [props EXCEPT ![loading] = Extend(@, p, t)]
  /\ left' = left \ {p}
  /\ UNCHANGED <<spec, at, unloaded, loading, unmade, stack, writers, requests>>

PlainProperty ==
  /\ at = "schemas"
  /\ \E p \in left :
       LET s == schemas[loading][p] IN
         /\ s.kind \in {"intrinsic", "ref", "array"}
         /\ SetProperty(p, IType(s.kind, s.of))
  /\ UNCHANGED <<types, enumTypes>>

\* findName: the first name of the enum that is free.
NewName(p, name) ==
  \E i \in 0 .. Cardinality(DOMAIN types) :
    /\ name = EnumName(p, i) /\ name \notin DOMAIN types
    /\ \A j \in 0 .. i - 1 : EnumName(p, j) \in DOMAIN types

Candidates(p) == {EnumName(p, i) : i \in 0 .. Cardinality(DOMAIN types)}

Register(values, name) ==
  /\ enumTypes' = Extend(enumTypes, values, name)
  /\ types' = Extend(types, name, Enum(values))

\* Mutant: an enum with known values keeps the name it was given.
KeepNewEnum ==
  /\ at = "schemas"
  /\ \E p \in left :
       LET s == schemas[loading][p] IN
         /\ s.kind \in {"enum", "enums"} /\ s.of \in DOMAIN enumTypes
         /\ \E name \in Candidates(p) :
              NewName(p, name) /\ SetProperty(p, IType(s.kind, name))
  /\ UNCHANGED <<types, enumTypes>>

\* registerEnum for values that are known: the property has the known type. For
\* an array of enum values its answer is not used.
KnownEnum ==
  /\ at = "schemas"
  /\ \E p \in left :
       LET s == schemas[loading][p] IN
         /\ s.kind \in {"enum", "enums"} /\ s.of \in DOMAIN enumTypes
         /\ \E name \in Candidates(p) :
              /\ NewName(p, name)
              /\ SetProperty(p, IType(s.kind, IF s.kind = "enum" THEN enumTypes[s.of] ELSE name))
  /\ UNCHANGED <<types, enumTypes>>

NewEnum ==
  /\ at = "schemas"
  /\ \E p \in left :
       LET s == schemas[loading][p] IN
         /\ s.kind \in {"enum", "enums"} /\ s.of \notin DOMAIN enumTypes
         /\ \E name \in Candidates(p) :
              NewName(p, name) /\ Register(s.of, name) /\ SetProperty(p, IType(s.kind, name))

SchemasLoaded ==
  /\ at = "schemas" /\ left = {} /\ unloaded = {}
  /\ at' = "methods"
  /\ UNCHANGED <<spec, loads, types, unmade, stack, writers, requests>>

----------------------------------------------------------------------------
(* loadDynamicTypes.                                                       *)

\* Type.readOnly: every property is, so a type without properties is read-only.
\* Arrays and hashes are what their elements are.
IsReadOnly(t) ==
  t.kind \in {"ref", "array"} /\ \A p \in DOMAIN schemas[t.name] : schemas[t.name][p].readOnly

Writeable(n) ==
  {p \in DOMAIN props[n] : ~schemas[n][p].readOnly /\ ~IsReadOnly(props[n][p])}

\* mayGetWriteableType: has the type read-only properties, and others. An array
\* has no properties.
NeedsWriter(t) ==
  t.kind = "ref" /\ Writeable(t.name) \notin {{}, DOMAIN props[t.name]}

\* A filter of the list: the parameters there, in their order.
Located(parameters, required, location) ==
  LET there == {i \in DOMAIN parameters :
                  parameters[i].required = required /\ parameters[i].location = location}
  IN  [k \in 1 .. Cardinality(there) |->
         parameters[CHOOSE i \in there : Cardinality({j \in there : j <= i}) = k]]

ByLocation(l, required) ==
  Located(l, required, "path") \o Located(l, required, "body") \o Located(l, required, "query")
    \o Located(l, required, "header") \o Located(l, required, "cookie")

allParams(l) == ByLocation(l, TRUE) \o ByLocation(l, FALSE)

\* Mutant: the types of the parameters are not part of the hash.
HashOfNames(m) == [i \in DOMAIN allParams(params[m]) |-> allParams(params[m])[i].name]

\* What _getRequestType hashes: name, type, required and location of each.
Hash(m) == allParams(params[m])

eligibleForRequestType(m) ==
  Len(ByLocation(params[m], FALSE)) - Len(Located(params[m], FALSE, "body")) > 1

\* A call under construction: whose properties they are, the property of the
\* caller it is for, the properties still to be made and those that are.
Frame(kind, of, item, todo) ==
  [kind |-> kind, of |-> of, item |-> item, todo |-> todo, props |-> Nothing]

ParamTypes(m) ==
  [x \in {params[m][i].name : i \in DOMAIN params[m]} |->
     (CHOOSE p \in {params[m][i] : i \in DOMAIN params[m]} : p.name = x).type]

top == stack[Len(stack)]
Below == SubSeq(stack, 1, Len(stack) - 1)

\* Mutant: the property is not taken off the list.
KeepTodo(s, x, t) == [s EXCEPT ![Len(s)].props = Extend(@, x, t)]

\* A property of a type under construction is made.
WithProperty(f, x, t) ==
  [kind |-> f.kind, of |-> f.of, item |-> f.item,
   todo |-> [y \in DOMAIN f.todo \ {x} |-> f.todo[y]], props |-> Extend(f.props, x, t)]

\* It is one of the type on top.
Made(s, x, t) == [s EXCEPT ![Len(s)] = WithProperty(@, x, t)]

\* Method.makeTypes up to its loop: the request type, if there is to be one, is
\* constructed before the writeable types of the parameters are asked for.
MakeTypes ==
  /\ at = "methods" /\ stack = << >>
  /\ \E m \in unmade :
       LET make == Frame("method", m, None, ParamTypes(m))
       IN  stack' = IF eligibleForRequestType(m) /\ Hash(m) \notin DOMAIN requests
                    THEN <<make, Frame("request", m, None, ParamTypes(m))>>
                    ELSE <<make>>
  /\ UNCHANGED <<spec, at, loads, types, unmade, writers, requests>>

\* A property whose type needs no writeable type, or has one.
SimpleItem ==
  /\ at = "methods" /\ stack # << >>
  /\ \E x \in DOMAIN top.todo :
       LET t == top.todo[x] IN
         /\ NeedsWriter(t) => t.name \in DOMAIN writers
         /\ stack' = Made(stack, x, IF NeedsWriter(t) THEN Writer(t.name) ELSE t)
  /\ UNCHANGED <<spec, at, loads, types, unmade, writers, requests>>

\* makeWriteableType: the WriteType is constructed; it is registered when it is done.
NewWriter ==
  /\ at = "methods" /\ stack # << >> /\ Len(stack) < MaxDepth
  /\ \E x \in DOMAIN top.todo :
       LET n == top.todo[x].name IN
         /\ NeedsWriter(top.todo[x]) /\ n \notin DOMAIN writers
         /\ stack' = Append(stack, Frame("write", n, x, [p \in Writeable(n) |-> props[n][p]]))
  /\ UNCHANGED <<spec, at, loads, types, unmade, writers, requests>>

\* The call stack is exceeded, and the constructor of ApiModel with it.
Overflow ==
  /\ at = "methods" /\ Len(stack) = MaxDepth
  /\ \E x \in DOMAIN top.todo : NeedsWriter(top.todo[x]) /\ top.todo[x].name \notin DOMAIN writers
  /\ at' = "crashed"
  /\ UNCHANGED <<spec, loads, types, unmade, stack, writers, requests>>

\* Mutant: the property made stays with the type it has in the schema.
WriterUnused ==
  /\ at = "methods" /\ stack # << >> /\ top.todo = Nothing /\ top.kind = "write"
  /\ writers' = Extend(writers, top.of, top.props)
  /\ types' = Extend(types, WriteName(top.of), Write(top.of))
  /\ stack' = Made(Below, top.item, IType("ref", top.of))
  /\ UNCHANGED <<spec, at, loads, unmade, requests>>

WriterMade ==
  /\ at = "methods" /\ stack # << >> /\ top.todo = Nothing /\ top.kind = "write"
  /\ writers' = Extend(writers, top.of, top.props)
  /\ types' = Extend(types, WriteName(top.of), Write(top.of))
  /\ stack' = Made(Below, top.item, Writer(top.of))
  /\ UNCHANGED <<spec, at, loads, unmade, requests>>

\* makeRequestType: the request type is registered.
RequestMade ==
  /\ at = "methods" /\ stack # << >> /\ top.todo = Nothing /\ top.kind = "request"
  /\ requests' = Extend(requests, Hash(top.of), [of |-> top.of, props |-> top.props])
  /\ types' = Extend(types, RequestName(top.of), Request(top.of))
  /\ stack' = Below
  /\ UNCHANGED <<spec, at, loads, unmade, writers>>

MethodMade ==
  /\ at = "methods" /\ stack # << >> /\ top.todo = Nothing /\ top.kind = "method"
  /\ unmade' = unmade \ {top.of}
  /\ stack' = Below
  /\ UNCHANGED <<spec, at, loads, types, writers, requests>>

Loaded ==
  /\ at = "methods" /\ stack = << >> /\ unmade = {}
  /\ at' = "done"
  /\ UNCHANGED <<spec, loads, types, unmade, stack, writers, requests>>

----------------------------------------------------------------------------
Init ==
  /\ schemas \in [Schemas -> SchemaDefs] /\ params \in [Methods -> ParamLists]
  /\ at = "schemas" /\ unloaded = Schemas /\ loading = None /\ left = {}
  /\ props = [n \in Schemas |-> Nothing]
  /\ types = [n \in Schemas |-> Schema(n)]
  /\ enumTypes = Nothing /\ unmade = Methods /\ stack = << >>
  /\ writers = Nothing /\ requests = Nothing

Next ==
  \/ NextSchema \/ PlainProperty \/ KnownEnum \/ NewEnum \/ SchemasLoaded
  \/ MakeTypes \/ SimpleItem \/ NewWriter \/ Overflow
  \/ WriterMade \/ RequestMade \/ MethodMade \/ Loaded

\* One constructor call: it goes on as long as it can.
Spec == Init /\ [][Next]_vars /\ WF_vars(Next)

----------------------------------------------------------------------------
(* Properties.                                                             *)

TypeOK ==
  /\ at \in {"schemas", "methods", "done", "crashed"}
  /\ unloaded \subseteq Schemas /\ loading \in Schemas \union {None}
  /\ left # {} => loading \in Schemas \ unloaded /\ left \subseteq DOMAIN schemas[loading]
  /\ \A n \in Schemas :
       DOMAIN props[n] = IF n \in unloaded THEN {}
                         ELSE DOMAIN schemas[n] \ (IF n = loading THEN left ELSE {})
  /\ Schemas \subseteq DOMAIN types
  /\ unmade \subseteq Methods /\ DOMAIN writers \subseteq Schemas
  /\ Len(stack) <= MaxDepth
  /\ \A i \in DOMAIN stack :
       IF i = 1 THEN stack[i].kind = "method" /\ stack[i].of \in unmade
       ELSE stack[i].kind \in {"request", "write"}

\* The writeable properties of a schema, and whether some are and some are not.
WriteableProps(n) ==
  {p \in DOMAIN schemas[n] :
     LET s == schemas[n][p] IN
       /\ ~s.readOnly
       /\ s.kind \in {"ref", "array"} => \E q \in DOMAIN schemas[s.of] : ~schemas[s.of][q].readOnly}

PartlyReadOnly(n) == WriteableProps(n) \notin {{}, DOMAIN schemas[n]}

\* The type a property or parameter of type t has in a derived type.
Derived(t) == IF t.kind = "ref" /\ PartlyReadOnly(t.name) THEN Writer(t.name) ELSE t

\* A writeable type has exactly the writeable properties of its schema, each with
\* the writeable type of its own type where there is one, in whatever order the
\* methods and the properties asked for it; and every schema a method or a
\* writeable type refers to has its writeable type if it is partly read-only.
WriteTypesAreRight ==
  /\ \A n \in DOMAIN writers :
       /\ PartlyReadOnly(n) /\ DOMAIN writers[n] = WriteableProps(n)
       /\ \A p \in WriteableProps(n) : writers[n][p] = Derived(props[n][p])
       /\ \A p \in WriteableProps(n) :
            writers[n][p].kind = "write" => writers[n][p].name \in DOMAIN writers
  /\ \A m \in Methods \ unmade : \A i \in DOMAIN params[m] :
       LET t == params[m][i].type
       IN  t.kind = "ref" /\ PartlyReadOnly(t.name) => t.name \in DOMAIN writers

Optionals(m) ==
  {i \in DOMAIN params[m] : ~params[m][i].required /\ params[m][i].location # "body"}

\* A method with two optional parameters beside the body has a request type, its
\* own or that of a method made before it, with exactly its parameters and their
\* types; the other methods have none.
RequestTypesFit ==
  \A m \in Methods \ unmade :
    IF Cardinality(Optionals(m)) > 1
    THEN /\ Hash(m) \in DOMAIN requests
         /\ LET r == requests[Hash(m)].props IN
              /\ DOMAIN r = {params[m][i].name : i \in DOMAIN params[m]}
              /\ \A i \in DOMAIN params[m] : r[params[m][i].name] = Derived(params[m][i].type)
    ELSE \A h \in DOMAIN requests : requests[h].of # m

DerivedNames ==
  {WriteName(n) : n \in DOMAIN writers} \union {RequestName(requests[h].of) : h \in DOMAIN requests}

\* A name of the table denotes the type it was given to, but for the name of a
\* derived type, which takes the place of what had the name before.
Denotes(name, type) ==
  name \in DOMAIN types /\ (types[name] = type \/ name \in DerivedNames)

\* No enum takes the name of a schema or of another enum, however their titles
\* coincide and whatever names the enums before were given and did not use.
NamesDenote ==
  /\ \A n \in Schemas : Denotes(n, Schema(n))
  /\ \A v \in DOMAIN enumTypes : Denotes(enumTypes[v], Enum(v))

Uses(values) ==
  {n \in Schemas : \E p \in DOMAIN schemas[n] :
     schemas[n][p].kind \in {"enum", "enums"} /\ schemas[n][p].of = values}

\* The name in the type of an enum property denotes the enum with its values; in
\* an array of an enum it does if no other schema has an enum with these values
\* (the answer of registerEnum is not used there, sdkModels.ts:2093, and the name
\* may denote nothing, or a different enum that got it later).
EnumsResolve ==
  \A n \in Schemas : \A p \in DOMAIN props[n] :
    LET s == schemas[n][p] IN
      \/ s.kind = "enum"
      \/ s.kind = "enums" /\ Uses(s.of) = {n} /\ \A q \in DOMAIN schemas[n] : schemas[n][q].of = s.of => q = p
      => Denotes(props[n][p].name, Enum(s.of))

\* Names are told apart: a schema and an enum keep the names they got, and what
\* refers to an enum by its name finds it.
NamesResolve == NamesDenote /\ EnumsResolve

\* "types[n] and corresponding refs[ref] MUST reference the same type instance!"
\* (sdkModels.ts:2278): a schema is found under its name as it is under its $ref.
RefsAgree == \A n \in Schemas : types[n] = Schema(n)

\* The writeable type of n has a property with that of o.
Refers(n, o) ==
  PartlyReadOnly(n) /\ PartlyReadOnly(o)
    /\ \E p \in WriteableProps(n) : schemas[n][p].kind = "ref" /\ schemas[n][p].of = o

Circular == \E S \in SUBSET Schemas : S # {} /\ \A n \in S : \E o \in S : Refers(n, o)

\* The table is completed, unless partly read-only types refer to each other in a
\* circle: a WriteType is registered only when it is constructed, so that its
\* construction then begins again and again (sdkModels.ts:2213).
LoadingEnds == <>(at = "done" \/ (at = "crashed" /\ Circular))
=============================================================================
