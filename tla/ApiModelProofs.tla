--------------------------- MODULE ApiModelProofs ---------------------------
(***************************************************************************)
(* Proofs about the symbol table of a specification, for any schemas,      *)
(* methods and parameters, circles of partly read-only types included.     *)
(***************************************************************************)
EXTENDS ApiModel, SequenceTheorems, FiniteSetTheorems, TLAPS

SpecOK == schemas \in [Schemas -> SchemaDefs] /\ params \in [Methods -> ParamLists]

\* What is not begun and what is over in each phase.
PhaseOK ==
  /\ at = "schemas" => stack = << >> /\ DOMAIN writers = {} /\ unmade = Methods
  /\ at # "schemas" => unloaded = {} /\ left = {}

\* The type of a property is that of its schema.
PropsOK ==
  /\ DOMAIN props = Schemas
  /\ \A n \in Schemas : \A p \in DOMAIN props[n] :
       /\ props[n][p].kind = schemas[n][p].kind
       /\ props[n][p].kind \in {"ref", "array"} => props[n][p].name = schemas[n][p].of

\* The properties a type under construction has and will have, in the schemas.
Source(f) ==
  IF f.kind = "write" THEN [p \in WriteableProps(f.of) |-> props[f.of][p]] ELSE ParamTypes(f.of)

\* The type made for a property is the one it should have, and if that is a
\* writeable type it is one of W, those that are registered.
BuiltOK(t, source, W) == t = Derived(source) /\ (t.kind = "write" => t.name \in W)

FrameOK(f, W) ==
  /\ IF f.kind = "write" THEN f.of \in Schemas /\ PartlyReadOnly(f.of) ELSE f.of \in Methods
  /\ DOMAIN f.todo \union DOMAIN f.props = DOMAIN Source(f)
  /\ \A x \in DOMAIN f.todo : f.todo[x] = Source(f)[x]
  /\ \A x \in DOMAIN f.props : BuiltOK(f.props[x], Source(f)[x], W)

\* A writeable type is under construction for a property of the type below it.
Awaited(f, below) ==
  f.kind = "write" =>
    /\ f.item \in DOMAIN below.todo
    /\ below.todo[f.item].kind = "ref" /\ below.todo[f.item].name = f.of

\* The types under construction, given the writeable types and the hashes of the
\* request types that are registered.
StackIs(s, W, H) ==
  /\ \E S : s \in Seq(S)
  /\ \A i \in DOMAIN s :
       /\ FrameOK(s[i], W)
       /\ i > 1 => Awaited(s[i], s[i - 1])
       /\ s[i].kind = "request" => i = 2 /\ Hash(s[i].of) \notin H

StackOK == StackIs(stack, DOMAIN writers, DOMAIN requests)

WriterIs(n, ps, W) ==
  /\ PartlyReadOnly(n) /\ DOMAIN ps = WriteableProps(n)
  /\ \A p \in WriteableProps(n) : BuiltOK(ps[p], props[n][p], W)

WritersOK == \A n \in DOMAIN writers : WriterIs(n, writers[n], DOMAIN writers)

\* The parameters of a method that is made have their writeable types.
MethodsOK ==
  \A m \in Methods \ unmade : \A i \in DOMAIN params[m] :
    LET t == params[m][i].type
    IN  t.kind = "ref" /\ PartlyReadOnly(t.name) => t.name \in DOMAIN writers

IInv ==
  /\ SpecOK /\ TypeOK /\ PhaseOK /\ PropsOK /\ StackOK /\ WritersOK /\ MethodsOK /\ NamesDenote

----------------------------------------------------------------------------
(* Data.                                                                   *)

LEMMA NothingIsEmpty == DOMAIN Nothing = {}
BY DEF Nothing

LEMMA SchemaTyped ==
  ASSUME SpecOK, NEW n \in Schemas, NEW p \in DOMAIN schemas[n]
  PROVE  /\ schemas[n][p].kind \in Kinds /\ schemas[n][p].readOnly \in BOOLEAN
         /\ schemas[n][p].kind \in {"ref", "array"} => schemas[n][p].of \in Schemas
BY SchemaDefsAssumption DEF SpecOK

\* Names of parameters are names of one parameter.
LEMMA ParamTyped ==
  ASSUME SpecOK, NEW m \in Methods
  PROVE  /\ DOMAIN ParamTypes(m) = {params[m][i].name : i \in DOMAIN params[m]}
         /\ \A i \in DOMAIN params[m] :
              /\ ParamTypes(m)[params[m][i].name] = params[m][i].type
              /\ params[m][i].type.kind \in {"intrinsic", "ref", "array"}
              /\ params[m][i].type.kind \in {"ref", "array"} => params[m][i].type.name \in Schemas
<1> DEFINE P == {params[m][i] : i \in DOMAIN params[m]}
<1>1. params[m] \in ParamLists
  BY DEF SpecOK
<1>2. DOMAIN ParamTypes(m) = {params[m][i].name : i \in DOMAIN params[m]}
  BY DEF ParamTypes
<1>3. ASSUME NEW i \in DOMAIN params[m]
      PROVE  ParamTypes(m)[params[m][i].name] = params[m][i].type
  <2> DEFINE x == params[m][i].name
             c == CHOOSE p \in P : p.name = x
  <2>1. c \in P /\ c.name = x
    OBVIOUS
  <2>2. PICK j \in DOMAIN params[m] : c = params[m][j]
    BY <2>1
  <2>3. j = i
    BY <1>1, <2>1, <2>2, ParamListsAssumption
  <2>4. ParamTypes(m)[x] = c.type
    BY DEF ParamTypes
  <2>5. QED
    BY <2>2, <2>3, <2>4
<1>4. QED
  BY <1>1, <1>2, <1>3, ParamListsAssumption

\* What the methods read of the loaded schemas.
LEMMA LoadedProps ==
  ASSUME SpecOK, TypeOK, PhaseOK, PropsOK, at # "schemas", NEW n \in Schemas
  PROVE  DOMAIN props[n] = DOMAIN schemas[n] /\ Writeable(n) = WriteableProps(n)
<1>1. DOMAIN props[n] = DOMAIN schemas[n]
  BY DEF TypeOK, PhaseOK
<1>2. ASSUME NEW p \in DOMAIN schemas[n]
      PROVE  (~schemas[n][p].readOnly /\ ~IsReadOnly(props[n][p])) <=>
               (/\ ~schemas[n][p].readOnly
                /\ schemas[n][p].kind \in {"ref", "array"} =>
                     \E q \in DOMAIN schemas[schemas[n][p].of] : ~schemas[schemas[n][p].of][q].readOnly)
  BY <1>1 DEF PropsOK, IsReadOnly
<1>3. QED
  BY <1>1, <1>2 DEF Writeable, WriteableProps

LEMMA NeedsWriterIsDerived ==
  ASSUME SpecOK, TypeOK, PhaseOK, PropsOK, at # "schemas", NEW t,
         t.kind = "ref" => t.name \in Schemas
  PROVE  Derived(t) = IF NeedsWriter(t) THEN Writer(t.name) ELSE t
BY LoadedProps DEF NeedsWriter, Derived, PartlyReadOnly

\* The types a type under construction starts from.
LEMMA SourceTyped ==
  ASSUME SpecOK, TypeOK, PhaseOK, PropsOK, at # "schemas", NEW f, NEW W, FrameOK(f, W),
         NEW x \in DOMAIN Source(f)
  PROVE  /\ Source(f)[x].kind # "write"
         /\ Source(f)[x].kind = "ref" => Source(f)[x].name \in Schemas
<1>1. CASE f.kind = "write"
  <2>1. f.of \in Schemas /\ x \in WriteableProps(f.of) /\ Source(f)[x] = props[f.of][x]
    BY <1>1 DEF FrameOK, Source
  <2>2. x \in DOMAIN schemas[f.of] /\ x \in DOMAIN props[f.of]
    BY <2>1, LoadedProps DEF WriteableProps
  <2>3. QED
    BY <2>1, <2>2, SchemaTyped DEF PropsOK, Kinds
<1>2. CASE f.kind # "write"
  <2>1. f.of \in Methods /\ Source(f) = ParamTypes(f.of)
    BY <1>2 DEF FrameOK, Source
  <2>2. PICK i \in DOMAIN params[f.of] : x = params[f.of][i].name
    BY <2>1, ParamTyped
  <2>3. QED
    BY <2>1, <2>2, ParamTyped
<1>3. QED
  BY <1>1, <1>2

----------------------------------------------------------------------------
(* The stack.                                                              *)

LEMMA WithPropertyFacts ==
  ASSUME NEW f, NEW x, NEW t
  PROVE  LET g == WithProperty(f, x, t) IN
           /\ g.kind = f.kind /\ g.of = f.of /\ g.item = f.item
           /\ g.todo = [y \in DOMAIN f.todo \ {x} |-> f.todo[y]]
           /\ g.props = Extend(f.props, x, t)
BY DEF WithProperty

\* The types below are left alone.
LEMMA MadeFacts ==
  ASSUME NEW S, NEW s \in Seq(S), s # << >>, NEW x, NEW t
  PROVE  /\ \E T : Made(s, x, t) \in Seq(T)
         /\ Len(Made(s, x, t)) = Len(s)
         /\ \A i \in 1 .. Len(s) - 1 : Made(s, x, t)[i] = s[i]
         /\ Made(s, x, t)[Len(s)] = WithProperty(s[Len(s)], x, t)
<1> DEFINE n == Len(s)  g == WithProperty(s[n], x, t)
<1>1. Len(s) \in Nat \ {0} /\ DOMAIN s = 1 .. Len(s)
  BY EmptySeq, LenProperties
<1>2. Made(s, x, t) = [s EXCEPT ![n] = g]
  BY <1>1 DEF Made
<1>3. s \in Seq(S \union {g}) /\ n \in 1 .. n /\ g \in S \union {g}
  BY <1>1, SeqMonotonic
<1> HIDE DEF g
<1>4. /\ [s EXCEPT ![n] = g] \in Seq(S \union {g})
      /\ Len([s EXCEPT ![n] = g]) = n
      /\ \A j \in 1 .. n : [s EXCEPT ![n] = g][j] = IF j = n THEN g ELSE s[j]
  BY <1>3, ExceptSeq
<1>5. Made(s, x, t)[n] = g /\ \A i \in 1 .. n - 1 : Made(s, x, t)[i] = s[i]
  <2> HIDE DEF n
  <2>1. n \in Nat /\ \A i \in 1 .. n - 1 : i \in 1 .. n /\ i # n
    <3>1. n \in Nat
      BY <1>1 DEF n
    <3>2. QED
      BY <3>1
  <2>2. QED
    BY <1>2, <1>3, <1>4, <2>1
<1>6. QED
  BY <1>2, <1>4, <1>5 DEF g

LEMMA BelowFacts ==
  ASSUME NEW S, NEW s \in Seq(S), s # << >>
  PROVE  /\ SubSeq(s, 1, Len(s) - 1) \in Seq(S)
         /\ Len(SubSeq(s, 1, Len(s) - 1)) = Len(s) - 1
         /\ \A i \in 1 .. Len(s) - 1 : SubSeq(s, 1, Len(s) - 1)[i] = s[i]
<1> DEFINE n == Len(s) - 1
<1>0. Len(s) \in Nat \ {0}
  BY EmptySeq, LenProperties
<1>1. n \in Nat /\ n \in Int /\ 1 \in Int /\ n - 1 + 1 = n /\ (1 <= n \/ n = 0)
  <2>1. PICK k \in Nat \ {0} : Len(s) = k
    BY <1>0
  <2>2. n = k - 1
    BY <2>1
  <2> HIDE DEF n
  <2>3. QED
    BY <2>2
<1>2. \A i \in 1 .. n : s[i] \in S /\ 1 + i - 1 = i
  BY <1>1, EmptySeq, LenProperties, ElementOfSeq
<1> HIDE DEF n
<1>3. /\ SubSeq(s, 1, n) \in Seq(S)
      /\ Len(SubSeq(s, 1, n)) = IF 1 <= n THEN n - 1 + 1 ELSE 0
      /\ \A i \in 1 .. n - 1 + 1 : SubSeq(s, 1, n)[i] = s[1 + i - 1]
  BY <1>1, <1>2, SubSeqProperties
<1>4. Len(SubSeq(s, 1, n)) = n /\ \A i \in 1 .. n : SubSeq(s, 1, n)[i] = s[i]
  BY <1>1, <1>2, <1>3
<1>5. QED
  BY <1>3, <1>4 DEF n

\* More types are registered: what was made is still right.
LEMMA FrameGrows ==
  ASSUME NEW f, NEW W, NEW V, FrameOK(f, W), W \subseteq V
  PROVE  FrameOK(f, V)
BY DEF FrameOK, BuiltOK

LEMMA MadeFrame ==
  ASSUME NEW f, NEW W, FrameOK(f, W), NEW x \in DOMAIN f.todo, NEW t,
         BuiltOK(t, Source(f)[x], W)
  PROVE  FrameOK(WithProperty(f, x, t), W)
<1> DEFINE g == WithProperty(f, x, t)
<1>1. /\ g.kind = f.kind /\ g.of = f.of
      /\ g.todo = [y \in DOMAIN f.todo \ {x} |-> f.todo[y]]
      /\ g.props = Extend(f.props, x, t)
  BY WithPropertyFacts
<1> HIDE DEF g
<1>2. Source(g) = Source(f)
  BY <1>1 DEF Source
<1>3. DOMAIN g.todo = DOMAIN f.todo \ {x} /\ DOMAIN g.props = DOMAIN f.props \union {x}
  BY <1>1 DEF Extend
<1>4. \A y \in DOMAIN g.todo : g.todo[y] = Source(f)[y]
  BY <1>1 DEF FrameOK
<1>5. /\ g.props[x] = t
      /\ \A y \in DOMAIN f.props : y # x => g.props[y] = f.props[y]
  BY <1>1 DEF Extend
<1>6. \A y \in DOMAIN f.props : BuiltOK(f.props[y], Source(f)[y], W)
  BY DEF FrameOK
<1>7. ASSUME NEW y \in DOMAIN g.props PROVE BuiltOK(g.props[y], Source(f)[y], W)
  <2>1. CASE y = x
    BY <2>1, <1>5
  <2>2. CASE y # x
    <3>1. y \in DOMAIN f.props /\ g.props[y] = f.props[y]
      BY <2>2, <1>3, <1>5
    <3>2. QED
      BY <3>1, <1>6
  <2>3. QED
    BY <2>1, <2>2
<1>8. (IF g.kind = "write" THEN g.of \in Schemas /\ PartlyReadOnly(g.of) ELSE g.of \in Methods)
      /\ DOMAIN f.todo \union DOMAIN f.props = DOMAIN Source(f)
  BY <1>1 DEF FrameOK
<1>9. FrameOK(g, W)
  BY <1>1, <1>2, <1>3, <1>4, <1>7, <1>8 DEF FrameOK
<1>10. QED
  BY <1>9 DEF g

\* The type on top has one more property.
LEMMA MadeStack ==
  ASSUME NEW s, NEW W, NEW H, StackIs(s, W, H), s # << >>,
         NEW x \in DOMAIN s[Len(s)].todo, NEW t, BuiltOK(t, Source(s[Len(s)])[x], W)
  PROVE  StackIs(Made(s, x, t), W, H)
<1> DEFINE n == Len(s)  m == Made(s, x, t)
<1>1. PICK S : s \in Seq(S)
  BY DEF StackIs
<1>2. n \in Nat \ {0} /\ DOMAIN s = 1 .. n
  BY <1>1, EmptySeq, LenProperties
<1>3. FrameOK(s[n], W)
  <2>1. n \in DOMAIN s
    BY <1>2
  <2>2. QED
    BY <2>1 DEF StackIs
<1>4. /\ \E T : m \in Seq(T)
      /\ Len(m) = n /\ \A i \in 1 .. n - 1 : m[i] = s[i]
      /\ m[n] = WithProperty(s[n], x, t)
  BY <1>1, MadeFacts
<1>5. FrameOK(m[n], W)
  <2>1. FrameOK(WithProperty(s[n], x, t), W)
    BY <1>3, MadeFrame
  <2>2. QED
    BY <1>4, <2>1
<1>6. m[n].kind = s[n].kind /\ m[n].of = s[n].of /\ m[n].item = s[n].item
  BY <1>4 DEF WithProperty
<1>7. DOMAIN m = 1 .. n
  BY <1>4, LenProperties
<1> HIDE DEF m, n
<1>8. ASSUME NEW i \in 1 .. n
      PROVE  /\ FrameOK(m[i], W)
             /\ i > 1 => Awaited(m[i], m[i - 1])
             /\ m[i].kind = "request" => i = 2 /\ Hash(m[i].of) \notin H
  <2>1. FrameOK(s[i], W) /\ (i > 1 => Awaited(s[i], s[i - 1]))
        /\ (s[i].kind = "request" => i = 2 /\ Hash(s[i].of) \notin H)
    <3>1. i \in DOMAIN s
      BY <1>2
    <3>2. QED
      BY <3>1 DEF StackIs
  <2>2. i > 1 => i - 1 \in 1 .. n - 1 /\ m[i - 1] = s[i - 1]
    BY <1>2, <1>4
  <2>3. CASE i = n
    BY <2>1, <2>2, <2>3, <1>5, <1>6 DEF Awaited
  <2>4. CASE i # n
    <3>1. m[i] = s[i]
      BY <2>4, <1>2, <1>4
    <3>2. QED
      BY <2>1, <2>2, <3>1
  <2>5. QED
    BY <2>3, <2>4
<1>9. StackIs(m, W, H)
  BY <1>4, <1>7, <1>8 DEF StackIs
<1>10. QED
  BY <1>9 DEF m

----------------------------------------------------------------------------
(* What stays as it is.                                                    *)

LEMMA SchemasStay ==
  ASSUME UNCHANGED <<schemas, params, props>>
  PROVE  /\ \A n : WriteableProps(n)' = WriteableProps(n)
         /\ \A n : PartlyReadOnly(n)' <=> PartlyReadOnly(n)
         /\ \A t : Derived(t)' = Derived(t)
         /\ \A f : Source(f)' = Source(f)
         /\ \A m : Hash(m)' = Hash(m)
<1>1. /\ \A n : WriteableProps(n)' = WriteableProps(n)
      /\ \A n : PartlyReadOnly(n)' <=> PartlyReadOnly(n)
  BY DEF WriteableProps, PartlyReadOnly
<1>2. \A t : Derived(t)' = Derived(t)
  BY <1>1 DEF Derived
<1>3. \A m : ParamTypes(m)' = ParamTypes(m)
  BY DEF ParamTypes
<1>4. \A f : Source(f)' = Source(f)
  BY <1>1, <1>3 DEF Source
<1>5. \A m : Hash(m)' = Hash(m)
  BY DEF Hash
<1>6. QED
  BY <1>1, <1>2, <1>4, <1>5

LEMMA StackStays ==
  ASSUME UNCHANGED <<schemas, params, props>>,
         StackIs(stack', DOMAIN writers', DOMAIN requests')
  PROVE  StackOK'
<1>1. \A t, s, W : BuiltOK(t, s, W)' <=> BuiltOK(t, s, W)
  BY SchemasStay DEF BuiltOK
<1>2. \A f, W : FrameOK(f, W)' <=> FrameOK(f, W)
  BY <1>1, SchemasStay DEF FrameOK
<1>3. \A s, W, H : StackIs(s, W, H)' <=> StackIs(s, W, H)
  BY <1>2, SchemasStay DEF StackIs
<1>4. QED
  BY <1>3 DEF StackOK

LEMMA WritersStay ==
  ASSUME UNCHANGED <<schemas, params, props>>,
         \A n \in DOMAIN writers' : WriterIs(n, writers'[n], DOMAIN writers')
  PROVE  WritersOK'
<1>1. \A t, s, W : BuiltOK(t, s, W)' <=> BuiltOK(t, s, W)
  BY SchemasStay DEF BuiltOK
<1>2. \A n, ps, W : WriterIs(n, ps, W)' <=> WriterIs(n, ps, W)
  BY <1>1, SchemasStay DEF WriterIs
<1>3. QED
  BY <1>2 DEF WritersOK

\* Methods are made by one action.
LEMMA MethodsStay ==
  ASSUME MethodsOK, UNCHANGED <<schemas, params, unmade>>, DOMAIN writers \subseteq DOMAIN writers'
  PROVE  MethodsOK'
<1>1. \A n : PartlyReadOnly(n)' <=> PartlyReadOnly(n)
  BY DEF WriteableProps, PartlyReadOnly
<1>2. QED
  BY <1>1 DEF MethodsOK

LEMMA NamesStay ==
  ASSUME NamesDenote, UNCHANGED <<types, enumTypes>>, DerivedNames \subseteq DerivedNames'
  PROVE  NamesDenote'
BY DEF NamesDenote, Denotes, Schema, Enum

\* A name given to a derived type is one of the derived names from then on.
LEMMA NamesDerived ==
  ASSUME NamesDenote, UNCHANGED enumTypes, NEW name, NEW type, types' = Extend(types, name, type),
         DerivedNames \union {name} \subseteq DerivedNames'
  PROVE  NamesDenote'
BY DEF NamesDenote, Denotes, Schema, Enum, Extend

\* While the schemas are loaded nothing is derived from them.
LEMMA NothingDerived ==
  ASSUME IInv, at = "schemas", UNCHANGED <<spec, unmade, stack, writers, requests>>
  PROVE  SpecOK' /\ StackOK' /\ WritersOK' /\ MethodsOK' /\ DerivedNames' = DerivedNames
<1>1. stack = << >> /\ DOMAIN writers = {} /\ unmade = Methods
  BY DEF IInv, PhaseOK
<1>2. SpecOK' /\ WritersOK' /\ MethodsOK'
  BY <1>1 DEF IInv, SpecOK, spec, WritersOK, MethodsOK
<1>3. StackOK'
  <2>1. stack' = << >> /\ << >> \in Seq({})
    BY <1>1
  <2>2. DOMAIN stack' = {}
    BY <2>1
  <2>3. QED
    BY <2>1, <2>2 DEF StackOK, StackIs
<1>4. QED
  BY <1>2, <1>3 DEF DerivedNames

----------------------------------------------------------------------------
(* The steps of loading the schemas.                                       *)

LEMMA InitOK == ASSUME Init PROVE IInv
<1>1. SpecOK /\ PhaseOK /\ MethodsOK /\ WritersOK
  BY DEF Init, SpecOK, PhaseOK, MethodsOK, WritersOK, Nothing
<1>2. PropsOK
  BY DEF Init, PropsOK, Nothing
<1>3. StackOK
  <2>1. stack = << >> /\ << >> \in Seq({})
    BY DEF Init
  <2>2. DOMAIN stack = {}
    BY <2>1
  <2>3. QED
    BY <2>1, <2>2 DEF StackOK, StackIs
<1>4. TypeOK
  <2>1. Len(stack) = 0 /\ DOMAIN stack = {} /\ 0 <= MaxDepth
    BY MaxDepthAssumption DEF Init
  <2>2. \A n \in Schemas : DOMAIN props[n] = {}
    BY DEF Init, Nothing
  <2>3. DOMAIN types = Schemas /\ DOMAIN writers = {}
    BY DEF Init, Nothing
  <2>4. QED
    BY <2>1, <2>2, <2>3 DEF Init, TypeOK
<1>5. NamesDenote
  BY DEF Init, NamesDenote, Denotes, Nothing
<1>6. QED
  BY <1>1, <1>2, <1>3, <1>4, <1>5 DEF IInv

LEMMA NextSchemaOK == ASSUME IInv, NextSchema PROVE IInv'
<1>1. PICK n \in unloaded :
        unloaded' = unloaded \ {n} /\ loading' = n /\ left' = DOMAIN schemas[n]
  BY DEF NextSchema
<1>2. /\ at = "schemas" /\ left = {}
      /\ UNCHANGED <<spec, at, props, enumTypes, types, unmade, stack, writers, requests>>
      /\ schemas' = schemas
  BY DEF NextSchema, spec
<1>3. SpecOK' /\ StackOK' /\ WritersOK' /\ MethodsOK' /\ DerivedNames' = DerivedNames
  BY <1>2, NothingDerived
<1>4. TypeOK'
  <2>1. \A m \in Schemas :
          DOMAIN props'[m] = IF m \in unloaded' THEN {}
                             ELSE DOMAIN schemas'[m] \ (IF m = loading' THEN left' ELSE {})
    BY <1>1, <1>2 DEF IInv, TypeOK
  <2>2. loading' \in Schemas \ unloaded' /\ unloaded' \subseteq Schemas
    BY <1>1 DEF IInv, TypeOK
  <2>3. QED
    BY <1>1, <1>2, <2>1, <2>2 DEF IInv, TypeOK
<1>5. PhaseOK' /\ PropsOK'
  BY <1>2 DEF IInv, PhaseOK, PropsOK
<1>6. NamesDenote'
  BY <1>2, <1>3, NamesStay DEF IInv
<1>7. QED
  BY <1>3, <1>4, <1>5, <1>6 DEF IInv

\* A property gets a type that agrees with its schema.
LEMMA SetPropertyOK ==
  ASSUME IInv, at = "schemas", NEW p \in left, NEW t, SetProperty(p, t),
         t.kind = schemas[loading][p].kind,
         t.kind \in {"ref", "array"} => t.name = schemas[loading][p].of,
         DOMAIN types \subseteq DOMAIN types'
  PROVE  SpecOK' /\ TypeOK' /\ PhaseOK' /\ PropsOK' /\ StackOK' /\ WritersOK' /\ MethodsOK'
         /\ DerivedNames' = DerivedNames
<1>1. /\ props' = [props EXCEPT ![loading] = Extend(@, p, t)] /\ left' = left \ {p}
      /\ UNCHANGED <<spec, at, unloaded, loading, unmade, stack, writers, requests>>
      /\ schemas' = schemas
  BY DEF SetProperty, spec
<1>2. SpecOK' /\ StackOK' /\ WritersOK' /\ MethodsOK' /\ DerivedNames' = DerivedNames
  BY <1>1, NothingDerived
<1>3. loading \in Schemas \ unloaded /\ left \subseteq DOMAIN schemas[loading]
  BY DEF IInv, TypeOK
<1>4. /\ DOMAIN props' = Schemas /\ props'[loading] = Extend(props[loading], p, t)
      /\ \A n \in Schemas : n # loading => props'[n] = props[n]
  BY <1>1, <1>3 DEF IInv, PropsOK
<1>5. DOMAIN props'[loading] = DOMAIN props[loading] \union {p}
  BY <1>4 DEF Extend
<1>6. DOMAIN props[loading] = DOMAIN schemas[loading] \ left
  BY <1>3 DEF IInv, TypeOK
<1>7. TypeOK'
  <2>1. \A m \in Schemas :
          DOMAIN props'[m] = IF m \in unloaded THEN {}
                             ELSE DOMAIN schemas[m] \ (IF m = loading THEN left \ {p} ELSE {})
    <3>1. ASSUME NEW m \in Schemas, m # loading
          PROVE  DOMAIN props'[m] = IF m \in unloaded THEN {} ELSE DOMAIN schemas[m]
      BY <1>4, <3>1 DEF IInv, TypeOK
    <3>2. DOMAIN props'[loading] = DOMAIN schemas[loading] \ (left \ {p})
      BY <1>3, <1>5, <1>6
    <3>3. QED
      BY <1>3, <3>1, <3>2
  <2>2. /\ at' \in {"schemas", "methods", "done", "crashed"}
        /\ unloaded' \subseteq Schemas /\ loading' \in Schemas \union {None}
        /\ left' # {} => loading' \in Schemas \ unloaded' /\ left' \subseteq DOMAIN schemas'[loading']
        /\ Schemas \subseteq DOMAIN types'
    BY <1>1, <1>3 DEF IInv, TypeOK
  <2>3. QED
    BY <1>1, <2>1, <2>2 DEF IInv, TypeOK
<1>8. PhaseOK'
  BY <1>1 DEF IInv, PhaseOK
<1>9. PropsOK'
  <2>1. ASSUME NEW n \in Schemas, NEW q \in DOMAIN props'[n]
        PROVE  /\ props'[n][q].kind = schemas[n][q].kind
               /\ props'[n][q].kind \in {"ref", "array"} => props'[n][q].name = schemas[n][q].of
    <3>1. CASE n = loading /\ q = p
      <4>1. props'[n][q] = t
        BY <1>4, <3>1 DEF Extend
      <4>2. QED
        BY <3>1, <4>1
    <3>2. CASE ~(n = loading /\ q = p)
      <4>1. q \in DOMAIN props[n] /\ props'[n][q] = props[n][q]
        BY <1>4, <1>5, <3>2 DEF Extend
      <4>2. QED
        BY <4>1 DEF IInv, PropsOK
    <3>3. QED
      BY <3>1, <3>2
  <2>2. QED
    BY <1>1, <1>4, <2>1 DEF PropsOK
<1>10. QED
  BY <1>2, <1>7, <1>8, <1>9

LEMMA PlainPropertyOK == ASSUME IInv, PlainProperty PROVE IInv'
<1>1. at = "schemas" /\ UNCHANGED <<types, enumTypes>>
  BY DEF PlainProperty
<1>2. PICK p \in left :
        SetProperty(p, IType(schemas[loading][p].kind, schemas[loading][p].of))
  BY DEF PlainProperty
<1>3. SpecOK' /\ TypeOK' /\ PhaseOK' /\ PropsOK' /\ StackOK' /\ WritersOK' /\ MethodsOK'
      /\ DerivedNames' = DerivedNames
  BY <1>1, <1>2, SetPropertyOK DEF IType
<1>4. QED
  BY <1>1, <1>3, NamesStay DEF IInv

LEMMA KnownEnumOK == ASSUME IInv, KnownEnum PROVE IInv'
<1>1. at = "schemas" /\ UNCHANGED <<types, enumTypes>>
  BY DEF KnownEnum
<1>2. PICK p, name :
        /\ p \in left
        /\ schemas[loading][p].kind \in {"enum", "enums"}
        /\ SetProperty(p, IType(schemas[loading][p].kind, name))
  BY DEF KnownEnum
<1>3. SpecOK' /\ TypeOK' /\ PhaseOK' /\ PropsOK' /\ StackOK' /\ WritersOK' /\ MethodsOK'
      /\ DerivedNames' = DerivedNames
  BY <1>1, <1>2, SetPropertyOK DEF IType
<1>4. QED
  BY <1>1, <1>3, NamesStay DEF IInv

LEMMA NewEnumOK == ASSUME IInv, NewEnum PROVE IInv'
<1>1. at = "schemas"
  BY DEF NewEnum
<1>2. PICK p, name :
        /\ p \in left
        /\ schemas[loading][p].kind \in {"enum", "enums"}
        /\ schemas[loading][p].of \notin DOMAIN enumTypes /\ name \notin DOMAIN types
        /\ enumTypes' = Extend(enumTypes, schemas[loading][p].of, name)
        /\ types' = Extend(types, name, Enum(schemas[loading][p].of))
        /\ SetProperty(p, IType(schemas[loading][p].kind, name))
  BY DEF NewEnum, NewName, Register
<1>3. DOMAIN types \subseteq DOMAIN types'
  BY <1>2 DEF Extend
<1>4. SpecOK' /\ TypeOK' /\ PhaseOK' /\ PropsOK' /\ StackOK' /\ WritersOK' /\ MethodsOK'
      /\ DerivedNames' = DerivedNames
  BY <1>1, <1>2, <1>3, SetPropertyOK DEF IType
<1>5. NamesDenote'
  <2> DEFINE v == schemas[loading][p].of
  <2>1. \A x, type : Denotes(x, type) => Denotes(x, type)'
    BY <1>2, <1>4 DEF Denotes, Extend
  <2>2. types'[name] = Enum(v) /\ name \in DOMAIN types'
    BY <1>2 DEF Extend
  <2>3. enumTypes'[v] = name /\ DOMAIN enumTypes' = DOMAIN enumTypes \union {v}
        /\ \A w \in DOMAIN enumTypes : enumTypes'[w] = enumTypes[w]
    BY <1>2 DEF Extend
  <2>4. \A n \in Schemas : Denotes(n, Schema(n))'
    BY <2>1 DEF IInv, NamesDenote, Schema
  <2>5. ASSUME NEW w \in DOMAIN enumTypes' PROVE Denotes(enumTypes[w], Enum(w))'
    <3>1. CASE w = v
      BY <2>2, <2>3, <3>1 DEF Denotes, Enum
    <3>2. CASE w # v
      BY <2>1, <2>3, <3>2 DEF IInv, NamesDenote, Enum
    <3>3. QED
      BY <3>1, <3>2
  <2>6. QED
    BY <2>4, <2>5 DEF NamesDenote
<1>6. QED
  BY <1>4, <1>5 DEF IInv

LEMMA SchemasLoadedOK == ASSUME IInv, SchemasLoaded PROVE IInv'
<1>1. /\ at = "schemas" /\ left = {} /\ unloaded = {} /\ at' = "methods"
      /\ UNCHANGED <<spec, loads, types, unmade, stack, writers, requests>>
      /\ UNCHANGED <<schemas, params, unloaded, loading, left, props, enumTypes>>
  BY DEF SchemasLoaded, spec, loads
<1>2. SpecOK' /\ StackOK' /\ WritersOK' /\ MethodsOK' /\ DerivedNames' = DerivedNames
  BY <1>1, NothingDerived
<1>3. TypeOK' /\ PhaseOK' /\ PropsOK'
  BY <1>1 DEF IInv, TypeOK, PhaseOK, PropsOK
<1>4. QED
  BY <1>1, <1>2, <1>3, NamesStay DEF IInv

----------------------------------------------------------------------------
(* Pushing and popping.                                                    *)

LEMMA StackGrows ==
  ASSUME NEW s, NEW W, NEW V, NEW H, StackIs(s, W, H), W \subseteq V
  PROVE  StackIs(s, V, H)
<1>1. \A i \in DOMAIN s : FrameOK(s[i], W) => FrameOK(s[i], V)
  BY FrameGrows
<1>2. QED
  BY <1>1 DEF StackIs

LEMMA TopFacts ==
  ASSUME NEW s, NEW W, NEW H, StackIs(s, W, H), s # << >>
  PROVE  /\ Len(s) \in Nat \ {0} /\ DOMAIN s = 1 .. Len(s) /\ Len(s) \in DOMAIN s
         /\ FrameOK(s[Len(s)], W)
<1>1. PICK S : s \in Seq(S)
  BY DEF StackIs
<1>2. Len(s) \in Nat \ {0} /\ DOMAIN s = 1 .. Len(s)
  BY <1>1, EmptySeq, LenProperties
<1>3. Len(s) \in DOMAIN s
  BY <1>2
<1>4. QED
  BY <1>2, <1>3 DEF StackIs

LEMMA MadeKinds ==
  ASSUME NEW s, NEW W, NEW H, StackIs(s, W, H), s # << >>, NEW x, NEW t
  PROVE  /\ DOMAIN Made(s, x, t) = DOMAIN s /\ Len(Made(s, x, t)) = Len(s)
         /\ \A i \in DOMAIN s : Made(s, x, t)[i].kind = s[i].kind /\ Made(s, x, t)[i].of = s[i].of
<1>1. PICK S : s \in Seq(S)
  BY DEF StackIs
<1>2. Len(s) \in Nat \ {0} /\ DOMAIN s = 1 .. Len(s)
  BY TopFacts
<1>3. /\ \E T : Made(s, x, t) \in Seq(T)
      /\ Len(Made(s, x, t)) = Len(s)
      /\ \A i \in 1 .. Len(s) - 1 : Made(s, x, t)[i] = s[i]
      /\ Made(s, x, t)[Len(s)] = WithProperty(s[Len(s)], x, t)
  BY <1>1, MadeFacts
<1>4. DOMAIN Made(s, x, t) = DOMAIN s
  BY <1>2, <1>3, LenProperties
<1>5. WithProperty(s[Len(s)], x, t).kind = s[Len(s)].kind /\ WithProperty(s[Len(s)], x, t).of = s[Len(s)].of
  BY DEF WithProperty
<1>6. ASSUME NEW i \in DOMAIN s
      PROVE  Made(s, x, t)[i].kind = s[i].kind /\ Made(s, x, t)[i].of = s[i].of
  <2>1. CASE i = Len(s)
    BY <2>1, <1>3, <1>5
  <2>2. CASE i # Len(s)
    <3>1. i \in 1 .. Len(s) - 1
      BY <2>2, <1>2
    <3>2. QED
      BY <3>1, <1>3
  <2>3. QED
    BY <2>1, <2>2
<1>7. QED
  BY <1>3, <1>4, <1>6

\* What is below the top.
LEMMA PopFacts ==
  ASSUME NEW s, NEW W, NEW H, StackIs(s, W, H), s # << >>
  PROVE  LET b == SubSeq(s, 1, Len(s) - 1) IN
           /\ StackIs(b, W, H)
           /\ Len(b) = Len(s) - 1 /\ DOMAIN b = 1 .. Len(s) - 1
           /\ \A i \in DOMAIN b : i \in DOMAIN s /\ b[i] = s[i]
<1> DEFINE b == SubSeq(s, 1, Len(s) - 1)
<1>1. PICK S : s \in Seq(S)
  BY DEF StackIs
<1>2. Len(s) \in Nat \ {0} /\ DOMAIN s = 1 .. Len(s)
  BY TopFacts
<1>3. b \in Seq(S) /\ Len(b) = Len(s) - 1 /\ \A i \in 1 .. Len(s) - 1 : b[i] = s[i]
  BY <1>1, BelowFacts
<1>4. DOMAIN b = 1 .. Len(s) - 1
  BY <1>3, LenProperties
<1> HIDE DEF b
<1>5. PICK n \in Nat \ {0} : Len(s) = n
  BY <1>2
<1>6. ASSUME NEW i \in DOMAIN b
      PROVE  /\ i \in DOMAIN s /\ b[i] = s[i]
             /\ FrameOK(b[i], W)
             /\ i > 1 => Awaited(b[i], b[i - 1])
             /\ b[i].kind = "request" => i = 2 /\ Hash(b[i].of) \notin H
  <2>1. i \in 1 .. n - 1 /\ i \in 1 .. n /\ (i > 1 => i - 1 \in 1 .. n - 1)
    BY <1>4, <1>5
  <2>2. i \in DOMAIN s /\ b[i] = s[i] /\ (i > 1 => b[i - 1] = s[i - 1])
    BY <1>2, <1>3, <1>5, <2>1
  <2>3. /\ FrameOK(s[i], W)
        /\ i > 1 => Awaited(s[i], s[i - 1])
        /\ s[i].kind = "request" => i = 2 /\ Hash(s[i].of) \notin H
    BY <2>2 DEF StackIs
  <2>4. QED
    BY <2>2, <2>3
<1>7. StackIs(b, W, H)
  BY <1>3, <1>6 DEF StackIs
<1>8. QED
  BY <1>3, <1>4, <1>6, <1>7 DEF b

LEMMA PushFacts ==
  ASSUME NEW s, NEW W, NEW H, StackIs(s, W, H), s # << >>, NEW f, FrameOK(f, W),
         Awaited(f, s[Len(s)]), f.kind # "request"
  PROVE  /\ StackIs(Append(s, f), W, H)
         /\ Len(Append(s, f)) = Len(s) + 1 /\ DOMAIN Append(s, f) = 1 .. Len(s) + 1
         /\ Append(s, f)[Len(s) + 1] = f
         /\ \A i \in DOMAIN s : Append(s, f)[i] = s[i]
<1> DEFINE a == Append(s, f)
<1>1. PICK S : s \in Seq(S)
  BY DEF StackIs
<1>2. PICK n \in Nat \ {0} : Len(s) = n /\ DOMAIN s = 1 .. n
  BY TopFacts
<1>3. s \in Seq(S \union {f})
  BY <1>1, SeqMonotonic
<1>4. /\ a \in Seq(S \union {f}) /\ Len(a) = n + 1
      /\ \A i \in 1 .. n : a[i] = s[i]
      /\ a[n + 1] = f
  BY <1>2, <1>3, AppendProperties
<1>5. DOMAIN a = 1 .. n + 1
  BY <1>4, LenProperties
<1> HIDE DEF a
<1>6. ASSUME NEW i \in DOMAIN a
      PROVE  /\ FrameOK(a[i], W)
             /\ i > 1 => Awaited(a[i], a[i - 1])
             /\ a[i].kind = "request" => i = 2 /\ Hash(a[i].of) \notin H
  <2>1. CASE i = n + 1
    <3>1. a[i] = f /\ i - 1 = n /\ n \in 1 .. n
      BY <1>4, <2>1
    <3>2. a[i - 1] = s[Len(s)]
      BY <1>2, <1>4, <3>1
    <3>3. QED
      BY <3>1, <3>2
  <2>2. CASE i # n + 1
    <3>1. i \in 1 .. n /\ (i > 1 => i - 1 \in 1 .. n)
      BY <1>5, <2>2
    <3>2. i \in DOMAIN s /\ a[i] = s[i] /\ (i > 1 => a[i - 1] = s[i - 1])
      BY <1>2, <1>4, <3>1
    <3>3. /\ FrameOK(s[i], W)
          /\ i > 1 => Awaited(s[i], s[i - 1])
          /\ s[i].kind = "request" => i = 2 /\ Hash(s[i].of) \notin H
      BY <3>2 DEF StackIs
    <3>4. QED
      BY <3>2, <3>3
  <2>3. QED
    BY <2>1, <2>2
<1>7. StackIs(a, W, H)
  BY <1>4, <1>6 DEF StackIs
<1>8. QED
  BY <1>2, <1>4, <1>5, <1>7 DEF a

----------------------------------------------------------------------------
(* The steps of loadDynamicTypes.                                          *)

LEMMA DerivingTypes ==
  ASSUME IInv, at # "schemas", at' \in {"methods", "done", "crashed"},
         UNCHANGED <<spec, loads>>, DOMAIN types \subseteq DOMAIN types',
         unmade' \subseteq Methods, DOMAIN writers' \subseteq Schemas, Len(stack') <= MaxDepth,
         \A i \in DOMAIN stack' :
           IF i = 1 THEN stack'[i].kind = "method" /\ stack'[i].of \in unmade'
           ELSE stack'[i].kind \in {"request", "write"}
  PROVE  SpecOK' /\ TypeOK' /\ PhaseOK' /\ PropsOK'
<1>1. UNCHANGED <<schemas, params, unloaded, loading, left, props, enumTypes>>
  BY DEF spec, loads
<1>2. SpecOK' /\ PhaseOK' /\ PropsOK'
  BY <1>1 DEF IInv, SpecOK, PhaseOK, PropsOK
<1>3. TypeOK'
  BY <1>1 DEF IInv, TypeOK
<1>4. QED
  BY <1>2, <1>3

LEMMA SamePhase == ASSUME UNCHANGED <<spec, loads>> PROVE UNCHANGED <<schemas, params, props, enumTypes>>
BY DEF spec, loads

LEMMA DerivingOK ==
  ASSUME IInv, at # "schemas", at' \in {"methods", "done", "crashed"},
         UNCHANGED <<spec, loads>>, DOMAIN types \subseteq DOMAIN types',
         unmade' \subseteq Methods, DOMAIN writers' \subseteq Schemas, Len(stack') <= MaxDepth,
         \A i \in DOMAIN stack' :
           IF i = 1 THEN stack'[i].kind = "method" /\ stack'[i].of \in unmade'
           ELSE stack'[i].kind \in {"request", "write"},
         StackIs(stack', DOMAIN writers', DOMAIN requests'),
         \A n \in DOMAIN writers' : WriterIs(n, writers'[n], DOMAIN writers'),
         MethodsOK', NamesDenote'
  PROVE  IInv'
<1>1. SpecOK' /\ TypeOK' /\ PhaseOK' /\ PropsOK'
  BY DerivingTypes
<1>2. StackOK' /\ WritersOK'
  BY SamePhase, StackStays, WritersStay
<1>3. QED
  BY <1>1, <1>2 DEF IInv

\* A step that registers nothing.
LEMMA SameTables ==
  ASSUME IInv, UNCHANGED <<spec, loads, types, writers, requests>>
  PROVE  /\ \A n \in DOMAIN writers' : WriterIs(n, writers'[n], DOMAIN writers')
         /\ NamesDenote' /\ (unmade' = unmade => MethodsOK')
         /\ DOMAIN types \subseteq DOMAIN types' /\ DOMAIN writers' \subseteq Schemas
<1>1. UNCHANGED <<schemas, params, props, enumTypes>>
  BY SamePhase
<1>2. \A n \in DOMAIN writers' : WriterIs(n, writers'[n], DOMAIN writers')
  BY DEF IInv, WritersOK
<1>3. NamesDenote'
  <2>1. DerivedNames' = DerivedNames
    BY DEF DerivedNames
  <2>2. QED
    BY <1>1, <2>1, NamesStay DEF IInv
<1>4. unmade' = unmade => MethodsOK'
  BY <1>1, MethodsStay DEF IInv
<1>5. QED
  BY <1>2, <1>3, <1>4 DEF IInv, TypeOK

LEMMA MakeTypesOK == ASSUME IInv, MakeTypes PROVE IInv'
<1>1. PICK m \in unmade :
        LET make == Frame("method", m, None, ParamTypes(m))
        IN  stack' = IF eligibleForRequestType(m) /\ Hash(m) \notin DOMAIN requests
                     THEN <<make, Frame("request", m, None, ParamTypes(m))>>
                     ELSE <<make>>
  BY DEF MakeTypes
<1>2. at = "methods" /\ UNCHANGED <<spec, at, loads, types, unmade, writers, requests>>
  BY DEF MakeTypes
<1> DEFINE f == Frame("method", m, None, ParamTypes(m))
           r == Frame("request", m, None, ParamTypes(m))
           W == DOMAIN writers
           H == DOMAIN requests
<1>4. m \in Methods /\ unmade' \subseteq Methods
  BY <1>2 DEF IInv, TypeOK
<1>5. f.kind = "method" /\ r.kind = "request" /\ f.of = m /\ r.of = m
  BY DEF Frame
<1>6. FrameOK(f, W) /\ FrameOK(r, W)
  <2>1. /\ f.todo = ParamTypes(m) /\ DOMAIN f.props = {} /\ r.todo = ParamTypes(m) /\ DOMAIN r.props = {}
        /\ Source(f) = ParamTypes(m) /\ Source(r) = ParamTypes(m)
    BY DEF Frame, Source, Nothing
  <2> HIDE DEF f, r
  <2>2. QED
    BY <1>4, <1>5, <2>1 DEF FrameOK
<1>7. MaxDepth \in Nat /\ 2 <= MaxDepth
  BY SchemasAssumption, MaxDepthAssumption, FS_CardinalityType
<1>8. CASE stack' = <<f>>
  <2> HIDE DEF f, r
  <2>1. <<f>> \in Seq({f}) /\ DOMAIN stack' = {1} /\ stack'[1] = f /\ Len(stack') = 1
    BY <1>8
  <2>2. StackIs(stack', W, H)
    <3>1. \E S : stack' \in Seq(S)
      BY <1>8, <2>1
    <3>2. \A i \in DOMAIN stack' : i = 1 /\ stack'[i] = f /\ ~(i > 1)
      BY <2>1
    <3>3. QED
      BY <3>1, <3>2, <1>5, <1>6 DEF StackIs
  <2>3. Len(stack') <= MaxDepth
    BY <1>7, <2>1
  <2>4. \A i \in DOMAIN stack' :
          IF i = 1 THEN stack'[i].kind = "method" /\ stack'[i].of \in unmade'
          ELSE stack'[i].kind \in {"request", "write"}
    BY <1>2, <1>5, <2>1
  <2>5. QED
    BY <1>2, <1>4, <2>2, <2>3, <2>4, SameTables, DerivingOK
<1>9. CASE stack' = <<f, r>> /\ Hash(m) \notin H
  <2> HIDE DEF f, r
  <2>1. <<f, r>> \in Seq({f, r}) /\ DOMAIN stack' = {1, 2} /\ stack'[1] = f /\ stack'[2] = r
        /\ Len(stack') = 2
    BY <1>9
  <2>2. Awaited(r, f)
    BY <1>5 DEF Awaited
  <2>3. StackIs(stack', W, H)
    <3>1. \E S : stack' \in Seq(S)
      BY <1>9, <2>1
    <3>2. ASSUME NEW i \in DOMAIN stack'
          PROVE  /\ FrameOK(stack'[i], W)
                 /\ i > 1 => Awaited(stack'[i], stack'[i - 1])
                 /\ stack'[i].kind = "request" => i = 2 /\ Hash(stack'[i].of) \notin H
      <4>1. CASE i = 1
        BY <4>1, <2>1, <1>5, <1>6
      <4>2. CASE i = 2
        BY <4>2, <2>1, <2>2, <1>5, <1>6, <1>9
      <4>3. QED
        BY <2>1, <4>1, <4>2
    <3>3. QED
      BY <3>1, <3>2 DEF StackIs
  <2>4. Len(stack') <= MaxDepth
    BY <1>7, <2>1
  <2>5. \A i \in DOMAIN stack' :
          IF i = 1 THEN stack'[i].kind = "method" /\ stack'[i].of \in unmade'
          ELSE stack'[i].kind \in {"request", "write"}
    BY <1>2, <1>5, <2>1
  <2>6. QED
    BY <1>2, <1>4, <2>3, <2>4, <2>5, SameTables, DerivingOK
<1>10. QED
  BY <1>1, <1>8, <1>9

LEMMA SimpleItemOK == ASSUME IInv, SimpleItem PROVE IInv'
<1>1. PICK x \in DOMAIN top.todo :
        /\ NeedsWriter(top.todo[x]) => top.todo[x].name \in DOMAIN writers
        /\ stack' = Made(stack, x, IF NeedsWriter(top.todo[x]) THEN Writer(top.todo[x].name)
                                   ELSE top.todo[x])
  BY DEF SimpleItem
<1>2. at = "methods" /\ stack # << >>
      /\ UNCHANGED <<spec, at, loads, types, unmade, writers, requests>>
  BY DEF SimpleItem
<1> DEFINE W == DOMAIN writers
           t == top.todo[x]
           u == IF NeedsWriter(t) THEN Writer(t.name) ELSE t
<1>3. StackIs(stack, W, DOMAIN requests) /\ FrameOK(top, W)
  BY <1>2, TopFacts DEF IInv, StackOK, top
<1>4. t = Source(top)[x] /\ x \in DOMAIN Source(top)
  BY <1>3 DEF FrameOK
<1>5. t.kind # "write" /\ (t.kind = "ref" => t.name \in Schemas)
  BY <1>2, <1>3, <1>4, SourceTyped DEF IInv
<1>6. u = Derived(t)
  BY <1>2, <1>5, NeedsWriterIsDerived DEF IInv
<1>7. u.kind = "write" => u.name \in W
  BY <1>1, <1>5 DEF Writer, IType
<1>8. BuiltOK(u, Source(top)[x], W)
  BY <1>4, <1>6, <1>7 DEF BuiltOK
<1>9. StackIs(stack', W, DOMAIN requests)
  BY <1>1, <1>2, <1>3, <1>8, MadeStack DEF top
<1>10. /\ DOMAIN stack' = DOMAIN stack /\ Len(stack') = Len(stack)
       /\ \A i \in DOMAIN stack : stack'[i].kind = stack[i].kind /\ stack'[i].of = stack[i].of
  BY <1>1, <1>2, <1>3, MadeKinds
<1>11. Len(stack') <= MaxDepth /\ unmade' \subseteq Methods
       /\ \A i \in DOMAIN stack' :
            IF i = 1 THEN stack'[i].kind = "method" /\ stack'[i].of \in unmade'
            ELSE stack'[i].kind \in {"request", "write"}
  BY <1>2, <1>10 DEF IInv, TypeOK
<1>12. QED
  BY <1>2, <1>9, <1>11, SameTables, DerivingOK

LEMMA NewWriterOK == ASSUME IInv, NewWriter PROVE IInv'
<1> DEFINE W == DOMAIN writers
           F(n, x) == Frame("write", n, x, [p \in Writeable(n) |-> props[n][p]])
<1>1. PICK x \in DOMAIN top.todo :
        /\ NeedsWriter(top.todo[x])
        /\ stack' = Append(stack, F(top.todo[x].name, x))
  BY DEF NewWriter
<1>2. at = "methods" /\ stack # << >> /\ Len(stack) < MaxDepth
      /\ UNCHANGED <<spec, at, loads, types, unmade, writers, requests>>
  BY DEF NewWriter
<1>3. StackIs(stack, W, DOMAIN requests) /\ FrameOK(top, W)
  BY <1>2, TopFacts DEF IInv, StackOK, top
<1> DEFINE n == top.todo[x].name
           f == F(n, x)
<1>4. top.todo[x].kind = "ref" /\ n \in Schemas
  <2>1. top.todo[x] = Source(top)[x] /\ x \in DOMAIN Source(top)
    BY <1>3 DEF FrameOK
  <2>2. QED
    BY <1>1, <1>2, <1>3, <2>1, SourceTyped DEF IInv, NeedsWriter
<1>5. Writeable(n) = WriteableProps(n) /\ PartlyReadOnly(n)
  BY <1>1, <1>2, <1>4, LoadedProps DEF IInv, NeedsWriter, PartlyReadOnly
<1>6. f.kind = "write" /\ f.of = n /\ f.item = x /\ DOMAIN f.props = {}
      /\ f.todo = [p \in WriteableProps(n) |-> props[n][p]]
  BY <1>5 DEF Frame, Nothing
<1> HIDE DEF n, f, F
<1>7. FrameOK(f, W)
  <2>1. Source(f) = f.todo
    BY <1>6 DEF Source
  <2>2. QED
    BY <1>4, <1>5, <1>6, <2>1 DEF FrameOK
<1>8. Awaited(f, stack[Len(stack)])
  BY <1>4, <1>6 DEF Awaited, top, n
<1>9. /\ StackIs(stack', W, DOMAIN requests)
      /\ Len(stack') = Len(stack) + 1 /\ DOMAIN stack' = 1 .. Len(stack) + 1
      /\ stack'[Len(stack) + 1] = f
      /\ \A i \in DOMAIN stack : stack'[i] = stack[i]
  BY <1>1, <1>2, <1>3, <1>6, <1>7, <1>8, PushFacts DEF n, f
<1>10. PICK k \in Nat \ {0} : Len(stack) = k /\ DOMAIN stack = 1 .. k
  BY <1>2, <1>3, TopFacts
<1>11. Len(stack') <= MaxDepth
  BY <1>2, <1>9, <1>10, MaxDepthAssumption
<1>12. ASSUME NEW i \in DOMAIN stack'
       PROVE  IF i = 1 THEN stack'[i].kind = "method" /\ stack'[i].of \in unmade'
              ELSE stack'[i].kind \in {"request", "write"}
  <2>1. CASE i = k + 1
    BY <2>1, <1>6, <1>9, <1>10
  <2>2. CASE i # k + 1
    <3>1. i \in DOMAIN stack /\ stack'[i] = stack[i]
      BY <2>2, <1>9, <1>10
    <3>2. QED
      BY <3>1, <1>2 DEF IInv, TypeOK
  <2>3. QED
    BY <2>1, <2>2
<1>13. unmade' \subseteq Methods
  BY <1>2 DEF IInv, TypeOK
<1>14. QED
  BY <1>2, <1>9, <1>11, <1>12, <1>13, SameTables, DerivingOK

\* Nothing but the phase changes.
LEMMA PhaseStep ==
  ASSUME IInv, at # "schemas", at' \in {"methods", "done", "crashed"},
         UNCHANGED <<spec, loads, types, unmade, stack, writers, requests>>
  PROVE  IInv'
<1>1. StackIs(stack', DOMAIN writers', DOMAIN requests')
  BY DEF IInv, StackOK
<1>2. /\ unmade' \subseteq Methods /\ Len(stack') <= MaxDepth
      /\ \A i \in DOMAIN stack' :
           IF i = 1 THEN stack'[i].kind = "method" /\ stack'[i].of \in unmade'
           ELSE stack'[i].kind \in {"request", "write"}
  BY DEF IInv, TypeOK
<1>3. QED
  BY <1>1, <1>2, SameTables, DerivingOK

\* The type on top is complete.
LEMMA TopMade ==
  ASSUME IInv, at = "methods", stack # << >>, top.todo = Nothing
  PROVE  /\ StackIs(stack, DOMAIN writers, DOMAIN requests)
         /\ DOMAIN top.props = DOMAIN Source(top)
         /\ \A x \in DOMAIN Source(top) : BuiltOK(top.props[x], Source(top)[x], DOMAIN writers)
         /\ IF top.kind = "write" THEN top.of \in Schemas /\ PartlyReadOnly(top.of)
            ELSE top.of \in Methods
         /\ \E n \in Nat \ {0} :
              /\ Len(stack) = n /\ DOMAIN stack = 1 .. n /\ top = stack[n]
              /\ IF n = 1 THEN top.kind = "method" /\ top.of \in unmade
                 ELSE top.kind \in {"request", "write"}
              /\ n > 1 => Awaited(top, stack[n - 1])
              /\ top.kind = "request" => n = 2 /\ Hash(top.of) \notin DOMAIN requests
         /\ StackIs(Below, DOMAIN writers, DOMAIN requests)
         /\ Len(Below) = Len(stack) - 1 /\ DOMAIN Below = 1 .. Len(stack) - 1
         /\ \A i \in DOMAIN Below : i \in DOMAIN stack /\ Below[i] = stack[i]
<1> DEFINE W == DOMAIN writers
<1>1. StackIs(stack, W, DOMAIN requests)
  BY DEF IInv, StackOK
<1>2. FrameOK(top, W) /\ DOMAIN top.todo = {}
  BY <1>1, TopFacts DEF top, Nothing
<1>3. /\ DOMAIN top.props = DOMAIN Source(top)
      /\ \A x \in DOMAIN Source(top) : BuiltOK(top.props[x], Source(top)[x], W)
      /\ IF top.kind = "write" THEN top.of \in Schemas /\ PartlyReadOnly(top.of)
         ELSE top.of \in Methods
  BY <1>2 DEF FrameOK
<1>4. PICK n \in Nat \ {0} : Len(stack) = n /\ DOMAIN stack = 1 .. n
  BY <1>1, TopFacts
<1>5. n \in DOMAIN stack /\ top = stack[n]
  BY <1>4 DEF top
<1>6. IF n = 1 THEN top.kind = "method" /\ top.of \in unmade
      ELSE top.kind \in {"request", "write"}
  BY <1>5 DEF IInv, TypeOK
<1>7. /\ n > 1 => Awaited(top, stack[n - 1])
      /\ top.kind = "request" => n = 2 /\ Hash(top.of) \notin DOMAIN requests
  BY <1>1, <1>5 DEF StackIs
<1>8. /\ StackIs(Below, DOMAIN writers, DOMAIN requests)
      /\ Len(Below) = Len(stack) - 1 /\ DOMAIN Below = 1 .. Len(stack) - 1
      /\ \A i \in DOMAIN Below : i \in DOMAIN stack /\ Below[i] = stack[i]
  BY <1>1, PopFacts DEF Below
<1>9. QED
  BY <1>1, <1>3, <1>4, <1>5, <1>6, <1>7, <1>8

LEMMA WriterMadeOK == ASSUME IInv, WriterMade PROVE IInv'
<1> DEFINE n == top.of  W == DOMAIN writers  V == DOMAIN writers'  H == DOMAIN requests
<1>1. /\ at = "methods" /\ stack # << >> /\ top.todo = Nothing /\ top.kind = "write"
      /\ writers' = Extend(writers, n, top.props)
      /\ types' = Extend(types, WriteName(n), Write(n))
      /\ stack' = Made(Below, top.item, Writer(n))
      /\ UNCHANGED <<spec, at, loads, unmade, requests>>
  BY DEF WriterMade
<1>2. UNCHANGED <<schemas, params, props, enumTypes>>
  BY <1>1, SamePhase
<1>3. /\ DOMAIN top.props = DOMAIN Source(top)
      /\ \A x \in DOMAIN Source(top) : BuiltOK(top.props[x], Source(top)[x], W)
      /\ n \in Schemas /\ PartlyReadOnly(n)
      /\ StackIs(Below, W, H)
      /\ Len(Below) = Len(stack) - 1 /\ DOMAIN Below = 1 .. Len(stack) - 1
      /\ \A i \in DOMAIN Below : i \in DOMAIN stack /\ Below[i] = stack[i]
  BY <1>1, TopMade
<1>4. PICK k \in Nat \ {0} :
        /\ Len(stack) = k /\ DOMAIN stack = 1 .. k
        /\ k # 1 /\ (k > 1 => Awaited(top, stack[k - 1]))
  BY <1>1, TopMade
<1>5. k - 1 \in Nat \ {0} /\ k > 1
  BY <1>4
<1>6. Below # << >> /\ Len(Below) = k - 1 /\ k - 1 \in DOMAIN Below /\ Below[k - 1] = stack[k - 1]
  BY <1>3, <1>4, <1>5
<1>7. V = W \union {n} /\ writers'[n] = top.props /\ \A m \in W : m # n => writers'[m] = writers[m]
  BY <1>1 DEF Extend
<1>8. StackIs(Below, V, H)
  BY <1>3, <1>7, StackGrows
<1>9. StackIs(stack', V, DOMAIN requests')
  <2> DEFINE below == Below[Len(Below)]
  <2>1. top.item \in DOMAIN below.todo /\ below.todo[top.item].kind = "ref"
        /\ below.todo[top.item].name = n
    BY <1>1, <1>4, <1>5, <1>6 DEF Awaited
  <2>2. FrameOK(below, V)
    BY <1>6, <1>8, TopFacts
  <2>3. Source(below)[top.item] = below.todo[top.item]
    BY <2>1, <2>2 DEF FrameOK
  <2>4. BuiltOK(Writer(n), Source(below)[top.item], V)
    BY <1>3, <1>7, <2>1, <2>3 DEF BuiltOK, Derived, Writer, IType
  <2>5. StackIs(Made(Below, top.item, Writer(n)), V, H)
    BY <1>6, <1>8, <2>1, <2>4, MadeStack
  <2>6. QED
    BY <1>1, <2>5
<1>10. /\ DOMAIN stack' = DOMAIN Below /\ Len(stack') = Len(Below)
       /\ \A i \in DOMAIN Below : stack'[i].kind = Below[i].kind /\ stack'[i].of = Below[i].of
  BY <1>1, <1>6, <1>8, MadeKinds
<1>11. \A i \in DOMAIN stack' :
         IF i = 1 THEN stack'[i].kind = "method" /\ stack'[i].of \in unmade'
         ELSE stack'[i].kind \in {"request", "write"}
  BY <1>1, <1>3, <1>10 DEF IInv, TypeOK
<1>12. Len(stack') <= MaxDepth
  <2>1. k <= MaxDepth
    BY <1>4 DEF IInv, TypeOK
  <2>2. QED
    BY <2>1, <1>4, <1>6, <1>10, MaxDepthAssumption
<1>13. V \subseteq Schemas /\ unmade' \subseteq Methods
  BY <1>1, <1>3, <1>7 DEF IInv, TypeOK
<1>14. ASSUME NEW m \in V PROVE WriterIs(m, writers'[m], V)
  <2>1. CASE m = n
    <3>1. Source(top) = [p \in WriteableProps(n) |-> props[n][p]]
      BY <1>1 DEF Source
    <3>2. DOMAIN top.props = WriteableProps(n)
          /\ \A p \in WriteableProps(n) : BuiltOK(top.props[p], props[n][p], W)
      BY <1>3, <3>1
    <3>3. \A p \in WriteableProps(n) : BuiltOK(top.props[p], props[n][p], V)
      BY <3>2, <1>7 DEF BuiltOK
    <3>4. QED
      BY <1>3, <1>7, <2>1, <3>2, <3>3 DEF WriterIs
  <2>2. CASE m # n
    <3>1. WriterIs(m, writers[m], W) /\ writers'[m] = writers[m]
      BY <2>2, <1>7 DEF IInv, WritersOK
    <3>2. QED
      BY <3>1, <1>7 DEF WriterIs, BuiltOK
  <2>3. QED
    BY <2>1, <2>2
<1>15. MethodsOK'
  BY <1>1, <1>2, <1>7, MethodsStay DEF IInv
<1>16. NamesDenote'
  <2>1. DerivedNames \union {WriteName(n)} \subseteq DerivedNames'
    BY <1>1, <1>7 DEF DerivedNames
  <2>2. QED
    BY <1>1, <1>2, <2>1, NamesDerived DEF IInv
<1>17. DOMAIN types \subseteq DOMAIN types'
  BY <1>1 DEF Extend
<1> HIDE DEF n, W, V, H
<1>18. QED
  BY <1>1, <1>9, <1>11, <1>12, <1>13, <1>14, <1>15, <1>16, <1>17, DerivingOK DEF V

LEMMA RequestMadeOK == ASSUME IInv, RequestMade PROVE IInv'
<1> DEFINE m == top.of  W == DOMAIN writers  H == DOMAIN requests
<1>1. /\ at = "methods" /\ stack # << >> /\ top.todo = Nothing /\ top.kind = "request"
      /\ requests' = Extend(requests, Hash(m), [of |-> m, props |-> top.props])
      /\ types' = Extend(types, RequestName(m), Request(m))
      /\ stack' = Below
      /\ UNCHANGED <<spec, at, loads, unmade, writers>>
  BY DEF RequestMade
<1>2. UNCHANGED <<schemas, params, props, enumTypes>>
  BY <1>1, SamePhase
<1>3. /\ StackIs(Below, W, H)
      /\ Len(Below) = Len(stack) - 1 /\ DOMAIN Below = 1 .. Len(stack) - 1
      /\ \A i \in DOMAIN Below : i \in DOMAIN stack /\ Below[i] = stack[i]
  BY <1>1, TopMade
<1>4. Len(stack) = 2 /\ Hash(m) \notin H
  BY <1>1, TopMade
<1>5. DOMAIN stack' = {1} /\ Len(stack') = 1
  BY <1>1, <1>3, <1>4
<1>6. DOMAIN requests' = H \union {Hash(m)} /\ requests'[Hash(m)].of = m
      /\ \A h \in H : requests'[h] = requests[h]
  BY <1>1, <1>4 DEF Extend
<1>7. StackIs(stack', DOMAIN writers', DOMAIN requests')
  <2>1. \A i \in DOMAIN stack' : i # 2
    BY <1>5
  <2>2. QED
    BY <1>1, <1>3, <2>1 DEF StackIs
<1>8. \A i \in DOMAIN stack' :
        IF i = 1 THEN stack'[i].kind = "method" /\ stack'[i].of \in unmade'
        ELSE stack'[i].kind \in {"request", "write"}
  BY <1>1, <1>3 DEF IInv, TypeOK
<1>9. Len(stack') <= MaxDepth
  <2>1. 2 <= MaxDepth
    BY <1>4 DEF IInv, TypeOK
  <2>2. QED
    BY <1>5, <2>1, MaxDepthAssumption
<1>10. MethodsOK' /\ unmade' \subseteq Methods /\ DOMAIN writers' \subseteq Schemas
       /\ \A n \in DOMAIN writers' : WriterIs(n, writers'[n], DOMAIN writers')
  BY <1>1, <1>2, MethodsStay DEF IInv, TypeOK, WritersOK
<1>11. NamesDenote'
  <2>1. DerivedNames \union {RequestName(m)} \subseteq DerivedNames'
    BY <1>1, <1>6 DEF DerivedNames
  <2>2. QED
    BY <1>1, <1>2, <2>1, NamesDerived DEF IInv
<1>12. DOMAIN types \subseteq DOMAIN types'
  BY <1>1 DEF Extend
<1>13. QED
  BY <1>1, <1>7, <1>8, <1>9, <1>10, <1>11, <1>12, DerivingOK

LEMMA MethodMadeOK == ASSUME IInv, MethodMade PROVE IInv'
<1> DEFINE m == top.of  W == DOMAIN writers
<1>1. /\ at = "methods" /\ stack # << >> /\ top.todo = Nothing /\ top.kind = "method"
      /\ unmade' = unmade \ {m} /\ stack' = Below
      /\ UNCHANGED <<spec, at, loads, types, writers, requests>>
  BY DEF MethodMade
<1>2. UNCHANGED <<schemas, params, props, enumTypes>>
  BY <1>1, SamePhase
<1>3. /\ StackIs(Below, W, DOMAIN requests)
      /\ DOMAIN top.props = DOMAIN Source(top)
      /\ \A x \in DOMAIN Source(top) : BuiltOK(top.props[x], Source(top)[x], W)
      /\ m \in Methods
      /\ Len(Below) = Len(stack) - 1 /\ DOMAIN Below = 1 .. Len(stack) - 1
  BY <1>1, TopMade
<1>4. Len(stack) = 1
  BY <1>1, TopMade
<1>5. DOMAIN stack' = {} /\ Len(stack') = 0
  BY <1>1, <1>3, <1>4
<1>6. StackIs(stack', DOMAIN writers', DOMAIN requests')
  BY <1>1, <1>3
<1>7. Len(stack') <= MaxDepth /\ unmade' \subseteq Methods
  BY <1>1, <1>5, MaxDepthAssumption DEF IInv, TypeOK
<1>8. ASSUME NEW i \in DOMAIN params[m],
             params[m][i].type.kind = "ref", PartlyReadOnly(params[m][i].type.name)
      PROVE  params[m][i].type.name \in W
  <2> DEFINE x == params[m][i].name  t == params[m][i].type
  <2>1. Source(top) = ParamTypes(m)
    BY <1>1 DEF Source
  <2>2. x \in DOMAIN ParamTypes(m) /\ ParamTypes(m)[x] = t
    BY <1>3, ParamTyped DEF IInv
  <2>3. BuiltOK(top.props[x], t, W)
    BY <1>3, <2>1, <2>2
  <2>4. Derived(t) = Writer(t.name)
    BY <1>8 DEF Derived
  <2>5. QED
    BY <2>3, <2>4 DEF BuiltOK, Writer, IType
<1>9. MethodsOK'
  <2>1. \A n : PartlyReadOnly(n)' <=> PartlyReadOnly(n)
    BY <1>2, SchemasStay
  <2>2. QED
    BY <1>1, <1>2, <1>8, <2>1 DEF IInv, MethodsOK
<1>10. QED
  BY <1>1, <1>5, <1>6, <1>7, <1>9, SameTables, DerivingOK

----------------------------------------------------------------------------
(* The theorems.                                                           *)

LEMMA NextOK == ASSUME IInv, [Next]_vars PROVE IInv'
<1>1. CASE NextSchema BY <1>1, NextSchemaOK
<1>2. CASE PlainProperty BY <1>2, PlainPropertyOK
<1>3. CASE KnownEnum BY <1>3, KnownEnumOK
<1>4. CASE NewEnum BY <1>4, NewEnumOK
<1>5. CASE SchemasLoaded BY <1>5, SchemasLoadedOK
<1>6. CASE MakeTypes BY <1>6, MakeTypesOK
<1>7. CASE SimpleItem BY <1>7, SimpleItemOK
<1>8. CASE NewWriter BY <1>8, NewWriterOK
<1>9. CASE Overflow BY <1>9, PhaseStep DEF Overflow
<1>10. CASE WriterMade BY <1>10, WriterMadeOK
<1>11. CASE RequestMade BY <1>11, RequestMadeOK
<1>12. CASE MethodMade BY <1>12, MethodMadeOK
<1>13. CASE Loaded BY <1>13, PhaseStep DEF Loaded
<1>14. CASE UNCHANGED vars
  <2>1. UNCHANGED <<schemas, params, at, unloaded, loading, left, props, types, enumTypes,
                    unmade, stack, writers, requests>>
    BY <1>14 DEF vars, spec, loads
  <2>2. StackOK' /\ WritersOK'
    BY <2>1, StackStays, WritersStay DEF IInv, StackOK, WritersOK
  <2>3. DerivedNames' = DerivedNames
    BY <2>1 DEF DerivedNames
  <2>4. MethodsOK' /\ NamesDenote'
    BY <2>1, <2>3, MethodsStay, NamesStay DEF IInv
  <2>5. SpecOK' /\ TypeOK' /\ PhaseOK' /\ PropsOK'
    <3>1. SpecOK' /\ PhaseOK'
      BY <2>1 DEF IInv, SpecOK, PhaseOK
    <3>2. PropsOK'
      BY <2>1 DEF IInv, PropsOK
    <3>3. TypeOK'
      BY <2>1 DEF IInv, TypeOK
    <3>4. QED
      BY <3>1, <3>2, <3>3
  <2>6. QED
    BY <2>2, <2>4, <2>5 DEF IInv
<1>15. QED
  BY <1>1, <1>2, <1>3, <1>4, <1>5, <1>6, <1>7, <1>8, <1>9, <1>10, <1>11, <1>12, <1>13, <1>14 DEF Next

\* The strengthened invariant: what is under construction agrees with the schemas.
THEOREM Inductive == Spec => []IInv
<1>1. Init => IInv
  BY InitOK
<1>2. IInv /\ [Next]_vars => IInv'
  BY NextOK
<1>3. QED
  BY <1>1, <1>2, PTL DEF Spec

\* The state of the loader stays well-formed: no schema is loaded twice, none is
\* forgotten, and the recursion stays within its bound.
THEOREM TypeCorrect == Spec => []TypeOK
<1>1. IInv => TypeOK
  BY DEF IInv
<1>2. QED
  BY <1>1, Inductive, PTL

\* For any schemas, titles and order: no enum takes the name of a schema or of
\* another enum (findName, sdkModels.ts:1691).
THEOREM NamesDenoteAlways == Spec => []NamesDenote
<1>1. IInv => NamesDenote
  BY DEF IInv
<1>2. QED
  BY <1>1, Inductive, PTL

\* For any specification and order of asking: a registered writeable type has
\* exactly the writeable properties of its schema, with the writeable types of
\* their own types, which are registered too (WriteType, sdkModels.ts:1813).
THEOREM WriteTypesAreRightAlways == Spec => []WriteTypesAreRight
<1>1. ASSUME IInv PROVE WriteTypesAreRight
  BY <1>1 DEF IInv, WritersOK, WriterIs, BuiltOK, MethodsOK, WriteTypesAreRight
<1>2. QED
  BY <1>1, Inductive, PTL

----------------------------------------------------------------------------
(* The names in the types of enums.                                        *)

\* An enum that is registered is that of a property that is loaded.
EnumsSeen ==
  \A v \in DOMAIN enumTypes : \E n \in Schemas : \E p \in DOMAIN props[n] :
    schemas[n][p].kind \in {"enum", "enums"} /\ schemas[n][p].of = v

\* The properties whose name has to denote the enum.
HasEnum(n, p) ==
  LET s == schemas[n][p] IN
    \/ s.kind = "enum"
    \/ /\ s.kind = "enums" /\ Uses(s.of) = {n}
       /\ \A q \in DOMAIN schemas[n] : schemas[n][q].of = s.of => q = p

EnumsOK == EnumsSeen /\ EnumsResolve

\* What a name denotes it denotes from then on, or it is the name of a derived type.
LEMMA DenotesStays ==
  ASSUME IInv, Next PROVE \A name, type : Denotes(name, type) => Denotes(name, type)'
<1>1. ASSUME UNCHANGED types, DerivedNames \subseteq DerivedNames'
      PROVE  \A name, type : Denotes(name, type) => Denotes(name, type)'
  BY <1>1 DEF Denotes
<1>2. ASSUME NEW x, NEW t, types' = Extend(types, x, t), DerivedNames \subseteq DerivedNames',
             x \notin DOMAIN types \/ x \in DerivedNames'
      PROVE  \A name, type : Denotes(name, type) => Denotes(name, type)'
  BY <1>2 DEF Denotes, Extend
<1>3. CASE NewEnum
  <2>1. \E x, t : types' = Extend(types, x, t) /\ x \notin DOMAIN types
    BY <1>3 DEF NewEnum, NewName, Register
  <2>2. DerivedNames' = DerivedNames
    BY <1>3 DEF NewEnum, SetProperty, DerivedNames
  <2>3. QED
    BY <1>2, <2>1, <2>2
<1>4. CASE WriterMade
  <2>1. /\ types' = Extend(types, WriteName(top.of), Write(top.of))
        /\ DOMAIN writers' = DOMAIN writers \union {top.of} /\ UNCHANGED requests
    BY <1>4 DEF WriterMade, Extend
  <2>2. DerivedNames \union {WriteName(top.of)} \subseteq DerivedNames'
    BY <2>1 DEF DerivedNames
  <2>3. QED
    BY <1>2, <2>1, <2>2
<1>5. CASE RequestMade
  <2> DEFINE m == top.of
  <2>1. /\ at = "methods" /\ stack # << >> /\ top.todo = Nothing /\ top.kind = "request"
        /\ types' = Extend(types, RequestName(m), Request(m)) /\ UNCHANGED writers
        /\ requests' = Extend(requests, Hash(m), [of |-> m, props |-> top.props])
    BY <1>5 DEF RequestMade
  <2>2. Hash(m) \notin DOMAIN requests
    BY <2>1, TopMade
  <2>3. /\ DOMAIN requests' = DOMAIN requests \union {Hash(m)} /\ requests'[Hash(m)].of = m
        /\ \A h \in DOMAIN requests : requests'[h] = requests[h]
    BY <2>1, <2>2 DEF Extend
  <2>4. DerivedNames \union {RequestName(m)} \subseteq DerivedNames'
    BY <2>1, <2>3 DEF DerivedNames
  <2>5. QED
    BY <1>2, <2>1, <2>4
<1>6. CASE NextSchema \/ PlainProperty \/ KnownEnum \/ SchemasLoaded
  <2>1. UNCHANGED <<types, writers, requests>>
    BY <1>6 DEF NextSchema, PlainProperty, KnownEnum, SchemasLoaded, SetProperty
  <2>2. QED
    BY <1>1, <2>1 DEF DerivedNames
<1>7. CASE MakeTypes \/ SimpleItem \/ NewWriter \/ Overflow \/ MethodMade \/ Loaded
  <2>1. UNCHANGED <<types, writers, requests>>
    BY <1>7 DEF MakeTypes, SimpleItem, NewWriter, Overflow, MethodMade, Loaded
  <2>2. QED
    BY <1>1, <2>1 DEF DerivedNames
<1>8. QED
  BY <1>3, <1>4, <1>5, <1>6, <1>7 DEF Next

\* The properties and the enums are as they were.
LEMMA EnumsStay ==
  ASSUME IInv, Next, EnumsOK, UNCHANGED <<schemas, props, enumTypes>>
  PROVE  EnumsOK'
<1>1. EnumsSeen'
  BY DEF EnumsOK, EnumsSeen
<1>2. \A v : Uses(v)' = Uses(v)
  BY DEF Uses
<1>3. EnumsResolve'
  <2>1. \A n, p : HasEnum(n, p)' <=> HasEnum(n, p)
    BY <1>2 DEF HasEnum
  <2>2. \A n \in Schemas : \A p \in DOMAIN props[n] :
          HasEnum(n, p) => Denotes(props[n][p].name, Enum(schemas[n][p].of))
    BY DEF EnumsOK, EnumsResolve, HasEnum
  <2>3. \A n \in Schemas : \A p \in DOMAIN props'[n] :
          HasEnum(n, p)' => Denotes(props[n][p].name, Enum(schemas[n][p].of))'
    BY <2>1, <2>2, DenotesStays DEF Enum
  <2>4. QED
    BY <2>3 DEF EnumsResolve, HasEnum
<1>4. QED
  BY <1>1, <1>3 DEF EnumsOK

\* A property is set: its name denotes its enum if it has to.
LEMMA EnumSet ==
  ASSUME IInv, Next, at = "schemas", EnumsOK, NEW p \in left, NEW t, SetProperty(p, t),
         NEW v, v = schemas[loading][p].of, HasEnum(loading, p) => Denotes(t.name, Enum(v))',
         \/ enumTypes' = enumTypes
         \/ /\ schemas[loading][p].kind \in {"enum", "enums"}
            /\ DOMAIN enumTypes' = DOMAIN enumTypes \union {v}
  PROVE  EnumsOK'
<1>1. props' = [props EXCEPT ![loading] = Extend(@, p, t)] /\ schemas' = schemas
  BY DEF SetProperty, spec
<1>2. loading \in Schemas /\ DOMAIN props = Schemas /\ p \notin DOMAIN props[loading]
  BY DEF IInv, TypeOK, PropsOK
<1>3. /\ DOMAIN props'[loading] = DOMAIN props[loading] \union {p} /\ props'[loading][p] = t
      /\ \A q \in DOMAIN props[loading] : props'[loading][q] = props[loading][q]
      /\ \A n \in Schemas : n # loading => props'[n] = props[n]
  BY <1>1, <1>2 DEF Extend
<1>4. \A n \in Schemas : DOMAIN props[n] \subseteq DOMAIN props'[n]
  BY <1>3
<1>5. EnumsSeen'
  <2>1. ASSUME NEW w \in DOMAIN enumTypes'
        PROVE  \E n \in Schemas : \E q \in DOMAIN props'[n] :
                 schemas[n][q].kind \in {"enum", "enums"} /\ schemas[n][q].of = w
    <3>1. CASE w \in DOMAIN enumTypes
      BY <3>1, <1>4 DEF EnumsOK, EnumsSeen
    <3>2. CASE w \notin DOMAIN enumTypes
      BY <3>2, <1>2, <1>3
    <3>3. QED
      BY <3>1, <3>2
  <2>2. QED
    BY <1>1, <2>1 DEF EnumsSeen
<1>6. EnumsResolve'
  <2>1. \A w : Uses(w)' = Uses(w)
    BY <1>1 DEF Uses
  <2>2. \A n, q : HasEnum(n, q)' <=> HasEnum(n, q)
    BY <1>1, <2>1 DEF HasEnum
  <2>3. ASSUME NEW n \in Schemas, NEW q \in DOMAIN props'[n], HasEnum(n, q)
        PROVE  Denotes(props[n][q].name, Enum(schemas[n][q].of))'
    <3>1. CASE n = loading /\ q = p
      <4>1. props'[n][q] = t /\ schemas'[n][q].of = v /\ HasEnum(loading, p)
        BY <3>1, <2>3, <1>1, <1>3
      <4>2. QED
        BY <4>1 DEF Enum
    <3>2. CASE ~(n = loading /\ q = p)
      <4>1. q \in DOMAIN props[n] /\ props'[n][q] = props[n][q]
        BY <3>2, <1>3
      <4>2. Denotes(props[n][q].name, Enum(schemas[n][q].of))
        BY <4>1, <2>3 DEF EnumsOK, EnumsResolve, HasEnum
      <4>3. QED
        BY <1>1, <4>1, <4>2, DenotesStays DEF Enum
    <3>3. QED
      BY <3>1, <3>2
  <2>4. QED
    BY <2>2, <2>3 DEF EnumsResolve, HasEnum
<1>7. QED
  BY <1>5, <1>6 DEF EnumsOK

LEMMA NextEnumsOK == ASSUME IInv, EnumsOK, [Next]_vars PROVE EnumsOK'
<1>1. CASE PlainProperty
  <2>1. PICK p, t, v :
          /\ p \in left
          /\ schemas[loading][p].kind \in {"intrinsic", "ref", "array"}
          /\ SetProperty(p, t) /\ v = schemas[loading][p].of
    BY <1>1 DEF PlainProperty
  <2>2. ~HasEnum(loading, p) /\ at = "schemas" /\ UNCHANGED enumTypes
    BY <1>1, <2>1 DEF HasEnum, PlainProperty
  <2>3. QED
    BY <1>1, <2>1, <2>2, EnumSet DEF Next
<1>2. CASE KnownEnum
  <2>1. PICK p, t, v :
          /\ p \in left
          /\ schemas[loading][p].kind \in {"enum", "enums"}
          /\ v = schemas[loading][p].of /\ v \in DOMAIN enumTypes
          /\ SetProperty(p, t)
          /\ schemas[loading][p].kind = "enum" => t.name = enumTypes[v]
    <3>1. \A k, n : IType(k, n).name = n
      BY DEF IType
    <3>2. QED
      BY <1>2, <3>1 DEF KnownEnum
  <2>2. at = "schemas" /\ UNCHANGED <<types, enumTypes>> /\ schemas' = schemas
    BY <1>2, <2>1 DEF KnownEnum, SetProperty, spec
  <2>3. schemas[loading][p].kind = "enum" \/ ~HasEnum(loading, p)
    <3>1. SUFFICES ASSUME schemas[loading][p].kind = "enums", HasEnum(loading, p) PROVE FALSE
      BY <2>1
    <3>2. PICK n \in Schemas : \E q \in DOMAIN props[n] :
            schemas[n][q].kind \in {"enum", "enums"} /\ schemas[n][q].of = v
      BY <2>1 DEF EnumsOK, EnumsSeen
    <3>3. PICK q \in DOMAIN props[n] :
            schemas[n][q].kind \in {"enum", "enums"} /\ schemas[n][q].of = v
      BY <3>2
    <3>4. DOMAIN props[n] \subseteq DOMAIN schemas[n]
      BY DEF IInv, TypeOK
    <3>5. n \in Uses(v)
      BY <3>3, <3>4 DEF Uses
    <3>6. n = loading /\ q = p
      <4>1. Uses(v) = {loading} /\ \A o \in DOMAIN schemas[loading] : schemas[loading][o].of = v => o = p
        BY <2>1, <3>1 DEF HasEnum
      <4>2. QED
        BY <3>3, <3>4, <3>5, <4>1
    <3>7. p \notin DOMAIN props[loading]
      BY <2>1 DEF IInv, TypeOK
    <3>8. QED
      BY <3>3, <3>6, <3>7
  <2>4. schemas[loading][p].kind = "enum" => Denotes(t.name, Enum(v))
    BY <2>1 DEF IInv, NamesDenote
  <2>5. HasEnum(loading, p) => Denotes(t.name, Enum(v))'
    <3>1. UNCHANGED DerivedNames
      BY <2>1 DEF SetProperty, DerivedNames
    <3>2. QED
      BY <2>2, <2>3, <2>4, <3>1 DEF Denotes, Enum
  <2>6. QED
    BY <1>2, <2>1, <2>2, <2>5, EnumSet DEF Next
<1>3. CASE NewEnum
  <2>1. PICK p, name, t, v :
          /\ p \in left
          /\ schemas[loading][p].kind \in {"enum", "enums"} /\ v = schemas[loading][p].of
          /\ enumTypes' = Extend(enumTypes, v, name)
          /\ types' = Extend(types, name, Enum(v))
          /\ SetProperty(p, t) /\ t.name = name
    <3>1. \A k, n : IType(k, n).name = n
      BY DEF IType
    <3>2. QED
      BY <1>3, <3>1 DEF NewEnum, Register
  <2>2. at = "schemas"
    BY <1>3 DEF NewEnum
  <2>3. Denotes(t.name, Enum(v))'
    BY <2>1 DEF Denotes, Enum, Extend
  <2>4. DOMAIN enumTypes' = DOMAIN enumTypes \union {v}
    BY <2>1 DEF Extend
  <2>5. QED
    BY <1>3, <2>1, <2>2, <2>3, <2>4, EnumSet DEF Next
<1>4. CASE NextSchema
  BY <1>4, EnumsStay DEF NextSchema, spec, Next
<1>5. CASE SchemasLoaded \/ MakeTypes \/ SimpleItem \/ NewWriter \/ Overflow \/ WriterMade
           \/ RequestMade \/ MethodMade \/ Loaded
  <2>1. UNCHANGED <<spec, loads>>
    BY <1>5 DEF SchemasLoaded, MakeTypes, SimpleItem, NewWriter, Overflow, WriterMade,
                RequestMade, MethodMade, Loaded
  <2>2. QED
    BY <1>5, <2>1, SamePhase, EnumsStay DEF Next
<1>6. CASE UNCHANGED vars
  <2>1. UNCHANGED <<schemas, props, enumTypes, types>> /\ UNCHANGED <<writers, requests>>
    BY <1>6 DEF vars, spec, loads
  <2>2. \A name, type : Denotes(name, type)' <=> Denotes(name, type)
    BY <2>1 DEF Denotes, DerivedNames
  <2>3. \A v : Uses(v)' = Uses(v)
    BY <2>1 DEF Uses
  <2>4. QED
    BY <2>1, <2>2, <2>3 DEF EnumsOK, EnumsSeen, EnumsResolve, Enum
<1>7. QED
  BY <1>1, <1>2, <1>3, <1>4, <1>5, <1>6 DEF Next

\* For any schemas and order: the type of an enum property is the enum with its
\* values, and so is that of an array of enum values no other property has
\* (registerEnum, sdkModels.ts:2153).
THEOREM EnumsResolveAlways == Spec => []EnumsResolve
<1>1. Init => EnumsOK
  BY DEF Init, EnumsOK, EnumsSeen, EnumsResolve, Nothing
<1>2. IInv /\ EnumsOK /\ [Next]_vars => EnumsOK'
  BY NextEnumsOK
<1>3. EnumsOK => EnumsResolve
  BY DEF EnumsOK
<1>4. QED
  BY <1>1, <1>2, <1>3, Inductive, PTL DEF Spec

\* For any schemas, titles and order, schemas and enums keep names of their own,
\* and the types that refer to an enum by its name find it.
THEOREM NamesResolveAlways == Spec => []NamesResolve
<1>1. NamesDenote /\ EnumsResolve => NamesResolve
  BY DEF NamesResolve
<1>2. QED
  BY <1>1, NamesDenoteAlways, EnumsResolveAlways, PTL

----------------------------------------------------------------------------
(* The lists of parameters.                                                *)

\* The place of i in a set of numbers.
Place(I, i) == Cardinality({j \in I : j <= i})

\* Every member of a finite set has a place of its own.
LEMMA Places ==
  ASSUME NEW n \in Nat, NEW I \in SUBSET (1 .. n)
  PROVE  /\ IsFiniteSet(I) /\ Cardinality(I) \in Nat
         /\ \A i \in I : Place(I, i) \in 1 .. Cardinality(I)
         /\ \A i, k \in I : Place(I, i) = Place(I, k) => i = k
         /\ \A k \in 1 .. Cardinality(I) : \E i \in I : Place(I, i) = k
<1> DEFINE Upto(i) == {j \in I : j <= i}
           c == Cardinality(I)
           place == [i \in I |-> Cardinality(Upto(i))]
<1>1. IsFiniteSet(I) /\ c \in Nat
  <2>1. IsFiniteSet(1 .. n)
    BY FS_Interval
  <2>2. IsFiniteSet(I)
    BY <2>1, FS_Subset
  <2>3. QED
    BY <2>2, FS_CardinalityType
<1>2. ASSUME NEW i \in I
      PROVE  /\ IsFiniteSet(Upto(i)) /\ Cardinality(Upto(i)) \in Nat
             /\ Cardinality(Upto(i)) \in 1 .. c
  <2>1. Upto(i) \in SUBSET I /\ i \in Upto(i)
    OBVIOUS
  <2>2. IsFiniteSet(Upto(i)) /\ Cardinality(Upto(i)) <= c
    BY <1>1, <2>1, FS_Subset
  <2>3. Cardinality(Upto(i)) \in Nat /\ Cardinality(Upto(i)) # 0
    BY <2>1, <2>2, FS_CardinalityType, FS_EmptySet
  <2>4. QED
    BY <1>1, <2>2, <2>3
<1>3. ASSUME NEW i \in I, NEW k \in I, i < k
      PROVE  Cardinality(Upto(i)) # Cardinality(Upto(k))
  <2>0. \A j \in I : j \in Int
    OBVIOUS
  <2>1. Upto(i) \in SUBSET Upto(k) /\ k \in Upto(k) /\ k \notin Upto(i)
    <3>1. \A j \in I : j <= i => j <= k
      BY <1>3, <2>0
    <3>2. k <= k /\ ~(k <= i)
      BY <1>3, <2>0
    <3>3. QED
      BY <3>1, <3>2
  <2>2. IsFiniteSet(Upto(k))
    BY <1>2
  <2> HIDE DEF Upto
  <2>3. QED
    BY <2>1, <2>2, FS_Subset
<1>4. \A i, k \in I : Cardinality(Upto(i)) = Cardinality(Upto(k)) => i = k
  <2>1. SUFFICES ASSUME NEW i \in I, NEW k \in I, i # k
                 PROVE  Cardinality(Upto(i)) # Cardinality(Upto(k))
    OBVIOUS
  <2>2. i < k \/ k < i
    BY <2>1
  <2>3. QED
    BY <1>3, <2>2
<1> HIDE DEF Upto, c
<1>5. place \in Injection(I, 1 .. c)
  BY <1>2, <1>4 DEF Injection, IsInjective
<1>6. IsFiniteSet(1 .. c) /\ Cardinality(1 .. c) = c
  <2>1. Cardinality(1 .. c) = IF 1 > c THEN 0 ELSE c - 1 + 1
    BY <1>1, FS_Interval
  <2>2. QED
    BY <1>1, <2>1, FS_Interval
<1>7. Cardinality(I) = Cardinality(1 .. c)
  BY <1>6 DEF c
<1>8. place \in Surjection(I, 1 .. c)
  BY <1>5, <1>6, <1>7, FS_Injection
<1>9. \A k \in 1 .. c : \E i \in I : Cardinality(Upto(i)) = k
  BY <1>8 DEF Surjection
<1>10. \A i : Place(I, i) = Cardinality(Upto(i))
  BY DEF Place, Upto
<1>11. QED
  BY <1>1, <1>2, <1>4, <1>9, <1>10 DEF c

LEMMA SameLength == ASSUME NEW a \in Nat, NEW b \in Nat, 1 .. a = 1 .. b PROVE a = b
<1>1. CASE a < b
  <2>1. b \in 1 .. b /\ b \notin 1 .. a
    BY <1>1
  <2>2. QED
    BY <2>1
<1>2. CASE b < a
  <2>1. a \in 1 .. a /\ a \notin 1 .. b
    BY <1>2
  <2>2. QED
    BY <2>1
<1>3. QED
  BY <1>1, <1>2

\* The parameters at a location.
There(l, required, location) ==
  {i \in DOMAIN l : l[i].required = required /\ l[i].location = location}

LEMMA LocatedFacts ==
  ASSUME NEW S, NEW l \in Seq(S), NEW required, NEW location
  PROVE  LET I == There(l, required, location)  s == Located(l, required, location) IN
           /\ IsFiniteSet(I) /\ s \in Seq(S) /\ Len(s) = Cardinality(I)
           /\ Range(s) = {l[i] : i \in I}
<1> DEFINE I == There(l, required, location)
           s == Located(l, required, location)
           c == Cardinality(I)
           At(k) == l[CHOOSE i \in I : Place(I, i) = k]
<1>1. Len(l) \in Nat /\ DOMAIN l = 1 .. Len(l) /\ \A i \in DOMAIN l : l[i] \in S
  BY LenProperties, ElementOfSeq
<1>2. I \in SUBSET (1 .. Len(l))
  BY <1>1 DEF There
<1>3. s = [k \in 1 .. c |-> At(k)]
  BY DEF Located, There, Place
<1> HIDE DEF I
<1>4. /\ IsFiniteSet(I) /\ c \in Nat
      /\ \A i \in I : Place(I, i) \in 1 .. c
      /\ \A i, k \in I : Place(I, i) = Place(I, k) => i = k
      /\ \A k \in 1 .. c : \E i \in I : Place(I, i) = k
  BY <1>1, <1>2, Places DEF c
<1> HIDE DEF c, s
<1>5. \A k \in 1 .. c : \E i \in I : Place(I, i) = k /\ At(k) = l[i]
  BY <1>4
<1>6. \A i \in I : At(Place(I, i)) = l[i]
  <2>1. SUFFICES ASSUME NEW i \in I PROVE At(Place(I, i)) = l[i]
    OBVIOUS
  <2>2. (CHOOSE o \in I : Place(I, o) = Place(I, i)) = i
    BY <1>4
  <2>3. QED
    BY <2>2
<1> HIDE DEF At
<1>7. \A k \in 1 .. c : At(k) \in S
  BY <1>1, <1>2, <1>5
<1>8. s \in Seq(S) /\ Len(s) = c /\ DOMAIN s = 1 .. c
  <2>1. s \in [1 .. c -> S]
    BY <1>3, <1>7
  <2>2. s \in Seq(S)
    BY <1>4, <2>1, SeqDef
  <2>3. Len(s) \in Nat /\ DOMAIN s = 1 .. Len(s) /\ DOMAIN s = 1 .. c
    BY <2>1, <2>2, LenProperties
  <2>4. c \in Nat /\ 1 .. Len(s) = 1 .. c
    BY <1>4, <2>3
  <2>5. Len(s) = c
    BY <2>3, <2>4, SameLength
  <2>6. QED
    BY <2>2, <2>3, <2>5
<1>9. Range(s) = {l[i] : i \in I}
  BY <1>3, <1>4, <1>5, <1>6, <1>8 DEF Range
<1>10. QED
  BY <1>4, <1>8, <1>9 DEF I, c, s

LEMMA ConcatFacts ==
  ASSUME NEW S, NEW s \in Seq(S), NEW t \in Seq(S)
  PROVE  /\ s \o t \in Seq(S) /\ Len(s \o t) = Len(s) + Len(t)
         /\ Range(s \o t) = Range(s) \union Range(t)
<1> DEFINE m == Len(s)  n == Len(t)  u == s \o t
<1>1. /\ m \in Nat /\ DOMAIN s = 1 .. m
      /\ n \in Nat /\ DOMAIN t = 1 .. n
  BY LenProperties
<1>2. /\ u \in Seq(S) /\ Len(u) = m + n
      /\ \A i \in 1 .. m + n : u[i] = IF i <= m THEN s[i] ELSE t[i - m]
  BY ConcatProperties
<1>3. DOMAIN u = 1 .. m + n
  BY <1>2, LenProperties
<1> HIDE DEF m, n, u
<1>4. ASSUME NEW i \in DOMAIN u PROVE u[i] \in Range(s) \union Range(t)
  <2>1. CASE i <= m
    <3>1. i \in DOMAIN s /\ u[i] = s[i]
      BY <1>1, <1>2, <1>3, <1>4, <2>1
    <3>2. QED
      BY <3>1 DEF Range
  <2>2. CASE ~(i <= m)
    <3>1. i - m \in DOMAIN t /\ u[i] = t[i - m]
      BY <1>1, <1>2, <1>3, <1>4, <2>2
    <3>2. QED
      BY <3>1 DEF Range
  <2>3. QED
    BY <2>1, <2>2
<1>5. ASSUME NEW i \in DOMAIN s PROVE s[i] \in Range(u)
  <2>1. i \in DOMAIN u /\ u[i] = s[i]
    BY <1>1, <1>2, <1>3, <1>5
  <2>2. QED
    BY <2>1 DEF Range
<1>6. ASSUME NEW i \in DOMAIN t PROVE t[i] \in Range(u)
  <2>1. m + i \in DOMAIN u /\ u[m + i] = t[i]
    <3>1. m + i \in 1 .. m + n /\ ~(m + i <= m) /\ (m + i) - m = i
      BY <1>1, <1>6
    <3>2. QED
      BY <1>2, <1>3, <3>1
  <2>2. QED
    BY <2>1 DEF Range
<1>7. Range(u) = Range(s) \union Range(t)
  BY <1>4, <1>5, <1>6 DEF Range
<1>8. QED
  BY <1>2, <1>7 DEF m, n, u

\* No parameter is left out, and none is there twice.
LEMMA ByLocationFacts ==
  ASSUME NEW l \in ParamLists, NEW required \in BOOLEAN
  PROVE  LET S == {l[i] : i \in DOMAIN l}
             C(location) == Cardinality(There(l, required, location))
         IN  /\ ByLocation(l, required) \in Seq(S)
             /\ Range(ByLocation(l, required)) = {p \in S : p.required = required}
             /\ Len(ByLocation(l, required)) = C("path") + C("body") + C("query") + C("header") + C("cookie")
<1> DEFINE S == {l[i] : i \in DOMAIN l}
           C(location) == Cardinality(There(l, required, location))
           R(location) == {l[i] : i \in There(l, required, location)}
           P == Located(l, required, "path")
           B == Located(l, required, "body")
           Q == Located(l, required, "query")
           H == Located(l, required, "header")
           K == Located(l, required, "cookie")
<1>1. l \in Seq(S)
  BY ParamListsAssumption
<1> HIDE DEF S
<1>2. /\ P \in Seq(S) /\ Len(P) = C("path") /\ Range(P) = R("path")
      /\ B \in Seq(S) /\ Len(B) = C("body") /\ Range(B) = R("body")
      /\ Q \in Seq(S) /\ Len(Q) = C("query") /\ Range(Q) = R("query")
      /\ H \in Seq(S) /\ Len(H) = C("header") /\ Range(H) = R("header")
      /\ K \in Seq(S) /\ Len(K) = C("cookie") /\ Range(K) = R("cookie")
  BY <1>1, LocatedFacts
<1> HIDE DEF P, B, Q, H, K, C, R
<1> DEFINE Joined(s, t) ==
             /\ s \o t \in Seq(S) /\ Len(s \o t) = Len(s) + Len(t)
             /\ Range(s \o t) = Range(s) \union Range(t)
<1>3. ASSUME NEW s \in Seq(S), NEW t \in Seq(S)
      PROVE  s \o t \in Seq(S) /\ Joined(s, t)
  BY ConcatFacts
<1> HIDE DEF Joined
<1> DEFINE PB == P \o B
           PBQ == PB \o Q
           PBQH == PBQ \o H
<1>4. PB \in Seq(S) /\ PBQ \in Seq(S) /\ PBQH \in Seq(S)
  BY <1>2, <1>3
<1>5. Joined(P, B) /\ Joined(PB, Q) /\ Joined(PBQ, H) /\ Joined(PBQH, K)
  BY <1>2, <1>3, <1>4
<1>6. /\ Len(PB) = Len(P) + Len(B) /\ Range(PB) = Range(P) \union Range(B)
      /\ Len(PBQ) = Len(PB) + Len(Q) /\ Range(PBQ) = Range(PB) \union Range(Q)
      /\ Len(PBQH) = Len(PBQ) + Len(H) /\ Range(PBQH) = Range(PBQ) \union Range(H)
      /\ PBQH \o K \in Seq(S) /\ Len(PBQH \o K) = Len(PBQH) + Len(K)
      /\ Range(PBQH \o K) = Range(PBQH) \union Range(K)
  BY <1>5 DEF Joined
<1>7. ByLocation(l, required) = PBQH \o K
  BY DEF ByLocation, P, B, Q, H, K, PB, PBQ, PBQH
<1>8. R("path") \union R("body") \union R("query") \union R("header") \union R("cookie")
        = {p \in S : p.required = required}
  <2>1. \A i \in DOMAIN l : l[i].location \in Locations
    BY ParamListsAssumption
  <2>2. \A i \in DOMAIN l : l[i].required = required =>
          \E location \in Locations : i \in There(l, required, location)
    BY <2>1 DEF There
  <2>3. \A location : \A i \in There(l, required, location) :
          i \in DOMAIN l /\ l[i].required = required
    BY DEF There
  <2>4. ASSUME NEW p \in S, p.required = required
        PROVE  \E location \in Locations : p \in R(location)
    BY <2>2, <2>4 DEF S, R
  <2>5. \A location : R(location) \subseteq {p \in S : p.required = required}
    BY <2>3 DEF S, R
  <2>6. QED
    BY <2>4, <2>5 DEF Locations
<1> HIDE DEF PB, PBQ, PBQH
<1>9. Len(ByLocation(l, required)) = C("path") + C("body") + C("query") + C("header") + C("cookie")
  BY <1>2, <1>6, <1>7
<1>10. Range(ByLocation(l, required)) = {p \in S : p.required = required}
  BY <1>2, <1>6, <1>7, <1>8
<1>11. QED
  BY <1>6, <1>7, <1>9, <1>10 DEF S, C

\* What is hashed are the parameters, all of them.
LEMMA HashFacts ==
  ASSUME SpecOK, NEW m \in Methods
  PROVE  Range(Hash(m)) = {params[m][i] : i \in DOMAIN params[m]}
<1> DEFINE l == params[m]
           S == {l[i] : i \in DOMAIN l}
<1>1. l \in ParamLists
  BY DEF SpecOK
<1>2. \A p \in S : p.required \in BOOLEAN
  BY <1>1, ParamListsAssumption
<1> HIDE DEF l, S
<1>3. /\ ByLocation(l, TRUE) \in Seq(S) /\ Range(ByLocation(l, TRUE)) = {p \in S : p.required = TRUE}
      /\ ByLocation(l, FALSE) \in Seq(S) /\ Range(ByLocation(l, FALSE)) = {p \in S : p.required = FALSE}
  BY <1>1, ByLocationFacts DEF S
<1>4. Range(allParams(l)) = Range(ByLocation(l, TRUE)) \union Range(ByLocation(l, FALSE))
  <2> DEFINE s == ByLocation(l, TRUE)  t == ByLocation(l, FALSE)
  <2>1. s \in Seq(S) /\ t \in Seq(S)
    BY <1>3
  <2>2. allParams(l) = s \o t
    BY DEF allParams
  <2> HIDE DEF s, t
  <2>3. Range(s \o t) = Range(s) \union Range(t)
    BY <2>1, ConcatFacts
  <2>4. QED
    BY <2>2, <2>3 DEF s, t
<1>5. Range(allParams(l)) = S
  BY <1>2, <1>3, <1>4
<1>6. QED
  BY <1>5 DEF Hash, l, S

\* Methods whose parameters hash the same have the same parameters.
LEMMA SameHash ==
  ASSUME SpecOK, NEW m \in Methods, NEW o \in Methods, Hash(m) = Hash(o)
  PROVE  ParamTypes(m) = ParamTypes(o)
<1> DEFINE P(n) == {params[n][i] : i \in DOMAIN params[n]}
<1>1. P(m) = P(o)
  BY HashFacts
<1>2. \A n : {params[n][i].name : i \in DOMAIN params[n]} = {p.name : p \in P(n)}
  OBVIOUS
<1>3. \A n : ParamTypes(n) = [x \in {p.name : p \in P(n)} |-> (CHOOSE p \in P(n) : p.name = x).type]
  BY <1>2 DEF ParamTypes
<1> DEFINE Q == P(m)
<1>4. /\ ParamTypes(m) = [x \in {p.name : p \in Q} |-> (CHOOSE p \in Q : p.name = x).type]
      /\ ParamTypes(o) = [x \in {p.name : p \in Q} |-> (CHOOSE p \in Q : p.name = x).type]
  <2>1. P(o) = Q
    BY <1>1
  <2> HIDE DEF P, Q
  <2>2. ParamTypes(o) = [x \in {p.name : p \in P(o)} |-> (CHOOSE p \in P(o) : p.name = x).type]
    BY <1>3
  <2>3. ParamTypes(m) = [x \in {p.name : p \in P(m)} |-> (CHOOSE p \in P(m) : p.name = x).type]
    BY <1>3
  <2>4. QED
    BY <2>1, <2>2, <2>3 DEF Q
<1>5. QED
  BY <1>4

LEMMA DisjointUnion ==
  ASSUME NEW S, NEW T, IsFiniteSet(S), IsFiniteSet(T), S \cap T = {}
  PROVE  /\ IsFiniteSet(S \union T)
         /\ Cardinality(S \union T) = Cardinality(S) + Cardinality(T)
         /\ Cardinality(S) \in Nat /\ Cardinality(T) \in Nat
<1>1. Cardinality(S) \in Nat /\ Cardinality(T) \in Nat /\ Cardinality(S \cap T) = 0
  BY FS_CardinalityType, FS_EmptySet
<1>2. /\ IsFiniteSet(S \union T)
      /\ Cardinality(S \union T) = Cardinality(S) + Cardinality(T) - Cardinality(S \cap T)
  BY FS_Union
<1>3. QED
  BY <1>1, <1>2

\* eligibleForRequestType counts the optional parameters beside the body.
LEMMA EligibleFacts ==
  ASSUME SpecOK, NEW m \in Methods
  PROVE  eligibleForRequestType(m) <=> Cardinality(Optionals(m)) > 1
<1> DEFINE l == params[m]
           T(location) == There(l, FALSE, location)
           C(location) == Cardinality(T(location))
<1>1. l \in ParamLists /\ l \in Seq({l[i] : i \in DOMAIN l})
  BY ParamListsAssumption DEF SpecOK
<1>2. \A i \in DOMAIN l : l[i].required \in BOOLEAN /\ l[i].location \in Locations
  BY <1>1, ParamListsAssumption
<1>3. \A i, a, b : a # b => ~(i \in T(a) /\ i \in T(b))
  BY DEF There
<1>4. Optionals(m) = T("path") \union T("query") \union T("header") \union T("cookie")
  BY <1>2 DEF Optionals, There, Locations
<1>5. \A location : IsFiniteSet(T(location))
  BY <1>1, LocatedFacts
<1> HIDE DEF T
<1>6. \A location : C(location) \in Nat
  BY <1>5, FS_CardinalityType
<1> DEFINE PQ == T("path") \union T("query")
           PQH == PQ \union T("header")
<1>7. IsFiniteSet(PQ) /\ Cardinality(PQ) = C("path") + C("query")
  <2>1. T("path") \cap T("query") = {}
    BY <1>3
  <2>2. QED
    BY <2>1, <1>5, DisjointUnion
<1>8. IsFiniteSet(PQH) /\ Cardinality(PQH) = Cardinality(PQ) + C("header")
  <2>1. PQ \cap T("header") = {}
    BY <1>3
  <2> HIDE DEF PQ
  <2>2. QED
    BY <2>1, <1>5, <1>7, DisjointUnion
<1>9. Cardinality(Optionals(m)) = Cardinality(PQH) + C("cookie")
  <2>1. PQH \cap T("cookie") = {} /\ Optionals(m) = PQH \union T("cookie")
    BY <1>3, <1>4
  <2> HIDE DEF PQH
  <2>2. QED
    BY <2>1, <1>5, <1>8, DisjointUnion
<1>10. Len(ByLocation(l, FALSE)) = C("path") + C("body") + C("query") + C("header") + C("cookie")
  BY <1>1, ByLocationFacts DEF T
<1>11. Len(Located(l, FALSE, "body")) = C("body")
  <2> DEFINE S == {l[i] : i \in DOMAIN l}
  <2>1. l \in Seq(S)
    BY <1>1
  <2> HIDE DEF S, l
  <2>2. QED
    BY <2>1, LocatedFacts DEF T
<1> HIDE DEF C, PQ, PQH, l
<1>12. /\ C("path") \in Nat /\ C("body") \in Nat /\ C("query") \in Nat
       /\ C("header") \in Nat /\ C("cookie") \in Nat
  BY <1>6
<1>13. Len(ByLocation(l, FALSE)) - Len(Located(l, FALSE, "body")) = Cardinality(Optionals(m))
  <2> DEFINE p == C("path")  b == C("body")  q == C("query")  h == C("header")  k == C("cookie")
  <2>1. p \in Nat /\ b \in Nat /\ q \in Nat /\ h \in Nat /\ k \in Nat
    BY <1>12
  <2>2. Cardinality(Optionals(m)) = p + q + h + k
    BY <1>7, <1>8, <1>9
  <2>3. Len(ByLocation(l, FALSE)) = p + b + q + h + k /\ Len(Located(l, FALSE, "body")) = b
    BY <1>10, <1>11
  <2> HIDE DEF p, b, q, h, k
  <2>4. (p + b + q + h + k) - b = p + q + h + k
    BY <2>1
  <2>5. QED
    BY <2>2, <2>3, <2>4
<1>14. QED
  BY <1>13 DEF eligibleForRequestType, l

----------------------------------------------------------------------------
(* The request types.                                                      *)

\* A request type has the parameters of the method it was made for, in their
\* writeable types where they have them.
RequestIs(h, r) ==
  /\ r.of \in Methods /\ h = Hash(r.of) /\ eligibleForRequestType(r.of)
  /\ DOMAIN r.props = DOMAIN ParamTypes(r.of)
  /\ \A x \in DOMAIN r.props : r.props[x] = Derived(ParamTypes(r.of)[x])

Requested(m, H) == eligibleForRequestType(m) => Hash(m) \in H

\* The request type of the method under construction is registered or under
\* construction itself.
StackRequested(s, H) ==
  /\ \A i \in DOMAIN s : s[i].kind = "request" => eligibleForRequestType(s[i].of)
  /\ 1 \in DOMAIN s =>
       \/ Requested(s[1].of, H)
       \/ 2 \in DOMAIN s /\ s[2].kind = "request" /\ s[2].of = s[1].of

RequestsOK ==
  /\ \A h \in DOMAIN requests : RequestIs(h, requests[h])
  /\ \A m \in Methods \ unmade : Requested(m, DOMAIN requests)
  /\ StackRequested(stack, DOMAIN requests)

LEMMA RequestsStay ==
  ASSUME UNCHANGED <<schemas, params>>,
         \A h \in DOMAIN requests' : RequestIs(h, requests'[h]),
         \A m \in Methods \ unmade' : Requested(m, DOMAIN requests'),
         StackRequested(stack', DOMAIN requests')
  PROVE  RequestsOK'
<1>1. \A n : PartlyReadOnly(n)' <=> PartlyReadOnly(n)
  BY DEF WriteableProps, PartlyReadOnly
<1>2. \A t : Derived(t)' = Derived(t)
  BY <1>1 DEF Derived
<1>3. /\ \A m : ParamTypes(m)' = ParamTypes(m)
      /\ \A m : Hash(m)' = Hash(m)
      /\ \A m : eligibleForRequestType(m)' <=> eligibleForRequestType(m)
  BY DEF ParamTypes, Hash, eligibleForRequestType
<1>4. \A h, r : RequestIs(h, r)' <=> RequestIs(h, r)
  BY <1>2, <1>3 DEF RequestIs
<1>5. \A m, H : Requested(m, H)' <=> Requested(m, H)
  BY <1>3 DEF Requested
<1>6. \A s, H : StackRequested(s, H)' <=> StackRequested(s, H)
  BY <1>3, <1>5 DEF StackRequested
<1>7. QED
  BY <1>4, <1>5, <1>6 DEF RequestsOK

\* The method keeps its place below, and a request type its own above it, until it
\* is made.
LEMMA StackRequestedStays ==
  ASSUME NEW s, NEW t, NEW H, NEW G, StackRequested(s, H), H \subseteq G,
         \A i \in DOMAIN t :
           IF i \in DOMAIN s THEN t[i].kind = s[i].kind /\ t[i].of = s[i].of
           ELSE t[i].kind # "request" /\ i # 1,
         2 \in DOMAIN s /\ s[2].kind = "request" => 2 \in DOMAIN t
  PROVE  StackRequested(t, G)
<1>1. \A i \in DOMAIN t : t[i].kind = "request" => eligibleForRequestType(t[i].of)
  BY DEF StackRequested
<1>2. ASSUME 1 \in DOMAIN t
      PROVE  \/ Requested(t[1].of, G)
             \/ 2 \in DOMAIN t /\ t[2].kind = "request" /\ t[2].of = t[1].of
  <2>1. 1 \in DOMAIN s /\ t[1].of = s[1].of
    BY <1>2
  <2>2. CASE Requested(s[1].of, H)
    BY <2>1, <2>2 DEF Requested
  <2>3. CASE 2 \in DOMAIN s /\ s[2].kind = "request" /\ s[2].of = s[1].of
    BY <2>1, <2>3
  <2>4. QED
    BY <2>1, <2>2, <2>3 DEF StackRequested
<1>3. QED
  BY <1>1, <1>2 DEF StackRequested

\* A step that registers no request type and makes no method.
LEMMA SameRequests ==
  ASSUME RequestsOK, UNCHANGED <<schemas, params, unmade, requests>>,
         StackRequested(stack', DOMAIN requests)
  PROVE  RequestsOK'
BY RequestsStay DEF RequestsOK

LEMMA MakeTypesRequests == ASSUME IInv, RequestsOK, MakeTypes PROVE RequestsOK'
<1> DEFINE H == DOMAIN requests
<1>1. PICK m \in unmade :
        LET make == Frame("method", m, None, ParamTypes(m))
        IN  stack' = IF eligibleForRequestType(m) /\ Hash(m) \notin DOMAIN requests
                     THEN <<make, Frame("request", m, None, ParamTypes(m))>>
                     ELSE <<make>>
  BY DEF MakeTypes
<1>2. UNCHANGED <<spec, unmade, requests>>
  BY DEF MakeTypes
<1> DEFINE f == Frame("method", m, None, ParamTypes(m))
           r == Frame("request", m, None, ParamTypes(m))
<1>3. f.kind = "method" /\ r.kind = "request" /\ f.of = m /\ r.of = m
  BY DEF Frame
<1>4. CASE eligibleForRequestType(m) /\ Hash(m) \notin H
  <2>1. stack' = <<f, r>>
    BY <1>1, <1>4
  <2> HIDE DEF f, r
  <2>2. DOMAIN stack' = {1, 2} /\ stack'[1] = f /\ stack'[2] = r
    BY <2>1
  <2>3. StackRequested(stack', H)
    BY <1>3, <1>4, <2>2 DEF StackRequested
  <2>4. QED
    BY <1>2, <2>3, SameRequests DEF spec
<1>5. CASE ~(eligibleForRequestType(m) /\ Hash(m) \notin H)
  <2>1. stack' = <<f>>
    BY <1>1, <1>5
  <2> HIDE DEF f
  <2>2. DOMAIN stack' = {1} /\ stack'[1] = f
    BY <2>1
  <2>3. Requested(m, H)
    BY <1>5 DEF Requested
  <2>4. StackRequested(stack', H)
    BY <1>3, <2>2, <2>3 DEF StackRequested
  <2>5. QED
    BY <1>2, <2>4, SameRequests DEF spec
<1>6. QED
  BY <1>4, <1>5

LEMMA SimpleItemRequests == ASSUME IInv, RequestsOK, SimpleItem PROVE RequestsOK'
<1>1. PICK x, t : stack' = Made(stack, x, t)
  BY DEF SimpleItem
<1>2. stack # << >> /\ UNCHANGED <<spec, unmade, requests>>
  BY DEF SimpleItem
<1>3. /\ DOMAIN stack' = DOMAIN stack
      /\ \A i \in DOMAIN stack : stack'[i].kind = stack[i].kind /\ stack'[i].of = stack[i].of
  BY <1>1, <1>2, MadeKinds DEF IInv, StackOK
<1>4. StackRequested(stack', DOMAIN requests)
  BY <1>3, StackRequestedStays DEF RequestsOK
<1>5. QED
  BY <1>2, <1>4, SameRequests DEF spec

LEMMA NewWriterRequests == ASSUME IInv, RequestsOK, NewWriter PROVE RequestsOK'
<1>1. PICK f : f.kind = "write" /\ stack' = Append(stack, f)
  BY DEF NewWriter, Frame
<1>2. stack # << >> /\ UNCHANGED <<spec, unmade, requests>>
  BY DEF NewWriter
<1>3. PICK S : stack \in Seq(S)
  BY DEF IInv, StackOK, StackIs
<1>4. PICK n \in Nat \ {0} : n = Len(stack) /\ DOMAIN stack = 1 .. n
  BY <1>2, <1>3, EmptySeq, LenProperties
<1>5. stack \in Seq(S \union {f}) /\ f \in S \union {f}
  BY <1>3, SeqMonotonic
<1>6. /\ DOMAIN stack' = 1 .. n + 1 /\ stack'[n + 1] = f
      /\ \A i \in 1 .. n : stack'[i] = stack[i]
  BY <1>1, <1>4, <1>5, AppendProperties
<1>7. ASSUME NEW i \in DOMAIN stack'
      PROVE  IF i \in DOMAIN stack THEN stack'[i] = stack[i]
             ELSE stack'[i].kind # "request" /\ i # 1
  <2>1. i \in 1 .. n \/ (i = n + 1 /\ i # 1)
    BY <1>4, <1>6, <1>7
  <2>2. QED
    BY <2>1, <1>1, <1>4, <1>6
<1>8. DOMAIN stack \subseteq DOMAIN stack'
  BY <1>4, <1>6
<1>9. StackRequested(stack', DOMAIN requests)
  BY <1>7, <1>8, StackRequestedStays DEF RequestsOK
<1>10. QED
  BY <1>2, <1>9, SameRequests DEF spec

LEMMA WriterMadeRequests == ASSUME IInv, RequestsOK, WriterMade PROVE RequestsOK'
<1>1. /\ at = "methods" /\ stack # << >> /\ top.todo = Nothing /\ top.kind = "write"
      /\ UNCHANGED <<spec, unmade, requests>>
  BY DEF WriterMade
<1>2. PICK x, t : stack' = Made(Below, x, t)
  BY DEF WriterMade
<1>3. PICK n \in Nat \ {0} :
        /\ Len(stack) = n /\ DOMAIN stack = 1 .. n /\ top = stack[n] /\ n # 1
  BY <1>1, TopMade
<1>4. /\ StackIs(Below, DOMAIN writers, DOMAIN requests)
      /\ Len(Below) = n - 1 /\ DOMAIN Below = 1 .. n - 1
      /\ \A i \in DOMAIN Below : i \in DOMAIN stack /\ Below[i] = stack[i]
  BY <1>1, <1>3, TopMade
<1>5. Below # << >>
  BY <1>3, <1>4
<1>6. /\ DOMAIN stack' = 1 .. n - 1
      /\ \A i \in DOMAIN Below : stack'[i].kind = Below[i].kind /\ stack'[i].of = Below[i].of
  BY <1>2, <1>4, <1>5, MadeKinds
<1>7. 2 \in DOMAIN stack /\ stack[2].kind = "request" => 2 \in DOMAIN stack'
  <2>1. n = 2 => stack[2].kind = "write"
    BY <1>1, <1>3
  <2>2. QED
    BY <1>3, <1>6, <2>1
<1>8. StackRequested(stack', DOMAIN requests)
  BY <1>4, <1>6, <1>7, StackRequestedStays DEF RequestsOK
<1>9. QED
  BY <1>1, <1>8, SameRequests DEF spec

LEMMA RequestMadeRequests == ASSUME IInv, RequestsOK, RequestMade PROVE RequestsOK'
<1> DEFINE m == top.of  H == DOMAIN requests  G == H \union {Hash(m)}
           r == [of |-> m, props |-> top.props]
<1>1. /\ at = "methods" /\ stack # << >> /\ top.todo = Nothing /\ top.kind = "request"
      /\ requests' = Extend(requests, Hash(m), r) /\ stack' = Below
      /\ UNCHANGED <<spec, unmade>>
  BY DEF RequestMade
<1>2. DOMAIN requests' = G /\ requests'[Hash(m)] = r
      /\ \A h \in H : h # Hash(m) => requests'[h] = requests[h]
  BY <1>1 DEF Extend
<1>3. DOMAIN stack = {1, 2} /\ top = stack[2] /\ Len(stack) = 2 /\ m \in Methods
  BY <1>1, TopMade
<1>4. /\ DOMAIN stack' = {1}
      /\ stack'[1] = stack[1]
  <2>1. /\ DOMAIN Below = 1 .. Len(stack) - 1
        /\ \A i \in DOMAIN Below : i \in DOMAIN stack /\ Below[i] = stack[i]
    BY <1>1, TopMade
  <2>2. QED
    BY <1>1, <1>3, <2>1
<1>5. eligibleForRequestType(m)
  BY <1>1, <1>3 DEF RequestsOK, StackRequested
<1>6. /\ DOMAIN top.props = DOMAIN ParamTypes(m)
      /\ \A x \in DOMAIN top.props : top.props[x] = Derived(ParamTypes(m)[x])
  <2>1. Source(top) = ParamTypes(m)
    BY <1>1 DEF Source
  <2>2. /\ DOMAIN top.props = DOMAIN Source(top)
        /\ \A x \in DOMAIN Source(top) : BuiltOK(top.props[x], Source(top)[x], DOMAIN writers)
    BY <1>1, TopMade
  <2>3. QED
    BY <2>1, <2>2 DEF BuiltOK
<1>7. RequestIs(Hash(m), r)
  <2>1. r.of = m /\ r.props = top.props
    OBVIOUS
  <2> HIDE DEF r, m
  <2>2. QED
    BY <1>3, <1>5, <1>6, <2>1 DEF RequestIs
<1>8. \A h \in DOMAIN requests' : RequestIs(h, requests'[h])
  BY <1>2, <1>7 DEF RequestsOK
<1>9. \A o \in Methods \ unmade' : Requested(o, DOMAIN requests')
  BY <1>1, <1>2 DEF RequestsOK, Requested
<1>10. StackRequested(stack', DOMAIN requests')
  <2>1. stack[1].kind = "request" => eligibleForRequestType(stack[1].of)
    BY <1>3 DEF RequestsOK, StackRequested
  <2>2. Requested(stack[1].of, H) \/ stack[1].of = m
    BY <1>3 DEF RequestsOK, StackRequested
  <2>3. Requested(stack[1].of, DOMAIN requests')
    BY <1>2, <2>2 DEF Requested
  <2>4. QED
    BY <1>4, <2>1, <2>3 DEF StackRequested
<1>11. QED
  BY <1>1, <1>8, <1>9, <1>10, RequestsStay DEF spec

LEMMA MethodMadeRequests == ASSUME IInv, RequestsOK, MethodMade PROVE RequestsOK'
<1> DEFINE m == top.of  H == DOMAIN requests
<1>1. /\ at = "methods" /\ stack # << >> /\ top.todo = Nothing /\ top.kind = "method"
      /\ unmade' = unmade \ {m} /\ stack' = Below
      /\ UNCHANGED <<spec, requests>>
  BY DEF MethodMade
<1>2. DOMAIN stack = {1} /\ top = stack[1] /\ Len(stack) = 1
  BY <1>1, TopMade
<1>3. DOMAIN stack' = {}
  <2>1. DOMAIN Below = 1 .. Len(stack) - 1
    BY <1>1, TopMade
  <2>2. QED
    BY <1>1, <1>2, <2>1
<1>4. Requested(m, H)
  BY <1>2 DEF RequestsOK, StackRequested
<1>5. \A o \in Methods \ unmade' : Requested(o, DOMAIN requests')
  BY <1>1, <1>4 DEF RequestsOK
<1>6. StackRequested(stack', DOMAIN requests')
  BY <1>3 DEF StackRequested
<1>7. \A h \in DOMAIN requests' : RequestIs(h, requests'[h])
  BY <1>1 DEF RequestsOK
<1>8. QED
  BY <1>1, <1>5, <1>6, <1>7, RequestsStay DEF spec

LEMMA NextRequestsOK == ASSUME IInv, RequestsOK, [Next]_vars PROVE RequestsOK'
<1>1. CASE MakeTypes BY <1>1, MakeTypesRequests
<1>2. CASE SimpleItem BY <1>2, SimpleItemRequests
<1>3. CASE NewWriter BY <1>3, NewWriterRequests
<1>4. CASE WriterMade BY <1>4, WriterMadeRequests
<1>5. CASE RequestMade BY <1>5, RequestMadeRequests
<1>6. CASE MethodMade BY <1>6, MethodMadeRequests
<1>7. CASE NextSchema \/ PlainProperty \/ KnownEnum \/ NewEnum \/ SchemasLoaded
           \/ Overflow \/ Loaded \/ UNCHANGED vars
  <2>1. UNCHANGED <<spec, unmade, stack, requests>>
    BY <1>7 DEF NextSchema, PlainProperty, KnownEnum, NewEnum, SetProperty, SchemasLoaded,
                Overflow, Loaded, vars
  <2>2. StackRequested(stack', DOMAIN requests)
    BY <2>1 DEF RequestsOK
  <2>3. QED
    BY <2>1, <2>2, SameRequests DEF spec
<1>8. QED
  BY <1>1, <1>2, <1>3, <1>4, <1>5, <1>6, <1>7 DEF Next

LEMMA RequestsFit == ASSUME IInv, RequestsOK PROVE RequestTypesFit
<1>1. SUFFICES ASSUME NEW m \in Methods \ unmade
               PROVE  IF Cardinality(Optionals(m)) > 1
                      THEN /\ Hash(m) \in DOMAIN requests
                           /\ LET r == requests[Hash(m)].props IN
                                /\ DOMAIN r = {params[m][i].name : i \in DOMAIN params[m]}
                                /\ \A i \in DOMAIN params[m] :
                                     r[params[m][i].name] = Derived(params[m][i].type)
                      ELSE \A h \in DOMAIN requests : requests[h].of # m
  BY DEF RequestTypesFit
<1>2. eligibleForRequestType(m) <=> Cardinality(Optionals(m)) > 1
  BY EligibleFacts DEF IInv
<1>3. CASE eligibleForRequestType(m)
  <2> DEFINE q == requests[Hash(m)]
  <2>1. Hash(m) \in DOMAIN requests
    BY <1>3 DEF RequestsOK, Requested
  <2>2. RequestIs(Hash(m), q)
    BY <2>1 DEF RequestsOK
  <2> HIDE DEF q
  <2>3. ParamTypes(q.of) = ParamTypes(m)
    BY <2>2, SameHash DEF RequestIs, IInv
  <2>4. /\ DOMAIN q.props = DOMAIN ParamTypes(m)
        /\ \A x \in DOMAIN ParamTypes(m) : q.props[x] = Derived(ParamTypes(m)[x])
    BY <2>2, <2>3 DEF RequestIs
  <2>5. /\ DOMAIN ParamTypes(m) = {params[m][i].name : i \in DOMAIN params[m]}
        /\ \A i \in DOMAIN params[m] : ParamTypes(m)[params[m][i].name] = params[m][i].type
    BY ParamTyped DEF IInv
  <2>6. \A i \in DOMAIN params[m] : q.props[params[m][i].name] = Derived(params[m][i].type)
    BY <2>4, <2>5
  <2>7. QED
    BY <1>2, <1>3, <2>1, <2>4, <2>5, <2>6 DEF q
<1>4. CASE ~eligibleForRequestType(m)
  <2>1. \A h \in DOMAIN requests : requests[h].of # m
    BY <1>4 DEF RequestsOK, RequestIs
  <2>2. QED
    BY <1>2, <1>4, <2>1
<1>5. QED
  BY <1>3, <1>4

\* For any specification and order of the methods: the request type a method finds
\* by the hash of its parameters, made for it or for a method before it, has exactly
\* its parameters and their types; a method with fewer than two optional parameters
\* beside the body has none (_getRequestType, sdkModels.ts:2185).
THEOREM RequestTypesFitAlways == Spec => []RequestTypesFit
<1>1. Init => RequestsOK
  BY DEF Init, RequestsOK, StackRequested, Nothing
<1>2. IInv /\ RequestsOK /\ [Next]_vars => RequestsOK'
  BY NextRequestsOK
<1>3. IInv /\ RequestsOK => RequestTypesFit
  BY RequestsFit
<1>4. QED
  BY <1>1, <1>2, <1>3, Inductive, PTL DEF Spec
=============================================================================
