------------------------------ MODULE SpecDiff ------------------------------
(***************************************************************************)
(* packages/sdk-codegen/src/specDiff.ts: the comparison of two API         *)
(* specifications.  compareSpecs sorts the methods of both sides with      *)
(* localeCompare and merges the lists with the operator <; two methods     *)
(* with the same id are compared by their status, types, parameters,       *)
(* bodies and responses, with countDiffs merging the sorted keys of each.  *)
(*                                                                         *)
(* A method id and a key stand for their places in the order of            *)
(* localeCompare; the front of a sorted list is the least of the set that  *)
(* is left of it.  code[i] is the place of id i in the order of <.         *)
(***************************************************************************)
EXTENDS Integers, FiniteSets

CONSTANTS
  Ids,       \* operation and path of the methods
  Keys,      \* names of properties and parameters, values of enums
  Empty,     \* the empty string, which an enum may have for a value
  Methods,   \* the methods compared, without their ids
  MaxAdded   \* bound: keys counted as added within one row

ASSUME IdsAssumption == Ids \subseteq Nat \ {0}
ASSUME KeysAssumption == Keys \subseteq Nat /\ Empty \in Nat /\ \A k \in Keys : Empty <= k
\* Only an enum has values that may be empty.
ASSUME MethodsAssumption ==
  \A m \in Methods :
    /\ m.enum \in BOOLEAN
    /\ DOMAIN m.type \subseteq Keys /\ (~m.enum => Empty \notin DOMAIN m.type)
    /\ DOMAIN m.params \subseteq Keys \ {Empty} /\ DOMAIN m.body \subseteq Keys \ {Empty}
ASSUME MaxAddedAssumption == MaxAdded \in Nat

VARIABLES
  lMethods, rMethods,  \* the methods of the two specifications, by id
  code,                \* how < orders the ids
  lRest, rRest,        \* what the loop of compareSpecs has not passed yet
  at,                  \* "merge", what of two methods is compared, "done" or "crashed"
  pair,                \* the ids of the methods compared
  lKeys, rKeys,        \* what the loop of countDiffs has not passed yet
  count,               \* the DiffCount of the row
  typeDiff,            \* has the row a type difference
  diff                 \* the rows

specs == <<lMethods, rMethods, code>>
vars == <<specs, lRest, rRest, at, pair, lKeys, rKeys, count, typeDiff, diff>>

None == 0
NoPair == [l |-> None, r |-> None]
startCount == [changed |-> 0, added |-> 0, removed |-> 0]

Row(l, r, c) == [l |-> l, r |-> r, count |-> c]

First(S, i) == i \in S /\ \A j \in S : i <= j

----------------------------------------------------------------------------
(* Two methods.                                                            *)

lMethod == lMethods[pair.l]
rMethod == rMethods[pair.r]

\* An enum has values for keys, and no properties.
Properties(m) == IF m.enum THEN {} ELSE DOMAIN m.type

\* The keys compareTypes compares, none if the types are the same.
TypeKeys(m, lm, rm) ==
  IF lm.enum THEN DOMAIN m.type
  ELSE IF ~rm.enum /\ lm.type = rm.type THEN {} ELSE Properties(m)

\* Mutant: the types of two properties are not compared.
ValuesOfParams == at = "params"

\* Does the comparer look at the values of a key both sides have.
ValuesCompared == at = "params" \/ (at = "type" /\ ~lMethod.enum)

\* An empty string counts as no key.
HasKey(S) == S # {} /\ Empty \notin S

Before(S, T) == \E i \in S : First(S, i) /\ \A j \in T : i < j

\* diffCompare, for the fronts of the two lists.
LeftMissing  == HasKey(lKeys) => HasKey(rKeys) /\ Before(rKeys, lKeys)
RightMissing == HasKey(lKeys) /\ (HasKey(rKeys) => Before(lKeys, rKeys))

Without(S) == {i \in S : ~First(S, i)}
Counting == at \in {"type", "params", "body"} /\ (lKeys # {} \/ rKeys # {})

KeyAdded ==
  /\ Counting /\ LeftMissing
  /\ count.added < MaxAdded
  /\ count' = [count EXCEPT !.added = @ + 1]
  /\ rKeys' = Without(rKeys) /\ UNCHANGED lKeys
  /\ typeDiff' = (typeDiff \/ at = "type")
  /\ UNCHANGED <<specs, lRest, rRest, at, pair, diff>>

KeyRemoved ==
  /\ Counting /\ RightMissing
  /\ count' = [count EXCEPT !.removed = @ + 1]
  /\ lKeys' = Without(lKeys) /\ UNCHANGED rKeys
  /\ typeDiff' = (typeDiff \/ at = "type")
  /\ UNCHANGED <<specs, lRest, rRest, at, pair, diff>>

Changed == ValuesCompared /\ \E k \in lKeys : First(lKeys, k) /\ lMethod[at][k] # rMethod[at][k]

\* Mutant: only a key that changed is passed.
KeyMatchedStays ==
  /\ Counting /\ ~LeftMissing /\ ~RightMissing
  /\ count' = [count EXCEPT !.changed = IF Changed THEN @ + 1 ELSE @]
  /\ typeDiff' = (typeDiff \/ (at = "type" /\ Changed))
  /\ IF Changed THEN lKeys' = Without(lKeys) /\ rKeys' = Without(rKeys)
                ELSE UNCHANGED <<lKeys, rKeys>>
  /\ UNCHANGED <<specs, lRest, rRest, at, pair, diff>>

KeyMatched ==
  /\ Counting /\ ~LeftMissing /\ ~RightMissing
  /\ count' = [count EXCEPT !.changed = IF Changed THEN @ + 1 ELSE @]
  /\ typeDiff' = (typeDiff \/ (at = "type" /\ Changed))
  /\ lKeys' = Without(lKeys) /\ rKeys' = Without(rKeys)
  /\ UNCHANGED <<specs, lRest, rRest, at, pair, diff>>

Counted(what) == at = what /\ lKeys = {} /\ rKeys = {}

\* The end of compareTypes. Of two enums the sorted values are compared again.
TypesCompared ==
  /\ Counted("type")
  /\ at' = "params"
  /\ lKeys' = DOMAIN lMethod.params /\ rKeys' = DOMAIN rMethod.params
  /\ typeDiff' = IF lMethod.enum THEN DOMAIN lMethod.type # DOMAIN rMethod.type ELSE typeDiff
  /\ UNCHANGED <<specs, lRest, rRest, pair, count, diff>>

ParamsCompared ==
  /\ Counted("params")
  /\ at' = "body"
  /\ lKeys' = DOMAIN lMethod.body /\ rKeys' = DOMAIN rMethod.body
  /\ UNCHANGED <<specs, lRest, rRest, pair, count, typeDiff, diff>>

One(b) == IF b THEN 1 ELSE 0

ParamsDiff == lMethod.name # rMethod.name \/ lMethod.params # rMethod.params
BodyDiff   == lMethod.body # rMethod.body
ResponseDiff == lMethod.responses # rMethod.responses

\* includeDiffs, for two methods.
includeDiffs ==
  lMethod.status # rMethod.status \/ ParamsDiff \/ typeDiff \/ BodyDiff \/ ResponseDiff

\* compareResponses, and the end of computeDiff: the row is pushed if included.
BodiesCompared ==
  /\ Counted("body")
  /\ LET c == [count EXCEPT !.changed = @ + One(BodyDiff) + One(ResponseDiff)]
     IN  diff' = IF includeDiffs THEN diff \union {Row(pair.l, pair.r, c)} ELSE diff
  /\ at' = "merge" /\ pair' = NoPair /\ count' = startCount /\ typeDiff' = FALSE
  /\ UNCHANGED <<specs, lRest, rRest, lKeys, rKeys>>

----------------------------------------------------------------------------
(* The loop of compareSpecs.                                               *)

\* An enum and a type that is none: its values are read and are undefined.
Unreadable(l, r) == lMethods[l].enum /\ ~rMethods[r].enum

\* computeDiff begins.
Compare(l, r) ==
  /\ pair' = [l |-> l, r |-> r]
  /\ count' = [startCount EXCEPT !.changed = One(lMethods[l].status # rMethods[r].status)]
  /\ at' = IF Unreadable(l, r) THEN "crashed" ELSE "type"
  /\ lKeys' = TypeKeys(lMethods[l], lMethods[l], rMethods[r])
  /\ rKeys' = TypeKeys(rMethods[r], lMethods[l], rMethods[r])
  /\ UNCHANGED <<typeDiff, diff>>

Push(row) == diff' = diff \union {row} /\ UNCHANGED <<at, pair, lKeys, rKeys, count, typeDiff>>

MethodRemoved ==
  /\ at = "merge"
  /\ \E l \in lRest :
       /\ First(lRest, l)
       /\ \A r \in rRest : First(rRest, r) => code[l] < code[r]
       /\ lRest' = lRest \ {l}
       /\ Push(Row(l, None, [startCount EXCEPT !.removed = 1]))
  /\ UNCHANGED <<specs, rRest>>

MethodAdded ==
  /\ at = "merge"
  /\ \E r \in rRest :
       /\ First(rRest, r)
       /\ \A l \in lRest : First(lRest, l) => code[r] < code[l]
       /\ rRest' = rRest \ {r}
       /\ Push(Row(None, r, [startCount EXCEPT !.added = 1]))
  /\ UNCHANGED <<specs, lRest>>

\* Mutant: the right-hand list is not moved on.
MethodMatchedLeft ==
  /\ at = "merge"
  /\ \E l \in lRest, r \in rRest :
       /\ First(lRest, l) /\ First(rRest, r) /\ code[l] = code[r]
       /\ lRest' = lRest \ {l} /\ UNCHANGED rRest
       /\ Compare(l, r)
  /\ UNCHANGED specs

MethodMatched ==
  /\ at = "merge"
  /\ \E l \in lRest, r \in rRest :
       /\ First(lRest, l) /\ First(rRest, r) /\ code[l] = code[r]
       /\ lRest' = lRest \ {l} /\ rRest' = rRest \ {r}
       /\ Compare(l, r)
  /\ UNCHANGED specs

Return ==
  /\ at = "merge" /\ lRest = {} /\ rRest = {}
  /\ at' = "done"
  /\ UNCHANGED <<specs, lRest, rRest, pair, lKeys, rKeys, count, typeDiff, diff>>

----------------------------------------------------------------------------
Init ==
  /\ lMethods \in UNION {[S -> Methods] : S \in SUBSET Ids}
  /\ rMethods \in UNION {[S -> Methods] : S \in SUBSET Ids}
  /\ code \in {f \in [Ids -> Ids] : \A i, j \in Ids : f[i] = f[j] => i = j}
  /\ lRest = DOMAIN lMethods /\ rRest = DOMAIN rMethods
  /\ at = "merge" /\ pair = NoPair /\ lKeys = {} /\ rKeys = {}
  /\ count = startCount /\ typeDiff = FALSE /\ diff = {}

Next ==
  \/ KeyAdded \/ KeyRemoved \/ KeyMatched
  \/ TypesCompared \/ ParamsCompared \/ BodiesCompared
  \/ MethodRemoved \/ MethodAdded \/ MethodMatched \/ Return

\* One synchronous call: it goes on as long as it can.
Spec == Init /\ [][Next]_vars /\ WF_vars(Next)

----------------------------------------------------------------------------
(* Properties.                                                             *)

Left  == DOMAIN lMethods
Right == DOMAIN rMethods

TypeOK ==
  /\ lRest \subseteq Left /\ rRest \subseteq Right /\ Left \union Right \subseteq Ids
  /\ at \in {"merge", "type", "params", "body", "done", "crashed"}
  /\ at \in {"type", "params", "body", "crashed"} => pair.l \in Left /\ pair.r \in Right
  /\ lKeys \subseteq Keys /\ rKeys \subseteq Keys
  /\ count \in [changed : Nat, added : 0..MaxAdded, removed : Nat]
  /\ typeDiff \in BOOLEAN
  /\ \A row \in diff : row.l \in Left \union {None} /\ row.r \in Right \union {None}

\* Two methods that a row should show.
TypesDiffer(lm, rm) ==
  IF lm.enum THEN DOMAIN lm.type # DOMAIN rm.type
  ELSE \/ Properties(lm) # Properties(rm)
       \/ \E k \in Properties(lm) : lm.type[k] # rm.type[k]

Differ(lm, rm) ==
  \/ lm.status # rm.status \/ lm.name # rm.name \/ lm.params # rm.params
  \/ lm.body # rm.body \/ lm.responses # rm.responses \/ TypesDiffer(lm, rm)

Shown == {<<row.l, row.r>> : row \in diff}

\* localeCompare and < order the ids of the two specifications alike.
OrdersAgree == \A i \in Left, j \in Right : i < j <=> code[i] < code[j]

\* The diff is exact if the orders agree: a method is shown as removed, or as
\* added, if it is on one side only; methods with the same id are compared with
\* each other, and shown if they differ in any part.  Where the orders disagree a
\* method of both sides may be shown as removed and as added (specDiff.ts:473).
DiffIsExact ==
  at = "done" /\ OrdersAgree =>
    Shown = {<<i, None>> : i \in Left \ Right} \union {<<None, i>> : i \in Right \ Left}
            \union {<<i, i>> : i \in {j \in Left \intersect Right :
                                        Differ(lMethods[j], rMethods[j])}}

\* Whatever the orders, nothing is overlooked: the two loops leave no method out,
\* and one that is missed on one side shows up on the other as well, as removed
\* and as added.
NothingOverlooked ==
  at = "done" =>
    /\ \A i \in Left \ Right : <<i, None>> \in Shown
    /\ \A i \in Right \ Left : <<None, i>> \in Shown
    /\ \A i \in Left \intersect Right :
         /\ <<i, None>> \in Shown <=> <<None, i>> \in Shown
         /\ Differ(lMethods[i], rMethods[i]) /\ <<i, None>> \notin Shown => <<i, i>> \in Shown

\* The diff shows what differs: exactly that if the orders agree, and no less in
\* any case.
DiffIsRight == DiffIsExact /\ NothingOverlooked

Changes(f, g) == {k \in DOMAIN f \intersect DOMAIN g : f[k] # g[k]}

\* The counts of a row are those of the sets of keys, whatever the merging of
\* countDiffs passed first: what only one side has in types, parameters and
\* bodies, and what both have with other values. An empty string among the
\* values of an enum is left out: it is miscounted.
CountsAreRight ==
  \A row \in {r \in diff : r.l # None /\ r.r # None} :
    LET lm == lMethods[row.l]
        rm == rMethods[row.r]
        l == [type |-> TypeKeys(lm, lm, rm), params |-> DOMAIN lm.params, body |-> DOMAIN lm.body]
        r == [type |-> TypeKeys(rm, lm, rm), params |-> DOMAIN rm.params, body |-> DOMAIN rm.body]
        Only(s, t) == Cardinality(s.type \ t.type) + Cardinality(s.params \ t.params) + Cardinality(s.body \ t.body)
    IN  Empty \notin l.type \union r.type =>
          row.count =
            [added |-> Only(r, l), removed |-> Only(l, r),
             changed |-> One(lm.status # rm.status) + Cardinality(Changes(lm.params, rm.params))
                         + (IF lm.enum \/ rm.enum THEN 0 ELSE Cardinality(Changes(lm.type, rm.type)))
                         + One(lm.body # rm.body) + One(lm.responses # rm.responses)]

\* Comparing ends, unless two enums are compared whose left one has an empty
\* string for a value: diffCompare takes it for no key and never passes it.
ComparingEnds ==
  (\A i \in Left \intersect Right :
     lMethods[i].enum /\ rMethods[i].enum => Empty \notin DOMAIN lMethods[i].type)
  => <>(at \in {"done", "crashed"})
=============================================================================
