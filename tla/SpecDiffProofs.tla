--------------------------- MODULE SpecDiffProofs ---------------------------
(***************************************************************************)
(* Proofs about the comparison of two specifications, for any methods and  *)
(* any two orders of their ids.                                            *)
(***************************************************************************)
EXTENDS SpecDiff, FiniteSetTheorems, WellFoundedInduction, NaturalsInduction, TLAPS

Busy == {"type", "params", "body", "crashed"}

Specs ==
  /\ Left \subseteq Ids /\ Right \subseteq Ids
  /\ \A i \in Left : lMethods[i] \in Methods
  /\ \A i \in Right : rMethods[i] \in Methods
  /\ code \in [Ids -> Ids] /\ \A i, j \in Ids : code[i] = code[j] => i = j

Types == Specs /\ TypeOK

----------------------------------------------------------------------------
(* Fronts of lists.                                                        *)

LEMMA FirstExists ==
  ASSUME NEW S \in SUBSET Nat, S # {}
  PROVE  \E i \in S : First(S, i)
<1> DEFINE R == {p \in Nat \X Nat : p[1] < p[2]}
<1>1. IsWellFoundedOn(R, Nat)
  BY NatLessThanWellFounded DEF OpToRel
<1>2. PICK x \in S : \A y \in S : ~ (<<y, x>> \in R)
  BY <1>1, WFMin
<1>3. ASSUME NEW y \in S PROVE x <= y
  <2>1. <<y, x>> \in Nat \X Nat
    OBVIOUS
  <2>2. x \in Nat /\ y \in Nat /\ ~(y < x)
    BY <1>2, <2>1
  <2>3. QED
    BY <2>2
<1>4. QED
  BY <1>3 DEF First

LEMMA FirstUnique ==
  ASSUME NEW S \in SUBSET Nat, NEW i, NEW j, First(S, i), First(S, j)
  PROVE  i = j
<1>1. i \in Nat /\ j \in Nat /\ i <= j /\ j <= i
  BY DEF First
<1>2. QED
  BY <1>1

\* The front is taken from the list, and nothing else.
LEMMA WithoutFirst ==
  ASSUME NEW S \in SUBSET Nat, NEW i, First(S, i)
  PROVE  Without(S) = S \ {i} /\ i \in S
BY FirstUnique DEF Without, First

LEMMA WithoutShrinks ==
  ASSUME NEW S PROVE Without(S) \subseteq S
BY DEF Without

----------------------------------------------------------------------------
(* Types.                                                                  *)

LEMMA NoneIsNoId == None \notin Ids
BY IdsAssumption DEF None

LEMMA PairTyped ==
  ASSUME Types, at \in Busy
  PROVE  lMethod \in Methods /\ rMethod \in Methods /\ pair.l \in Left /\ pair.r \in Right
BY DEF Types, Specs, TypeOK, Busy, lMethod, rMethod

LEMMA TypeKeysTyped ==
  ASSUME NEW m \in Methods, NEW lm, NEW rm PROVE TypeKeys(m, lm, rm) \subseteq Keys
BY MethodsAssumption DEF TypeKeys, Properties

LEMMA SpecsStay == ASSUME Specs, UNCHANGED specs PROVE Specs' /\ Left' = Left /\ Right' = Right
BY DEF Specs, specs, Left, Right

\* The steps of countDiffs.
KeyStep == KeyAdded \/ KeyRemoved \/ KeyMatched

LEMMA KeyStepTypes == ASSUME Types, KeyStep PROVE Types'
<1>1. UNCHANGED <<specs, lRest, rRest, at, pair, diff>> /\ typeDiff' \in BOOLEAN
  BY DEF KeyStep, KeyAdded, KeyRemoved, KeyMatched, Types, TypeOK, Changed, ValuesCompared
<1>2. lKeys' \subseteq lKeys /\ rKeys' \subseteq rKeys
  BY WithoutShrinks DEF KeyStep, KeyAdded, KeyRemoved, KeyMatched
<1>3. count' \in [changed : Nat, added : 0..MaxAdded, removed : Nat]
  <2>0. count \in [changed : Nat, added : 0..MaxAdded, removed : Nat]
    BY DEF Types, TypeOK
  <2>1. CASE KeyAdded
    <3>1. count.added + 1 \in 0..MaxAdded
      BY <2>0, <2>1, MaxAddedAssumption DEF KeyAdded
    <3>2. QED
      BY <2>0, <2>1, <3>1 DEF KeyAdded
  <2>2. CASE KeyRemoved
    BY <2>0, <2>2 DEF KeyRemoved
  <2>3. CASE KeyMatched
    BY <2>0, <2>3 DEF KeyMatched
  <2>4. QED
    BY <2>1, <2>2, <2>3 DEF KeyStep
<1>4. QED
  BY <1>1, <1>2, <1>3, SpecsStay DEF Types, TypeOK

LEMMA TypesComparedTypes == ASSUME Types, TypesCompared PROVE Types'
<1>1. lMethod \in Methods /\ rMethod \in Methods
  BY PairTyped DEF TypesCompared, Counted, Busy
<1>2. lKeys' \subseteq Keys /\ rKeys' \subseteq Keys
  BY <1>1, MethodsAssumption DEF TypesCompared
<1>3. QED
  BY <1>1, <1>2, SpecsStay DEF TypesCompared, Counted, Types, TypeOK

LEMMA ParamsComparedTypes == ASSUME Types, ParamsCompared PROVE Types'
<1>1. lMethod \in Methods /\ rMethod \in Methods
  BY PairTyped DEF ParamsCompared, Counted, Busy
<1>2. lKeys' \subseteq Keys /\ rKeys' \subseteq Keys
  BY <1>1, MethodsAssumption DEF ParamsCompared
<1>3. QED
  BY <1>1, <1>2, SpecsStay DEF ParamsCompared, Counted, Types, TypeOK

LEMMA StartCount == startCount \in [changed : Nat, added : 0..MaxAdded, removed : Nat]
BY MaxAddedAssumption DEF startCount

LEMMA BodiesComparedTypes == ASSUME Types, BodiesCompared PROVE Types'
<1>1. pair.l \in Left /\ pair.r \in Right
  BY PairTyped DEF BodiesCompared, Counted, Busy
<1>2. \A row \in diff' : row.l \in Left \union {None} /\ row.r \in Right \union {None}
  BY <1>1 DEF BodiesCompared, Types, TypeOK, Row
<1>3. QED
  BY <1>2, StartCount, SpecsStay DEF BodiesCompared, Types, TypeOK

LEMMA CompareTypes ==
  ASSUME Types, MethodMatched
  PROVE  Types'
<1>1. PICK l \in lRest, r \in rRest :
         /\ lRest' = lRest \ {l} /\ rRest' = rRest \ {r}
         /\ Compare(l, r) /\ UNCHANGED specs
  BY DEF MethodMatched
<1>2. l \in Left /\ r \in Right /\ lMethods[l] \in Methods /\ rMethods[r] \in Methods
  BY DEF Types, TypeOK, Specs
<1>3. lKeys' \subseteq Keys /\ rKeys' \subseteq Keys
  BY <1>1, <1>2, TypeKeysTyped DEF Compare
<1>4. count' \in [changed : Nat, added : 0..MaxAdded, removed : Nat]
  BY <1>1, StartCount DEF Compare, One
<1>5. pair'.l = l /\ pair'.r = r /\ at' \in {"type", "crashed"} /\ UNCHANGED <<typeDiff, diff>>
  BY <1>1 DEF Compare
<1>6. QED
  BY <1>1, <1>2, <1>3, <1>4, <1>5, SpecsStay DEF Types, TypeOK

LEMMA MethodRemovedTypes == ASSUME Types, MethodRemoved PROVE Types'
<1>1. PICK l \in lRest :
         /\ lRest' = lRest \ {l}
         /\ Push(Row(l, None, [startCount EXCEPT !.removed = 1]))
  BY DEF MethodRemoved
<1>2. \A row \in diff' : row.l \in Left \union {None} /\ row.r \in Right \union {None}
  BY <1>1 DEF Push, Row, Types, TypeOK
<1>3. QED
  BY <1>1, <1>2, SpecsStay DEF MethodRemoved, Push, Types, TypeOK

LEMMA MethodAddedTypes == ASSUME Types, MethodAdded PROVE Types'
<1>1. PICK r \in rRest :
         /\ rRest' = rRest \ {r}
         /\ Push(Row(None, r, [startCount EXCEPT !.added = 1]))
  BY DEF MethodAdded
<1>2. \A row \in diff' : row.l \in Left \union {None} /\ row.r \in Right \union {None}
  BY <1>1 DEF Push, Row, Types, TypeOK
<1>3. QED
  BY <1>1, <1>2, SpecsStay DEF MethodAdded, Push, Types, TypeOK

LEMMA ReturnTypes == ASSUME Types, Return PROVE Types'
BY SpecsStay DEF Return, Types, TypeOK

LEMMA InitTypes == ASSUME Init PROVE Types
<1>1. Specs
  BY DEF Init, Specs, Left, Right
<1>2. TypeOK
  BY <1>1, StartCount DEF Init, TypeOK, Specs, Left, Right
<1>3. QED
  BY <1>1, <1>2 DEF Types

LEMMA NextTypes == ASSUME Types, [Next]_vars PROVE Types'
<1>1. CASE UNCHANGED vars
  BY <1>1, SpecsStay DEF vars, Types, TypeOK
<1>2. CASE Next
  BY <1>2, KeyStepTypes, TypesComparedTypes, ParamsComparedTypes, BodiesComparedTypes, CompareTypes,
     MethodRemovedTypes, MethodAddedTypes, ReturnTypes DEF Next, KeyStep
<1>3. QED
  BY <1>1, <1>2

\* What compareSpecs keeps track of has its type: the ids compared are ids of
\* either side, the rows are about methods there are, the counts are counts.
THEOREM TypeCorrect == Spec => []TypeOK
<1>1. Types => TypeOK
  BY DEF Types
<1>2. QED
  BY <1>1, InitTypes, NextTypes, PTL DEF Spec

----------------------------------------------------------------------------
(* The merge of the two method lists.                                      *)

\* The methods with one id are passed together if the orders agree.
Paired ==
  /\ at \in Busy => pair.l = pair.r /\ pair.l \notin lRest /\ pair.r \notin rRest
  /\ at = "done" => lRest = {} /\ rRest = {}
  /\ OrdersAgree => \A i \in Left \intersect Right : i \in lRest <=> i \in rRest

LEMMA InitPaired == ASSUME Init PROVE Paired
BY DEF Init, Paired, Busy, Left, Right, OrdersAgree

\* A step that moves neither list, and begins no comparison.
LEMMA StayPaired ==
  ASSUME Types, Paired, UNCHANGED <<specs, lRest, rRest>>,
         \/ UNCHANGED pair /\ (at' \in Busy => at \in Busy) /\ at' # "done"
         \/ at' = "merge"
         \/ at' = "done" /\ lRest = {} /\ rRest = {}
  PROVE  Paired'
BY DEF Paired, specs, Left, Right, OrdersAgree, Busy

LEMMA RemovedPaired ==
  ASSUME Types, Paired, MethodRemoved
  PROVE  /\ Paired'
         /\ \E l \in lRest : /\ lRest' = lRest \ {l} /\ UNCHANGED rRest
                             /\ OrdersAgree => l \notin Right
                             /\ Push(Row(l, None, [startCount EXCEPT !.removed = 1]))
<1>1. PICK l \in lRest :
         /\ First(lRest, l)
         /\ \A r \in rRest : First(rRest, r) => code[l] < code[r]
         /\ lRest' = lRest \ {l}
         /\ Push(Row(l, None, [startCount EXCEPT !.removed = 1]))
  BY DEF MethodRemoved
<1>2. OrdersAgree => l \notin Right
  <2> SUFFICES ASSUME OrdersAgree, l \in Right PROVE FALSE
    OBVIOUS
  <2>1. l \in Left /\ l \in rRest /\ rRest \in SUBSET Nat
    BY IdsAssumption DEF Types, Specs, TypeOK, Paired
  <2>2. PICK r \in rRest : First(rRest, r)
    BY <2>1, FirstExists
  <2>3. r \in Right /\ r <= l /\ r \in Nat /\ l \in Nat /\ code[l] < code[r]
    BY <1>1, <2>1, <2>2 DEF First, Types, TypeOK
  <2>4. l < r
    BY <2>1, <2>3 DEF OrdersAgree
  <2>5. QED
    BY <2>3, <2>4
<1>3. UNCHANGED <<specs, rRest, at, pair>> /\ at = "merge"
  BY <1>1 DEF MethodRemoved, Push
<1>4. Left' = Left /\ Right' = Right /\ OrdersAgree' = OrdersAgree
  BY <1>3 DEF specs, Left, Right, OrdersAgree
<1>5. Paired'
  BY <1>1, <1>2, <1>3, <1>4 DEF Paired, Busy
<1>6. QED
  BY <1>1, <1>2, <1>3, <1>5

LEMMA AddedPaired ==
  ASSUME Types, Paired, MethodAdded
  PROVE  /\ Paired'
         /\ \E r \in rRest : /\ rRest' = rRest \ {r} /\ UNCHANGED lRest
                             /\ OrdersAgree => r \notin Left
                             /\ Push(Row(None, r, [startCount EXCEPT !.added = 1]))
<1>1. PICK r \in rRest :
         /\ First(rRest, r)
         /\ \A l \in lRest : First(lRest, l) => code[r] < code[l]
         /\ rRest' = rRest \ {r}
         /\ Push(Row(None, r, [startCount EXCEPT !.added = 1]))
  BY DEF MethodAdded
<1>2. OrdersAgree => r \notin Left
  <2> SUFFICES ASSUME OrdersAgree, r \in Left PROVE FALSE
    OBVIOUS
  <2>1. r \in Right /\ r \in lRest /\ lRest \in SUBSET Nat
    BY IdsAssumption DEF Types, Specs, TypeOK, Paired
  <2>2. PICK l \in lRest : First(lRest, l)
    BY <2>1, FirstExists
  <2>3. l \in Left /\ l <= r /\ l \in Nat /\ r \in Nat /\ code[r] < code[l]
    BY <1>1, <2>1, <2>2 DEF First, Types, TypeOK
  <2>4. code[l] \in Nat /\ code[r] \in Nat
    BY <2>1, <2>3, IdsAssumption DEF Types, Specs
  <2>5. l < r \/ l = r
    BY <2>3
  <2>6. CASE l < r
    <3>1. code[l] < code[r]
      BY <2>1, <2>3, <2>6 DEF OrdersAgree
    <3>2. QED
      BY <2>3, <2>4, <3>1
  <2>7. CASE l = r
    BY <2>3, <2>4, <2>7
  <2>8. QED
    BY <2>5, <2>6, <2>7
<1>3. UNCHANGED <<specs, lRest, at, pair>> /\ at = "merge"
  BY <1>1 DEF MethodAdded, Push
<1>4. Left' = Left /\ Right' = Right /\ OrdersAgree' = OrdersAgree
  BY <1>3 DEF specs, Left, Right, OrdersAgree
<1>5. Paired'
  BY <1>1, <1>2, <1>3, <1>4 DEF Paired, Busy
<1>6. QED
  BY <1>1, <1>2, <1>3, <1>5

LEMMA MatchedPaired ==
  ASSUME Types, Paired, MethodMatched
  PROVE  /\ Paired'
         /\ \E i \in lRest \intersect rRest :
              lRest' = lRest \ {i} /\ rRest' = rRest \ {i} /\ Compare(i, i)
<1>1. PICK l \in lRest, r \in rRest :
         /\ code[l] = code[r] /\ lRest' = lRest \ {l} /\ rRest' = rRest \ {r}
         /\ Compare(l, r) /\ UNCHANGED specs
  BY DEF MethodMatched
<1>2. l = r
  BY <1>1 DEF Types, Specs, TypeOK
<1>3. Left' = Left /\ Right' = Right /\ OrdersAgree' = OrdersAgree
  BY <1>1 DEF specs, Left, Right, OrdersAgree
<1>4. pair'.l = l /\ pair'.r = r /\ at' \in {"type", "crashed"}
  BY <1>1 DEF Compare
<1>5. Paired'
  BY <1>1, <1>2, <1>3, <1>4 DEF Paired
<1>6. QED
  BY <1>1, <1>2, <1>5

LEMMA NextPaired == ASSUME Types, Paired, [Next]_vars PROVE Paired'
<1>1. CASE UNCHANGED vars
  BY <1>1 DEF vars, specs, Paired, Left, Right, OrdersAgree
<1>2. CASE KeyStep \/ TypesCompared \/ ParamsCompared
  <2>1. UNCHANGED <<specs, lRest, rRest, pair>> /\ (at' \in Busy => at \in Busy) /\ at' # "done"
    BY <1>2 DEF KeyStep, KeyAdded, KeyRemoved, KeyMatched, Counting, TypesCompared,
       ParamsCompared, Counted, Busy
  <2>2. QED
    BY <2>1, StayPaired
<1>3. CASE BodiesCompared
  BY <1>3, StayPaired DEF BodiesCompared
<1>4. CASE Return
  BY <1>4, StayPaired DEF Return
<1>5. QED
  BY <1>1, <1>2, <1>3, <1>4, RemovedPaired, AddedPaired, MatchedPaired DEF Next, KeyStep

----------------------------------------------------------------------------
(* The merge of the keys of two types.                                     *)

\* The keys of the two types under comparison that are merged.
lTypeKeys == TypeKeys(lMethod, lMethod, rMethod)
rTypeKeys == TypeKeys(rMethod, lMethod, rMethod)

\* A key that makes a type difference.
KeyDiffers(k) ==
  \/ k \notin lTypeKeys \/ k \notin rTypeKeys
  \/ lMethod.type[k] # rMethod.type[k]

Merging ==
  /\ lKeys \subseteq lTypeKeys /\ rKeys \subseteq rTypeKeys
  /\ \A k \in lTypeKeys \intersect rTypeKeys : k \in lKeys <=> k \in rKeys
  /\ typeDiff <=> \E k \in (lTypeKeys \ lKeys) \union (rTypeKeys \ rKeys) : KeyDiffers(k)

\* typeDiff is what it is for: the types differ.
TypeDiffTells ==
  /\ at = "merge" => ~typeDiff
  /\ at \in {"type", "params", "body"} => ~Unreadable(pair.l, pair.r)
  /\ at = "type" /\ ~lMethod.enum => Merging
  /\ at \in {"params", "body"} => (typeDiff <=> TypesDiffer(lMethod, rMethod))

LEMMA InitTells == ASSUME Init PROVE TypeDiffTells
BY DEF Init, TypeDiffTells

\* No property is named by the empty string.
LEMMA NoEmptyProperty ==
  ASSUME Types, at = "type", ~lMethod.enum
  PROVE  Empty \notin lTypeKeys /\ Empty \notin rTypeKeys
<1>1. lMethod \in Methods /\ rMethod \in Methods
  BY PairTyped DEF Busy
<1>2. QED
  BY <1>1, MethodsAssumption DEF lTypeKeys, rTypeKeys, TypeKeys, Properties

LEMMA KeyStepMerging ==
  ASSUME Types, at = "type", ~lMethod.enum, Merging, KeyStep
  PROVE  Merging'
<1>1. /\ UNCHANGED <<lMethod, rMethod, lTypeKeys, rTypeKeys>>
      /\ \A k : KeyDiffers(k)' = KeyDiffers(k)
  BY DEF KeyStep, KeyAdded, KeyRemoved, KeyMatched, specs, lMethod, rMethod, lTypeKeys,
     rTypeKeys, KeyDiffers
<1>2. lKeys \in SUBSET Nat /\ rKeys \in SUBSET Nat
  BY KeysAssumption DEF Types, TypeOK
<1>3. Empty \notin lKeys /\ Empty \notin rKeys
  BY NoEmptyProperty DEF Merging
<1>4. CASE KeyAdded
  <2>1. rKeys # {} /\ (lKeys # {} => Before(rKeys, lKeys))
    BY <1>3, <1>4 DEF KeyAdded, Counting, LeftMissing, HasKey
  <2>2. PICK r \in rKeys : First(rKeys, r)
    BY <1>2, <2>1, FirstExists
  <2>3. rKeys' = rKeys \ {r} /\ lKeys' = lKeys /\ typeDiff'
    BY <1>2, <1>4, <2>2, WithoutFirst DEF KeyAdded
  <2>4. r \notin lKeys
    <3>1. CASE lKeys = {}
      BY <3>1
    <3>2. CASE lKeys # {}
      <4>1. PICK i \in rKeys : First(rKeys, i) /\ \A j \in lKeys : i < j
        BY <2>1, <3>2 DEF Before
      <4>2. i = r /\ r \in Nat
        BY <1>2, <2>2, <4>1, FirstUnique
      <4>3. QED
        BY <4>1, <4>2
    <3>3. QED
      BY <3>1, <3>2
  <2>5. r \notin lTypeKeys /\ r \in rTypeKeys
    BY <2>2, <2>4 DEF Merging
  <2>6. KeyDiffers(r)
    BY <2>5 DEF KeyDiffers
  <2>7. QED
    BY <1>1, <2>3, <2>5, <2>6 DEF Merging
<1>5. CASE KeyRemoved
  <2>1. lKeys # {} /\ (rKeys # {} => Before(lKeys, rKeys))
    BY <1>3, <1>5 DEF KeyRemoved, Counting, RightMissing, HasKey
  <2>2. PICK l \in lKeys : First(lKeys, l)
    BY <1>2, <2>1, FirstExists
  <2>3. lKeys' = lKeys \ {l} /\ rKeys' = rKeys /\ typeDiff'
    BY <1>2, <1>5, <2>2, WithoutFirst DEF KeyRemoved
  <2>4. l \notin rKeys
    <3>1. CASE rKeys = {}
      BY <3>1
    <3>2. CASE rKeys # {}
      <4>1. PICK i \in lKeys : First(lKeys, i) /\ \A j \in rKeys : i < j
        BY <2>1, <3>2 DEF Before
      <4>2. i = l /\ l \in Nat
        BY <1>2, <2>2, <4>1, FirstUnique
      <4>3. QED
        BY <4>1, <4>2
    <3>3. QED
      BY <3>1, <3>2
  <2>5. l \notin rTypeKeys /\ l \in lTypeKeys
    BY <2>2, <2>4 DEF Merging
  <2>6. KeyDiffers(l)
    BY <2>5 DEF KeyDiffers
  <2>7. QED
    BY <1>1, <2>3, <2>5, <2>6 DEF Merging
<1>6. CASE KeyMatched
  <2>1. lKeys # {} /\ rKeys # {} /\ ~Before(lKeys, rKeys) /\ ~Before(rKeys, lKeys)
    BY <1>3, <1>6 DEF KeyMatched, LeftMissing, RightMissing, HasKey
  <2>2. PICK l \in lKeys, r \in rKeys : First(lKeys, l) /\ First(rKeys, r)
    BY <1>2, <2>1, FirstExists
  <2>3. l = r
    <3>1. l \in Nat /\ r \in Nat
      BY <1>2
    <3>2. PICK j \in rKeys : ~(l < j)
      BY <2>1, <2>2 DEF Before
    <3>3. PICK i \in lKeys : ~(r < i)
      BY <2>1, <2>2 DEF Before
    <3>4. r <= j /\ l <= i /\ i \in Nat /\ j \in Nat
      BY <1>2, <2>2 DEF First
    <3>5. QED
      BY <3>1, <3>2, <3>3, <3>4
  <2>4. lKeys' = lKeys \ {l} /\ rKeys' = rKeys \ {l}
    BY <1>2, <1>6, <2>2, <2>3, WithoutFirst DEF KeyMatched
  <2>5. l \in lTypeKeys /\ l \in rTypeKeys
    BY <2>2, <2>3 DEF Merging
  <2>6. Changed <=> lMethod.type[l] # rMethod.type[l]
    <3>1. Changed <=> \E k \in lKeys : First(lKeys, k) /\ lMethod[at][k] # rMethod[at][k]
      BY DEF Changed, ValuesCompared
    <3>2. \A k \in lKeys : First(lKeys, k) => k = l
      BY <1>2, <2>2, FirstUnique
    <3>3. lMethod[at] = lMethod.type /\ rMethod[at] = rMethod.type
      OBVIOUS
    <3>4. QED
      BY <2>2, <3>1, <3>2, <3>3
  <2>7. typeDiff' <=> typeDiff \/ KeyDiffers(l)
    BY <1>6, <2>5, <2>6 DEF KeyMatched, KeyDiffers
  <2>8. QED
    BY <1>1, <2>2, <2>3, <2>4, <2>5, <2>7 DEF Merging
<1>7. QED
  BY <1>4, <1>5, <1>6 DEF KeyStep

\* At the end of the merge.
LEMMA MergedTells ==
  ASSUME Types, at = "type", ~lMethod.enum, Merging, lKeys = {}, rKeys = {}
  PROVE  typeDiff <=> TypesDiffer(lMethod, rMethod)
<1>1. typeDiff <=> \E k \in lTypeKeys \union rTypeKeys : KeyDiffers(k)
  BY DEF Merging
<1>2. CASE ~rMethod.enum /\ lMethod.type = rMethod.type
  <2>1. lTypeKeys = {} /\ rTypeKeys = {}
    BY <1>2 DEF lTypeKeys, rTypeKeys, TypeKeys
  <2>2. ~TypesDiffer(lMethod, rMethod)
    BY <1>2 DEF TypesDiffer, Properties
  <2>3. QED
    BY <1>1, <2>1, <2>2
<1>3. CASE ~(~rMethod.enum /\ lMethod.type = rMethod.type)
  <2>1. lTypeKeys = Properties(lMethod) /\ rTypeKeys = Properties(rMethod)
    BY <1>3 DEF lTypeKeys, rTypeKeys, TypeKeys
  <2>2. TypesDiffer(lMethod, rMethod) <=>
          \/ Properties(lMethod) # Properties(rMethod)
          \/ \E k \in Properties(lMethod) : lMethod.type[k] # rMethod.type[k]
    BY DEF TypesDiffer
  <2>3. QED
    BY <1>1, <2>1, <2>2 DEF KeyDiffers
<1>4. QED
  BY <1>2, <1>3

LEMMA CompareTells ==
  ASSUME Types, TypeDiffTells, at = "merge", UNCHANGED specs,
         NEW i \in Left, i \in Right, Compare(i, i)
  PROVE  TypeDiffTells'
<1>1. lMethod' = lMethods[i] /\ rMethod' = rMethods[i] /\ ~typeDiff'
  BY DEF Compare, lMethod, rMethod, specs, TypeDiffTells
<1>2. lKeys' = lTypeKeys' /\ rKeys' = rTypeKeys'
  BY <1>1 DEF Compare, lTypeKeys, rTypeKeys
<1>3. at' = (IF Unreadable(i, i) THEN "crashed" ELSE "type") /\ pair'.l = i /\ pair'.r = i
  BY DEF Compare
<1>4. Unreadable(pair.l, pair.r)' = Unreadable(i, i)
  BY <1>3 DEF Unreadable, specs
<1>5. Merging'
  BY <1>1, <1>2 DEF Merging
<1>6. QED
  BY <1>1, <1>3, <1>4, <1>5 DEF TypeDiffTells

LEMMA NextTells == ASSUME Types, Paired, TypeDiffTells, [Next]_vars PROVE TypeDiffTells'
<1>1. CASE UNCHANGED vars
  <2>1. UNCHANGED <<specs, pair, at, lKeys, rKeys, typeDiff>>
    BY <1>1 DEF vars
  <2>2. /\ UNCHANGED <<lMethod, rMethod, lTypeKeys, rTypeKeys>>
        /\ \A k : KeyDiffers(k)' = KeyDiffers(k)
    BY <2>1 DEF specs, lMethod, rMethod, lTypeKeys, rTypeKeys, KeyDiffers
  <2>3. Merging' = Merging /\ Unreadable(pair.l, pair.r)' = Unreadable(pair.l, pair.r)
    BY <2>1, <2>2 DEF Merging, Unreadable, specs
  <2>4. QED
    BY <2>1, <2>2, <2>3 DEF TypeDiffTells
<1>2. CASE KeyStep
  <2>1. UNCHANGED <<specs, pair, at>> /\ at \in {"type", "params", "body"}
    BY <1>2 DEF KeyStep, KeyAdded, KeyRemoved, KeyMatched, Counting
  <2>2. UNCHANGED <<lMethod, rMethod>> /\ Unreadable(pair.l, pair.r)' = Unreadable(pair.l, pair.r)
    BY <2>1 DEF specs, lMethod, rMethod, Unreadable
  <2>3. at # "type" => UNCHANGED typeDiff
    BY <1>2 DEF KeyStep, KeyAdded, KeyRemoved, KeyMatched, TypeDiffTells, Types, TypeOK
  <2>4. at = "type" /\ ~lMethod.enum => Merging'
    BY <1>2, KeyStepMerging DEF TypeDiffTells
  <2>5. QED
    BY <2>1, <2>2, <2>3, <2>4 DEF TypeDiffTells
<1>3. CASE TypesCompared
  <2>1. at = "type" /\ at' = "params" /\ lKeys = {} /\ rKeys = {} /\ UNCHANGED <<specs, pair>>
    BY <1>3 DEF TypesCompared, Counted
  <2>2. UNCHANGED <<lMethod, rMethod>> /\ Unreadable(pair.l, pair.r)' = Unreadable(pair.l, pair.r)
    BY <2>1 DEF specs, lMethod, rMethod, Unreadable
  <2>3. typeDiff' <=> TypesDiffer(lMethod, rMethod)
    <3>1. CASE lMethod.enum
      BY <1>3, <3>1 DEF TypesCompared, TypesDiffer
    <3>2. CASE ~lMethod.enum
      BY <1>3, <2>1, <3>2, MergedTells DEF TypesCompared, TypeDiffTells
    <3>3. QED
      BY <3>1, <3>2
  <2>4. QED
    BY <2>1, <2>2, <2>3 DEF TypeDiffTells
<1>4. CASE ParamsCompared
  <2>1. at = "params" /\ at' = "body" /\ UNCHANGED <<specs, pair, typeDiff>>
    BY <1>4 DEF ParamsCompared, Counted
  <2>2. UNCHANGED <<lMethod, rMethod>> /\ Unreadable(pair.l, pair.r)' = Unreadable(pair.l, pair.r)
    BY <2>1 DEF specs, lMethod, rMethod, Unreadable
  <2>3. QED
    BY <2>1, <2>2 DEF TypeDiffTells
<1>5. CASE BodiesCompared
  BY <1>5 DEF BodiesCompared, TypeDiffTells
<1>6. CASE MethodRemoved \/ MethodAdded
  BY <1>6 DEF MethodRemoved, MethodAdded, Push, TypeDiffTells
<1>7. CASE MethodMatched
  <2>1. PICK i \in lRest \intersect rRest : Compare(i, i)
    BY <1>7, MatchedPaired
  <2>2. QED
    BY <1>7, <2>1, CompareTells DEF MethodMatched, Types, TypeOK
<1>8. CASE Return
  BY <1>8 DEF Return, TypeDiffTells
<1>9. QED
  BY <1>1, <1>2, <1>3, <1>4, <1>5, <1>6, <1>7, <1>8 DEF Next, KeyStep

----------------------------------------------------------------------------
(* The rows.                                                               *)

Pushed == <<pair.l, pair.r>>
DifferAt(i) == Differ(lMethods[i], rMethods[i])

\* A row says what is so.
RowTrue(l, r) ==
  /\ l = None => r \in Right /\ (OrdersAgree => r \notin Left)
  /\ r = None => l \in Left /\ (OrdersAgree => l \notin Right)
  /\ l # None /\ r # None => l = r /\ l \in Left \intersect Right /\ DifferAt(l)

\* What was passed is shown.
RowsThere ==
  /\ \A i \in Left \ lRest : i \notin Right => <<i, None>> \in Shown
  /\ \A i \in Right \ rRest : i \notin Left => <<None, i>> \in Shown
  /\ OrdersAgree => \A i \in (Left \intersect Right) \ lRest :
       DifferAt(i) => <<i, i>> \in Shown \/ (at \in Busy /\ pair.l = i)

Rows == (\A row \in diff : RowTrue(row.l, row.r)) /\ RowsThere

LEMMA InitRows == ASSUME Init PROVE Rows
BY DEF Init, Rows, RowsThere, Left, Right

LEMMA SpecsSame ==
  ASSUME UNCHANGED specs
  PROVE  /\ Left' = Left /\ Right' = Right /\ OrdersAgree' = OrdersAgree
         /\ \A i : DifferAt(i)' = DifferAt(i)
         /\ \A l, r : RowTrue(l, r)' = RowTrue(l, r)
BY DEF specs, Left, Right, OrdersAgree, DifferAt, RowTrue

LEMMA PushShows ==
  ASSUME NEW l, NEW r, NEW c, diff' = diff \union {Row(l, r, c)}
  PROVE  /\ Shown' = Shown \union {<<l, r>>}
         /\ RowTrue(l, r)' /\ (\A row \in diff : RowTrue(row.l, row.r)')
              => \A row \in diff' : RowTrue(row.l, row.r)'
<1>1. Row(l, r, c).l = l /\ Row(l, r, c).r = r
  BY DEF Row
<1>2. QED
  BY <1>1 DEF Shown

LEMMA NextRows ==
  ASSUME Types, Paired, TypeDiffTells, Rows, [Next]_vars
  PROVE  Rows'
<1>0. UNCHANGED specs
  BY DEF Next, vars, KeyAdded, KeyRemoved, KeyMatched, TypesCompared, ParamsCompared,
     BodiesCompared, MethodRemoved, MethodAdded, MethodMatched, Return
<1>1. CASE /\ UNCHANGED <<lRest, rRest, diff>>
           /\ (at \in Busy => at' \in Busy /\ pair' = pair)
  <2>1. Shown' = Shown
    BY <1>1 DEF Shown
  <2>2. QED
    BY <1>0, <1>1, <2>1, SpecsSame DEF Rows, RowsThere
<1>2. CASE BodiesCompared
  <2>1. at = "body" /\ at' = "merge" /\ UNCHANGED <<lRest, rRest>> /\ ~Unreadable(pair.l, pair.r)
    BY <1>2 DEF BodiesCompared, Counted, TypeDiffTells
  <2>2. includeDiffs <=> DifferAt(pair.l)
    <3>1. typeDiff <=> TypesDiffer(lMethod, rMethod)
      BY <2>1 DEF TypeDiffTells
    <3>2. pair.l = pair.r
      BY <2>1 DEF Paired, Busy
    <3>3. QED
      BY <3>1, <3>2 DEF includeDiffs, ParamsDiff, BodyDiff, ResponseDiff, DifferAt, Differ,
         lMethod, rMethod
  <2>3. pair.l = pair.r /\ pair.l \in Left \intersect Right /\ pair.l # None
    BY <2>1, PairTyped, NoneIsNoId DEF Paired, Busy, Types, Specs
  <2>4. CASE includeDiffs
    <3>1. PICK c : diff' = diff \union {Row(pair.l, pair.r, c)}
      BY <1>2, <2>4 DEF BodiesCompared
    <3>2. Shown' = Shown \union {<<pair.l, pair.r>>}
      BY <3>1, PushShows
    <3>3. RowTrue(pair.l, pair.r)
      BY <2>2, <2>3, <2>4 DEF RowTrue
    <3>4. \A row \in diff' : RowTrue(row.l, row.r)'
      BY <1>0, <3>1, <3>3, PushShows, SpecsSame DEF Rows
    <3>5. QED
      BY <1>0, <2>1, <2>3, <3>2, <3>4, SpecsSame DEF Rows, RowsThere
  <2>5. CASE ~includeDiffs
    <3>1. diff' = diff /\ Shown' = Shown
      BY <1>2, <2>5 DEF BodiesCompared, Shown
    <3>2. QED
      BY <1>0, <2>1, <2>2, <2>5, <3>1, SpecsSame DEF Rows, RowsThere
  <2>6. QED
    BY <2>4, <2>5
<1>3. CASE MethodRemoved
  <2>1. PICK l \in lRest : /\ lRest' = lRest \ {l} /\ UNCHANGED rRest
                           /\ OrdersAgree => l \notin Right
                           /\ Push(Row(l, None, [startCount EXCEPT !.removed = 1]))
    BY <1>3, RemovedPaired
  <2>2. /\ UNCHANGED <<at, pair>>
        /\ diff' = diff \union {Row(l, None, [startCount EXCEPT !.removed = 1])}
    BY <2>1 DEF Push
  <2>3. l \in Left /\ l # None
    BY NoneIsNoId DEF Types, Specs, TypeOK
  <2>4. RowTrue(l, None)
    BY <2>1, <2>3 DEF RowTrue
  <2>5. Shown' = Shown \union {<<l, None>>} /\ \A row \in diff' : RowTrue(row.l, row.r)'
    BY <1>0, <2>2, <2>4, PushShows, SpecsSame DEF Rows
  <2>6. QED
    BY <1>0, <2>1, <2>2, <2>5, SpecsSame DEF Rows, RowsThere
<1>4. CASE MethodAdded
  <2>1. PICK r \in rRest : /\ rRest' = rRest \ {r} /\ UNCHANGED lRest
                           /\ OrdersAgree => r \notin Left
                           /\ Push(Row(None, r, [startCount EXCEPT !.added = 1]))
    BY <1>4, AddedPaired
  <2>2. /\ UNCHANGED <<at, pair>>
        /\ diff' = diff \union {Row(None, r, [startCount EXCEPT !.added = 1])}
    BY <2>1 DEF Push
  <2>3. r \in Right /\ r # None
    BY NoneIsNoId DEF Types, Specs, TypeOK
  <2>4. RowTrue(None, r)
    BY <2>1, <2>3 DEF RowTrue
  <2>5. Shown' = Shown \union {<<None, r>>} /\ \A row \in diff' : RowTrue(row.l, row.r)'
    BY <1>0, <2>2, <2>4, PushShows, SpecsSame DEF Rows
  <2>6. QED
    BY <1>0, <2>1, <2>2, <2>5, SpecsSame DEF Rows, RowsThere
<1>5. CASE MethodMatched
  <2>1. PICK i \in lRest \intersect rRest :
          lRest' = lRest \ {i} /\ rRest' = rRest \ {i} /\ Compare(i, i)
    BY <1>5, MatchedPaired
  <2>2. pair'.l = i /\ at' \in Busy /\ diff' = diff /\ Shown' = Shown /\ at = "merge"
    BY <1>5, <2>1 DEF Compare, Busy, Shown, MethodMatched
  <2>3. i \in Left /\ i \in Right
    BY DEF Types, TypeOK
  <2>4. at \notin Busy
    BY <2>2 DEF Busy
  <2>5. QED
    BY <1>0, <2>1, <2>2, <2>3, <2>4, SpecsSame DEF Rows, RowsThere
<1>6. CASE KeyStep \/ TypesCompared \/ ParamsCompared \/ Return \/ UNCHANGED vars
  <2>1. /\ UNCHANGED <<lRest, rRest, diff>>
        /\ (at \in Busy => at' \in Busy /\ pair' = pair)
    BY <1>6 DEF KeyStep, KeyAdded, KeyRemoved, KeyMatched, TypesCompared, ParamsCompared, Return,
       vars, Busy
  <2>2. QED
    BY <1>1, <2>1
<1>7. QED
  BY <1>2, <1>3, <1>4, <1>5, <1>6 DEF Next, KeyStep

----------------------------------------------------------------------------
(* The theorem.                                                            *)

IInv == Types /\ Paired /\ TypeDiffTells /\ Rows

LEMMA InvImpliesExact == ASSUME IInv PROVE DiffIsExact
<1> SUFFICES ASSUME at = "done", OrdersAgree
             PROVE  Shown = {<<i, None>> : i \in Left \ Right}
                            \union {<<None, i>> : i \in Right \ Left}
                            \union {<<i, i>> : i \in {j \in Left \intersect Right :
                                                        Differ(lMethods[j], rMethods[j])}}
  BY DEF DiffIsExact
<1>1. lRest = {} /\ rRest = {} /\ at \notin Busy
  BY DEF IInv, Paired, Busy
<1>2. ASSUME NEW row \in diff
      PROVE  \/ \E i \in Left \ Right : <<row.l, row.r>> = <<i, None>>
             \/ \E i \in Right \ Left : <<row.l, row.r>> = <<None, i>>
             \/ \E i \in {j \in Left \intersect Right : Differ(lMethods[j], rMethods[j])} :
                  <<row.l, row.r>> = <<i, i>>
  <2>1. RowTrue(row.l, row.r)
    BY DEF IInv, Rows
  <2>2. QED
    BY <2>1 DEF RowTrue, DifferAt
<1>3. \A i \in Left \ Right : <<i, None>> \in Shown
  BY <1>1 DEF IInv, Rows, RowsThere
<1>4. \A i \in Right \ Left : <<None, i>> \in Shown
  BY <1>1 DEF IInv, Rows, RowsThere
<1>5. \A i \in Left \intersect Right : Differ(lMethods[i], rMethods[i]) => <<i, i>> \in Shown
  BY <1>1 DEF IInv, Rows, RowsThere, DifferAt
<1>6. QED
  BY <1>2, <1>3, <1>4, <1>5 DEF Shown

LEMMA InvInitially == ASSUME Init PROVE IInv
BY InitTypes, InitPaired, InitTells, InitRows DEF IInv

LEMMA InvNext == ASSUME IInv, [Next]_vars PROVE IInv'
BY NextTypes, NextPaired, NextTells, NextRows DEF IInv

\* If localeCompare and < order the ids alike, compareSpecs reports exactly the
\* methods of one side only and the pairs with the same id that differ.
THEOREM DiffIsExactAlways == Spec => []DiffIsExact
<1>1. IInv => DiffIsExact
  BY InvImpliesExact
<1>2. Init => IInv
  BY InvInitially
<1>3. IInv /\ [Next]_vars => IInv'
  BY InvNext
<1>4. QED
  BY <1>1, <1>2, <1>3, PTL DEF Spec

----------------------------------------------------------------------------
(* Whatever the orders.                                                    *)

\* A method of both sides is passed alone on each, and shown twice, or with the
\* other one.
Alone(i) ==
  /\ <<i, None>> \in Shown => i \notin lRest
  /\ <<None, i>> \in Shown => i \notin rRest
  /\ i \notin lRest /\ <<i, None>> \notin Shown <=> i \notin rRest /\ <<None, i>> \notin Shown
  /\ i \notin lRest /\ <<i, None>> \notin Shown /\ DifferAt(i)
       => <<i, i>> \in Shown \/ (at \in Busy /\ pair.l = i)

EachOne == \A i \in Left \intersect Right : Alone(i)

LEMMA InitEachOne == ASSUME Init PROVE EachOne
BY DEF Init, EachOne, Alone, Shown, Left, Right

LEMMA NextEachOne ==
  ASSUME IInv, EachOne, [Next]_vars
  PROVE  EachOne'
<1> USE DEF IInv
<1>0. UNCHANGED specs /\ \A i \in Left \intersect Right : i # None
  BY NoneIsNoId DEF Types, Specs, Next, vars, KeyAdded, KeyRemoved, KeyMatched, TypesCompared,
     ParamsCompared, BodiesCompared, MethodRemoved, MethodAdded, MethodMatched, Return
<1>1. CASE /\ UNCHANGED <<lRest, rRest, diff>>
           /\ (at \in Busy => at' \in Busy /\ pair' = pair)
  <2>1. Shown' = Shown
    BY <1>1 DEF Shown
  <2>2. QED
    BY <1>0, <1>1, <2>1, SpecsSame DEF EachOne, Alone
<1>2. CASE BodiesCompared
  <2>1. at = "body" /\ at' = "merge" /\ UNCHANGED <<lRest, rRest>>
    BY <1>2 DEF BodiesCompared, Counted
  <2>2. includeDiffs <=> DifferAt(pair.l)
    <3>1. typeDiff <=> TypesDiffer(lMethod, rMethod)
      BY <2>1 DEF TypeDiffTells
    <3>2. pair.l = pair.r
      BY <2>1 DEF Paired, Busy
    <3>3. QED
      BY <3>1, <3>2 DEF includeDiffs, ParamsDiff, BodyDiff, ResponseDiff, DifferAt, Differ,
         lMethod, rMethod
  <2>3. pair.l = pair.r /\ pair.l # None
    BY <2>1, PairTyped, NoneIsNoId DEF Paired, Busy, Types, Specs
  <2>4. \/ includeDiffs /\ Shown' = Shown \union {<<pair.l, pair.r>>}
        \/ ~includeDiffs /\ Shown' = Shown
    <3>1. CASE includeDiffs
      <4>1. PICK c : diff' = diff \union {Row(pair.l, pair.r, c)}
        BY <1>2, <3>1 DEF BodiesCompared
      <4>2. QED
        BY <3>1, <4>1, PushShows
    <3>2. CASE ~includeDiffs
      BY <1>2, <3>2 DEF BodiesCompared, Shown
    <3>3. QED
      BY <3>1, <3>2
  <2>5. ASSUME NEW i \in Left \intersect Right PROVE Alone(i)'
    <3>1. Alone(i) /\ i # None /\ DifferAt(i)' = DifferAt(i)
      BY <1>0, SpecsSame DEF EachOne
    <3>2. <<i, None>> \in Shown' <=> <<i, None>> \in Shown
      BY <2>3, <2>4
    <3>3. <<None, i>> \in Shown' <=> <<None, i>> \in Shown
      BY <2>3, <2>4
    <3>4. <<i, i>> \in Shown \/ (pair.l = i /\ DifferAt(i)) => <<i, i>> \in Shown'
      BY <2>2, <2>3, <2>4
    <3>5. QED
      BY <2>1, <3>1, <3>2, <3>3, <3>4 DEF Alone
  <2>6. QED
    BY <1>0, <2>5, SpecsSame DEF EachOne
<1>3. CASE MethodRemoved
  <2>1. PICK l \in lRest : /\ lRest' = lRest \ {l} /\ UNCHANGED rRest
                           /\ Push(Row(l, None, [startCount EXCEPT !.removed = 1]))
    BY <1>3, RemovedPaired
  <2>2. UNCHANGED <<at, pair>> /\ Shown' = Shown \union {<<l, None>>}
    BY <2>1, PushShows DEF Push
  <2>3. QED
    BY <1>0, <2>1, <2>2, SpecsSame DEF EachOne, Alone
<1>4. CASE MethodAdded
  <2>1. PICK r \in rRest : /\ rRest' = rRest \ {r} /\ UNCHANGED lRest
                           /\ Push(Row(None, r, [startCount EXCEPT !.added = 1]))
    BY <1>4, AddedPaired
  <2>2. UNCHANGED <<at, pair>> /\ Shown' = Shown \union {<<None, r>>}
    BY <2>1, PushShows DEF Push
  <2>3. QED
    BY <1>0, <2>1, <2>2, SpecsSame DEF EachOne, Alone
<1>5. CASE MethodMatched
  <2>1. PICK i \in lRest \intersect rRest :
          lRest' = lRest \ {i} /\ rRest' = rRest \ {i} /\ Compare(i, i)
    BY <1>5, MatchedPaired
  <2>2. pair'.l = i /\ at' \in Busy /\ Shown' = Shown /\ at \notin Busy
    BY <1>5, <2>1 DEF Compare, Busy, Shown, MethodMatched
  <2>3. QED
    BY <1>0, <2>1, <2>2, SpecsSame DEF EachOne, Alone
<1>6. CASE KeyStep \/ TypesCompared \/ ParamsCompared \/ Return \/ UNCHANGED vars
  <2>1. /\ UNCHANGED <<lRest, rRest, diff>>
        /\ (at \in Busy => at' \in Busy /\ pair' = pair)
    BY <1>6 DEF KeyStep, KeyAdded, KeyRemoved, KeyMatched, TypesCompared, ParamsCompared, Return,
       vars, Busy
  <2>2. QED
    BY <1>1, <2>1
<1>7. QED
  BY <1>2, <1>3, <1>4, <1>5, <1>6 DEF Next, KeyStep

\* The loop of compareSpecs overlooks nothing, in whatever order < puts the ids:
\* a method that is not compared with its like shows up as removed and as added.
THEOREM NothingIsOverlooked == Spec => []NothingOverlooked
<1>1. IInv /\ EachOne => NothingOverlooked
  <2> SUFFICES ASSUME IInv, EachOne, at = "done" PROVE NothingOverlooked
    BY DEF NothingOverlooked
  <2>1. lRest = {} /\ rRest = {} /\ at \notin Busy
    BY DEF IInv, Paired, Busy
  <2>2. QED
    BY <2>1 DEF IInv, Rows, RowsThere, EachOne, Alone, NothingOverlooked, DifferAt
<1>2. Init => IInv /\ EachOne
  BY InvInitially, InitEachOne
<1>3. IInv /\ EachOne /\ [Next]_vars => (IInv /\ EachOne)'
  BY InvNext, NextEachOne
<1>4. QED
  BY <1>1, <1>2, <1>3, PTL DEF Spec

\* compareSpecs shows what differs: exactly that where localeCompare and < order
\* the ids alike, and no less in any case.
THEOREM DiffIsRightAlways == Spec => []DiffIsRight
<1>1. DiffIsExact /\ NothingOverlooked => DiffIsRight
  BY DEF DiffIsRight
<1>2. QED
  BY <1>1, DiffIsExactAlways, NothingIsOverlooked, PTL

----------------------------------------------------------------------------
(* The counts of a row.                                                    *)

Parts == {"type", "params", "body"}

\* Does k count as one of T, or as one that T lacks.
Hit(k, T)  == IF k \in T THEN 1 ELSE 0
Miss(k, T) == IF k \in T THEN 0 ELSE 1

\* The keys of a part of the two methods under comparison.
lAll(w) == IF w = "type" THEN lTypeKeys ELSE DOMAIN lMethod[w]
rAll(w) == IF w = "type" THEN rTypeKeys ELSE DOMAIN rMethod[w]

\* The keys both sides have, with values that are compared and differ.
AllChanged(w) ==
  { k \in lAll(w) \intersect rAll(w) :
      (w = "params" \/ (w = "type" /\ ~lMethod.enum)) /\ lMethod[w][k] # rMethod[w][k] }

\* What the loop of countDiffs has passed of a part.
Over(w) == (w = "type" /\ at \in {"params", "body"}) \/ (w = "params" /\ at = "body")
Passed(w) ==
  IF at = w THEN (lAll(w) \ lKeys) \union (rAll(w) \ rKeys)
  ELSE IF Over(w) THEN lAll(w) \union rAll(w) ELSE {}

nAdded(w)   == Cardinality(Passed(w) \ lAll(w))
nRemoved(w) == Cardinality(Passed(w) \ rAll(w))
nChanged(w) == Cardinality(Passed(w) \intersect AllChanged(w))

\* A key both sides have is passed on both at once.
InStep ==
  /\ lKeys \subseteq lAll(at) /\ rKeys \subseteq rAll(at)
  /\ \A k \in lAll(at) \intersect rAll(at) : k \in lKeys <=> k \in rKeys

Clean == Empty \notin lTypeKeys \union rTypeKeys

\* So far the row counts what was passed: each key once, and as what it is.
Tallied ==
  at \in Parts /\ Clean =>
    /\ InStep
    /\ \A w \in Parts : IsFiniteSet(Passed(w))
    /\ count.added = nAdded("type") + nAdded("params") + nAdded("body")
    /\ count.removed = nRemoved("type") + nRemoved("params") + nRemoved("body")
    /\ count.changed = One(lMethod.status # rMethod.status)
                         + nChanged("type") + nChanged("params") + nChanged("body")

\* Cardinality, when one element joins a set and is looked for in others.
LEMMA OneMore ==
  ASSUME NEW S, NEW T, NEW k, IsFiniteSet(S), k \notin S
  PROVE  /\ IsFiniteSet(S \union {k})
         /\ Cardinality(S \ T) \in Nat /\ Cardinality(S \intersect T) \in Nat
         /\ Cardinality((S \union {k}) \ T) = Cardinality(S \ T) + Miss(k, T)
         /\ Cardinality((S \union {k}) \intersect T) = Cardinality(S \intersect T) + Hit(k, T)
<1>1. /\ IsFiniteSet(S \ T) /\ IsFiniteSet(S \intersect T) /\ IsFiniteSet(S \union {k})
      /\ Cardinality(S \ T) \in Nat /\ Cardinality(S \intersect T) \in Nat
  BY FS_Subset, FS_AddElement, FS_CardinalityType
<1>2. CASE k \in T
  <2>1. (S \union {k}) \ T = S \ T /\ (S \union {k}) \intersect T = (S \intersect T) \union {k}
    BY <1>2
  <2>2. Cardinality((S \intersect T) \union {k}) = Cardinality(S \intersect T) + 1
    BY <1>1, FS_AddElement
  <2>3. Hit(k, T) = 1 /\ Miss(k, T) = 0
    BY <1>2 DEF Hit, Miss
  <2>4. QED
    BY <1>1, <2>1, <2>2, <2>3
<1>3. CASE k \notin T
  <2>1. (S \union {k}) \intersect T = S \intersect T /\ (S \union {k}) \ T = (S \ T) \union {k}
    BY <1>3
  <2>2. Cardinality((S \ T) \union {k}) = Cardinality(S \ T) + 1
    BY <1>1, FS_AddElement
  <2>3. Hit(k, T) = 0 /\ Miss(k, T) = 1
    BY <1>3 DEF Hit, Miss
  <2>4. Cardinality((S \union {k}) \ T) = Cardinality(S \ T) + Miss(k, T)
    BY <2>1, <2>2, <2>3, Zenon
  <2>5. Cardinality((S \union {k}) \intersect T) = Cardinality(S \intersect T) + 0
    BY <1>1, <2>1
  <2>6. QED
    BY <1>1, <2>3, <2>4, <2>5, Zenon
<1>4. QED
  BY <1>1, <1>2, <1>3

LEMMA TalliesType ==
  ASSUME \A w \in Parts : IsFiniteSet(Passed(w))
  PROVE  \A w \in Parts : nAdded(w) \in Nat /\ nRemoved(w) \in Nat /\ nChanged(w) \in Nat
BY FS_Subset, FS_CardinalityType DEF nAdded, nRemoved, nChanged

\* The methods under comparison stay the same for as long as they are compared.
LEMMA PairStays ==
  ASSUME UNCHANGED <<specs, pair>>
  PROVE  /\ lMethod' = lMethod /\ rMethod' = rMethod /\ Clean' = Clean
         /\ \A w : lAll(w)' = lAll(w) /\ rAll(w)' = rAll(w) /\ AllChanged(w)' = AllChanged(w)
BY DEF specs, lMethod, rMethod, lTypeKeys, rTypeKeys, Clean, lAll, rAll, AllChanged

LEMMA NoEmptyKey ==
  ASSUME Types, Clean, at \in Parts
  PROVE  Empty \notin lAll(at) /\ Empty \notin rAll(at)
<1>1. lMethod \in Methods /\ rMethod \in Methods
  BY PairTyped DEF Busy, Parts
<1>2. at \in {"params", "body"} =>
        Empty \notin DOMAIN lMethod[at] /\ Empty \notin DOMAIN rMethod[at]
  BY <1>1, MethodsAssumption
<1>3. QED
  BY <1>2 DEF lAll, rAll, Clean, Parts

\* A step of countDiffs passes one key more, and counts it as what it is.
LEMMA KeyPassed ==
  ASSUME Types, Clean, InStep, KeyStep
  PROVE  \E k :
           /\ k \in lAll(at) \union rAll(at) /\ k \notin Passed(at)
           /\ lKeys' = lKeys \ {k} /\ rKeys' = rKeys \ {k}
           /\ count'.added = count.added + Miss(k, lAll(at))
           /\ count'.removed = count.removed + Miss(k, rAll(at))
           /\ count'.changed = count.changed + Hit(k, AllChanged(at))
<1>0. at \in Parts /\ count \in [changed : Nat, added : 0..MaxAdded, removed : Nat]
  BY DEF KeyStep, KeyAdded, KeyRemoved, KeyMatched, Counting, Parts, Types, TypeOK
<1>2. lKeys \in SUBSET Nat /\ rKeys \in SUBSET Nat
  BY KeysAssumption DEF Types, TypeOK
<1>3. Empty \notin lKeys /\ Empty \notin rKeys
  BY <1>0, NoEmptyKey DEF InStep
<1>4. CASE KeyAdded
  <2>1. rKeys # {} /\ (lKeys # {} => Before(rKeys, lKeys))
    BY <1>3, <1>4 DEF KeyAdded, Counting, LeftMissing, HasKey
  <2>2. PICK r \in rKeys : First(rKeys, r)
    BY <1>2, <2>1, FirstExists
  <2>3. rKeys' = rKeys \ {r} /\ lKeys' = lKeys
    BY <1>2, <1>4, <2>2, WithoutFirst DEF KeyAdded
  <2>4. r \notin lKeys
    <3>1. CASE lKeys = {}
      BY <3>1
    <3>2. CASE lKeys # {}
      <4>1. PICK i \in rKeys : First(rKeys, i) /\ \A j \in lKeys : i < j
        BY <2>1, <3>2 DEF Before
      <4>2. i = r /\ r \in Nat
        BY <1>2, <2>2, <4>1, FirstUnique
      <4>3. QED
        BY <4>1, <4>2
    <3>3. QED
      BY <3>1, <3>2
  <2>5. r \notin lAll(at) /\ r \in rAll(at) /\ r \notin AllChanged(at)
    BY <2>2, <2>4 DEF InStep, AllChanged
  <2>6. r \notin Passed(at) /\ lKeys \ {r} = lKeys
    BY <2>2, <2>4, <2>5 DEF Passed
  <2>7. /\ count'.added = count.added + 1 /\ count'.removed = count.removed
        /\ count'.changed = count.changed
    BY <1>0, <1>4 DEF KeyAdded
  <2>8. QED
    BY <1>0, <2>3, <2>5, <2>6, <2>7 DEF Hit, Miss
<1>5. CASE KeyRemoved
  <2>1. lKeys # {} /\ (rKeys # {} => Before(lKeys, rKeys))
    BY <1>3, <1>5 DEF KeyRemoved, Counting, RightMissing, HasKey
  <2>2. PICK l \in lKeys : First(lKeys, l)
    BY <1>2, <2>1, FirstExists
  <2>3. lKeys' = lKeys \ {l} /\ rKeys' = rKeys
    BY <1>2, <1>5, <2>2, WithoutFirst DEF KeyRemoved
  <2>4. l \notin rKeys
    <3>1. CASE rKeys = {}
      BY <3>1
    <3>2. CASE rKeys # {}
      <4>1. PICK i \in lKeys : First(lKeys, i) /\ \A j \in rKeys : i < j
        BY <2>1, <3>2 DEF Before
      <4>2. i = l /\ l \in Nat
        BY <1>2, <2>2, <4>1, FirstUnique
      <4>3. QED
        BY <4>1, <4>2
    <3>3. QED
      BY <3>1, <3>2
  <2>5. l \notin rAll(at) /\ l \in lAll(at) /\ l \notin AllChanged(at)
    BY <2>2, <2>4 DEF InStep, AllChanged
  <2>6. l \notin Passed(at) /\ rKeys \ {l} = rKeys
    BY <2>2, <2>4, <2>5 DEF Passed
  <2>7. /\ count'.removed = count.removed + 1 /\ count'.added = count.added
        /\ count'.changed = count.changed
    BY <1>0, <1>5 DEF KeyRemoved
  <2>8. QED
    BY <1>0, <2>3, <2>5, <2>6, <2>7 DEF Hit, Miss
<1>6. CASE KeyMatched
  <2>1. lKeys # {} /\ rKeys # {} /\ ~Before(lKeys, rKeys) /\ ~Before(rKeys, lKeys)
    BY <1>3, <1>6 DEF KeyMatched, LeftMissing, RightMissing, HasKey
  <2>2. PICK l \in lKeys, r \in rKeys : First(lKeys, l) /\ First(rKeys, r)
    BY <1>2, <2>1, FirstExists
  <2>3. l = r
    <3>1. l \in Nat /\ r \in Nat
      BY <1>2
    <3>2. PICK j \in rKeys : ~(l < j)
      BY <2>1, <2>2 DEF Before
    <3>3. PICK i \in lKeys : ~(r < i)
      BY <2>1, <2>2 DEF Before
    <3>4. r <= j /\ l <= i /\ i \in Nat /\ j \in Nat
      BY <1>2, <2>2 DEF First
    <3>5. QED
      BY <3>1, <3>2, <3>3, <3>4
  <2>4. lKeys' = lKeys \ {l} /\ rKeys' = rKeys \ {l}
    BY <1>2, <1>6, <2>2, <2>3, WithoutFirst DEF KeyMatched
  <2>5. l \in lAll(at) /\ l \in rAll(at) /\ l \notin Passed(at)
    BY <2>2, <2>3 DEF InStep, Passed
  <2>6. Changed <=> l \in AllChanged(at)
    <3>1. \A k \in lKeys : First(lKeys, k) => k = l
      BY <1>2, <2>2, FirstUnique
    <3>2. Changed <=> ValuesCompared /\ lMethod[at][l] # rMethod[at][l]
      BY <2>2, <3>1 DEF Changed
    <3>3. QED
      BY <2>5, <3>2 DEF ValuesCompared, AllChanged
  <2>7. /\ count'.added = count.added /\ count'.removed = count.removed
        /\ count'.changed = count.changed + One(Changed)
    BY <1>0, <1>6 DEF KeyMatched, One
  <2>8. One(Changed) = Hit(l, AllChanged(at))
    BY <2>6 DEF One, Hit
  <2>9. QED
    BY <1>0, <2>4, <2>5, <2>7, <2>8 DEF Miss
<1>7. QED
  BY <1>4, <1>5, <1>6 DEF KeyStep

LEMMA KeyStepTallied ==
  ASSUME Types, Tallied, KeyStep
  PROVE  Tallied'
<1> SUFFICES ASSUME Clean PROVE Tallied'
  BY PairStays DEF KeyStep, KeyAdded, KeyRemoved, KeyMatched, Tallied
<1>1. at \in Parts /\ UNCHANGED <<specs, pair, at>>
  BY DEF KeyStep, KeyAdded, KeyRemoved, KeyMatched, Counting, Parts
<1>2. /\ lMethod' = lMethod /\ rMethod' = rMethod
      /\ \A w : lAll(w)' = lAll(w) /\ rAll(w)' = rAll(w) /\ AllChanged(w)' = AllChanged(w)
  BY <1>1, PairStays
<1>3. /\ InStep /\ \A w \in Parts : IsFiniteSet(Passed(w))
      /\ count.added = nAdded("type") + nAdded("params") + nAdded("body")
      /\ count.removed = nRemoved("type") + nRemoved("params") + nRemoved("body")
      /\ count.changed = One(lMethod.status # rMethod.status)
                           + nChanged("type") + nChanged("params") + nChanged("body")
  BY <1>1 DEF Tallied
<1>4. PICK k :
        /\ k \in lAll(at) \union rAll(at) /\ k \notin Passed(at)
        /\ lKeys' = lKeys \ {k} /\ rKeys' = rKeys \ {k}
        /\ count'.added = count.added + Miss(k, lAll(at))
        /\ count'.removed = count.removed + Miss(k, rAll(at))
        /\ count'.changed = count.changed + Hit(k, AllChanged(at))
  BY <1>3, KeyPassed
<1>5. InStep'
  BY <1>1, <1>2, <1>3, <1>4 DEF InStep
<1>6. \A w \in Parts : Passed(w)' = IF w = at THEN Passed(w) \union {k} ELSE Passed(w)
  <2> SUFFICES ASSUME NEW w \in Parts
               PROVE  Passed(w)' = IF w = at THEN Passed(w) \union {k} ELSE Passed(w)
    OBVIOUS
  <2>1. CASE w = at
    <3>1. Passed(w)' = (lAll(w) \ lKeys') \union (rAll(w) \ rKeys')
      BY <1>1, <1>2, <2>1 DEF Passed
    <3>2. Passed(w) = (lAll(w) \ lKeys) \union (rAll(w) \ rKeys)
      BY <2>1 DEF Passed
    <3>3. k \in lAll(w) \union rAll(w) /\ lKeys' = lKeys \ {k} /\ rKeys' = rKeys \ {k}
      BY <1>4, <2>1
    <3>4. (k \in lAll(w) \/ k \notin lKeys) /\ (k \in rAll(w) \/ k \notin rKeys)
      BY <1>3, <2>1 DEF InStep
    <3>5. QED
      BY <2>1, <3>1, <3>2, <3>3, <3>4
  <2>2. CASE w # at
    BY <1>1, <1>2, <2>2 DEF Passed, Over
  <2>3. QED
    BY <2>1, <2>2
<1>7. ASSUME NEW w \in Parts, w = at
      PROVE  /\ IsFiniteSet(Passed(w)')
             /\ nAdded(w)' = nAdded(w) + Miss(k, lAll(w))
             /\ nRemoved(w)' = nRemoved(w) + Miss(k, rAll(w))
             /\ nChanged(w)' = nChanged(w) + Hit(k, AllChanged(w))
  <2>1. PICK S : S = Passed(w)
    OBVIOUS
  <2>2. IsFiniteSet(S) /\ k \notin S /\ Passed(w)' = S \union {k}
    BY <1>3, <1>4, <1>6, <1>7, <2>1
  <2>3. /\ IsFiniteSet(S \union {k})
        /\ \A T : /\ Cardinality((S \union {k}) \ T) = Cardinality(S \ T) + Miss(k, T)
                  /\ Cardinality((S \union {k}) \intersect T)
                       = Cardinality(S \intersect T) + Hit(k, T)
    <3>1. IsFiniteSet(S \union {k})
      BY <2>2, FS_AddElement
    <3>2. ASSUME NEW T
          PROVE  /\ Cardinality((S \union {k}) \ T) = Cardinality(S \ T) + Miss(k, T)
                 /\ Cardinality((S \union {k}) \intersect T)
                      = Cardinality(S \intersect T) + Hit(k, T)
      BY <2>2, OneMore, Zenon
    <3>3. QED
      BY <3>1, <3>2
  <2>4. /\ nAdded(w)' = Cardinality((S \union {k}) \ lAll(w))
        /\ nRemoved(w)' = Cardinality((S \union {k}) \ rAll(w))
        /\ nChanged(w)' = Cardinality((S \union {k}) \intersect AllChanged(w))
    BY <1>2, <2>2 DEF nAdded, nRemoved, nChanged
  <2>5. /\ nAdded(w) = Cardinality(S \ lAll(w)) /\ nRemoved(w) = Cardinality(S \ rAll(w))
        /\ nChanged(w) = Cardinality(S \intersect AllChanged(w))
    BY <2>1 DEF nAdded, nRemoved, nChanged
  <2>6. QED
    BY <2>2, <2>3, <2>4, <2>5, Zenon
<1>8. \A w \in Parts : w # at =>
        nAdded(w)' = nAdded(w) /\ nRemoved(w)' = nRemoved(w) /\ nChanged(w)' = nChanged(w)
  BY <1>2, <1>6 DEF nAdded, nRemoved, nChanged
<1>9. \A w \in Parts : nAdded(w) \in Nat /\ nRemoved(w) \in Nat /\ nChanged(w) \in Nat
  BY <1>3, TalliesType
<1>10. \A b, T : One(b) \in Nat /\ Hit(b, T) \in Nat /\ Miss(b, T) \in Nat
  BY DEF One, Hit, Miss
<1>11. /\ count'.added = nAdded("type")' + nAdded("params")' + nAdded("body")'
       /\ count'.removed = nRemoved("type")' + nRemoved("params")' + nRemoved("body")'
       /\ count'.changed = One(lMethod.status # rMethod.status)
                            + nChanged("type")' + nChanged("params")' + nChanged("body")'
  <2> DEFINE a == Miss(k, lAll(at))
             r == Miss(k, rAll(at))
             c == Hit(k, AllChanged(at))
  <2>1. a \in Nat /\ r \in Nat /\ c \in Nat /\ One(lMethod.status # rMethod.status) \in Nat
    BY <1>10
  <2>2. /\ count'.added = count.added + a /\ count'.removed = count.removed + r
        /\ count'.changed = count.changed + c
        /\ \A w \in Parts : w = at =>
             /\ nAdded(w)' = nAdded(w) + a /\ nRemoved(w)' = nRemoved(w) + r
             /\ nChanged(w)' = nChanged(w) + c
    BY <1>4, <1>7
  <2> HIDE DEF a, r, c
  <2>3. CASE at = "type"
    BY <1>3, <1>8, <1>9, <2>1, <2>2, <2>3 DEF Parts
  <2>4. CASE at = "params"
    BY <1>3, <1>8, <1>9, <2>1, <2>2, <2>4 DEF Parts
  <2>5. CASE at = "body"
    BY <1>3, <1>8, <1>9, <2>1, <2>2, <2>5 DEF Parts
  <2>6. QED
    BY <1>1, <2>3, <2>4, <2>5 DEF Parts
<1>12. \A w \in Parts : IsFiniteSet(Passed(w)')
  BY <1>3, <1>6, <1>7
<1>13. QED
  BY <1>2, <1>5, <1>11, <1>12 DEF Tallied

\* Between two parts nothing more is passed, and nothing counted.
LEMMA NextPartTallied ==
  ASSUME Types, Tallied, TypesCompared \/ ParamsCompared
  PROVE  Tallied'
<1> SUFFICES ASSUME Clean PROVE Tallied'
  BY PairStays DEF TypesCompared, ParamsCompared, Tallied
<1>1. /\ at \in Parts /\ at' \in {"params", "body"} /\ UNCHANGED <<specs, pair, count>>
      /\ lKeys = {} /\ rKeys = {}
      /\ lKeys' = DOMAIN lMethod[at'] /\ rKeys' = DOMAIN rMethod[at']
      /\ \/ at = "type" /\ at' = "params"
         \/ at = "params" /\ at' = "body"
  BY DEF TypesCompared, ParamsCompared, Counted, Parts
<1>2. /\ lMethod' = lMethod /\ rMethod' = rMethod
      /\ \A w : lAll(w)' = lAll(w) /\ rAll(w)' = rAll(w) /\ AllChanged(w)' = AllChanged(w)
  BY <1>1, PairStays
<1>3. lKeys' = lAll(at') /\ rKeys' = rAll(at')
  BY <1>1 DEF lAll, rAll
<1>4. InStep'
  <2>1. lAll(at)' = lAll(at') /\ rAll(at)' = rAll(at')
    BY <1>1, <1>2 DEF lAll, rAll, lTypeKeys, rTypeKeys
  <2>2. QED
    BY <1>3, <2>1 DEF InStep
<1>5. \A w \in Parts : Passed(w)' = Passed(w)
  BY <1>1, <1>2, <1>3 DEF Passed, Over, Parts
<1>6. \A w \in Parts :
        nAdded(w)' = nAdded(w) /\ nRemoved(w)' = nRemoved(w) /\ nChanged(w)' = nChanged(w)
  BY <1>2, <1>5 DEF nAdded, nRemoved, nChanged
<1>7. QED
  BY <1>1, <1>2, <1>4, <1>5, <1>6 DEF Tallied, Parts

LEMMA CompareTallied ==
  ASSUME Types, UNCHANGED specs, NEW i, NEW j, Compare(i, j)
  PROVE  Tallied'
<1>1. lMethod' = lMethods[i] /\ rMethod' = rMethods[j]
  BY DEF Compare, lMethod, rMethod, specs
<1>2. lKeys' = lTypeKeys' /\ rKeys' = rTypeKeys' /\ at' \in {"type", "crashed"}
  BY <1>1 DEF Compare, lTypeKeys, rTypeKeys
<1> SUFFICES ASSUME at' = "type" PROVE Tallied'
  BY <1>2 DEF Tallied, Parts
<1>3. InStep'
  BY <1>2 DEF InStep, lAll, rAll
<1>4. \A w \in Parts : Passed(w)' = {}
  BY <1>2 DEF Passed, Over, Parts, lAll, rAll
<1>5. \A w \in Parts :
        /\ IsFiniteSet(Passed(w)')
        /\ nAdded(w)' = 0 /\ nRemoved(w)' = 0 /\ nChanged(w)' = 0
  BY <1>4, FS_EmptySet DEF nAdded, nRemoved, nChanged
<1>6. /\ count'.added = 0 /\ count'.removed = 0
      /\ count'.changed = One(lMethod'.status # rMethod'.status)
  BY <1>1 DEF Compare, startCount
<1>7. count'.changed \in Nat
  BY <1>6 DEF One
<1>8. /\ count'.added = nAdded("type")' + nAdded("params")' + nAdded("body")'
      /\ count'.removed = nRemoved("type")' + nRemoved("params")' + nRemoved("body")'
      /\ count'.changed = One(lMethod'.status # rMethod'.status)
                           + nChanged("type")' + nChanged("params")' + nChanged("body")'
  BY <1>5, <1>6, <1>7 DEF Parts
<1>9. QED
  BY <1>3, <1>5, <1>8 DEF Tallied

LEMMA NextTallied ==
  ASSUME Types, Tallied, [Next]_vars
  PROVE  Tallied'
<1>1. CASE UNCHANGED vars
  <2>1. UNCHANGED <<specs, pair, at, lKeys, rKeys, count>>
    BY <1>1 DEF vars
  <2>2. /\ lMethod' = lMethod /\ rMethod' = rMethod /\ Clean' = Clean
        /\ \A w : lAll(w)' = lAll(w) /\ rAll(w)' = rAll(w) /\ AllChanged(w)' = AllChanged(w)
    BY <2>1, PairStays
  <2>3. \A w : Passed(w)' = Passed(w)
    BY <2>1, <2>2 DEF Passed, Over
  <2>4. \A w : nAdded(w)' = nAdded(w) /\ nRemoved(w)' = nRemoved(w) /\ nChanged(w)' = nChanged(w)
    BY <2>2, <2>3 DEF nAdded, nRemoved, nChanged
  <2>5. InStep' <=> InStep
    <3>1. lAll(at)' = lAll(at) /\ rAll(at)' = rAll(at)
      BY <2>1, <2>2 DEF lAll, rAll, lTypeKeys, rTypeKeys
    <3>2. QED
      BY <2>1, <3>1 DEF InStep
  <2>6. QED
    BY <2>1, <2>2, <2>3, <2>4, <2>5 DEF Tallied
<1>2. CASE BodiesCompared \/ MethodRemoved \/ MethodAdded \/ Return
  BY <1>2 DEF BodiesCompared, MethodRemoved, MethodAdded, Return, Push, Tallied, Parts
<1>3. CASE MethodMatched
  BY <1>3, CompareTallied DEF MethodMatched
<1>4. QED
  BY <1>1, <1>2, <1>3, KeyStepTallied, NextPartTallied DEF Next, KeyStep

\* What CountsAreRight says of a row, as of its methods and what was counted.
RowCounted(lm, rm, c) ==
  LET l == [type |-> TypeKeys(lm, lm, rm), params |-> DOMAIN lm.params, body |-> DOMAIN lm.body]
      r == [type |-> TypeKeys(rm, lm, rm), params |-> DOMAIN rm.params, body |-> DOMAIN rm.body]
      Only(s, t) == Cardinality(s.type \ t.type) + Cardinality(s.params \ t.params)
                      + Cardinality(s.body \ t.body)
  IN  Empty \notin l.type \union r.type =>
        c = [added |-> Only(r, l), removed |-> Only(l, r),
             changed |-> One(lm.status # rm.status) + Cardinality(Changes(lm.params, rm.params))
                         + (IF lm.enum \/ rm.enum THEN 0 ELSE Cardinality(Changes(lm.type, rm.type)))
                         + One(lm.body # rm.body) + One(lm.responses # rm.responses)]

Counts ==
  \A row \in {r \in diff : r.l # None /\ r.r # None} :
    RowCounted(lMethods[row.l], rMethods[row.r], row.count)

\* At the end a row counts all keys of its pair.
LEMMA PairCounted ==
  ASSUME Types, TypeDiffTells, Tallied, BodiesCompared
  PROVE  RowCounted(lMethod, rMethod,
           [count EXCEPT !.changed = @ + One(BodyDiff) + One(ResponseDiff)])
<1> DEFINE lm == lMethod
           rm == rMethod
           l == [type |-> TypeKeys(lm, lm, rm), params |-> DOMAIN lm.params, body |-> DOMAIN lm.body]
           r == [type |-> TypeKeys(rm, lm, rm), params |-> DOMAIN rm.params, body |-> DOMAIN rm.body]
           Only(s, t) == Cardinality(s.type \ t.type) + Cardinality(s.params \ t.params)
                           + Cardinality(s.body \ t.body)
           c == [count EXCEPT !.changed = @ + One(BodyDiff) + One(ResponseDiff)]
           changed == One(lm.status # rm.status) + Cardinality(Changes(lm.params, rm.params))
                        + (IF lm.enum \/ rm.enum THEN 0 ELSE Cardinality(Changes(lm.type, rm.type)))
                        + One(lm.body # rm.body) + One(lm.responses # rm.responses)
<1> SUFFICES ASSUME Empty \notin l.type \union r.type
             PROVE  c = [added |-> Only(r, l), removed |-> Only(l, r), changed |-> changed]
  BY DEF RowCounted
<1>1. at = "body" /\ lKeys = {} /\ rKeys = {} /\ at \in Parts
  BY DEF BodiesCompared, Counted, Parts
<1>2. Clean
  BY DEF Clean, lTypeKeys, rTypeKeys
<1>3. /\ \A w \in Parts : IsFiniteSet(Passed(w))
      /\ count.added = nAdded("type") + nAdded("params") + nAdded("body")
      /\ count.removed = nRemoved("type") + nRemoved("params") + nRemoved("body")
      /\ count.changed = One(lMethod.status # rMethod.status)
                           + nChanged("type") + nChanged("params") + nChanged("body")
  BY <1>1, <1>2 DEF Tallied
<1>4. \A w \in Parts : Passed(w) = lAll(w) \union rAll(w)
  BY <1>1 DEF Passed, Over, Parts
<1>5. \A w \in Parts : /\ nAdded(w) = Cardinality(rAll(w) \ lAll(w))
                       /\ nRemoved(w) = Cardinality(lAll(w) \ rAll(w))
                       /\ nChanged(w) = Cardinality(AllChanged(w))
  <2> SUFFICES ASSUME NEW w \in Parts
               PROVE  /\ nAdded(w) = Cardinality(rAll(w) \ lAll(w))
                      /\ nRemoved(w) = Cardinality(lAll(w) \ rAll(w))
                      /\ nChanged(w) = Cardinality(AllChanged(w))
    OBVIOUS
  <2>1. /\ Passed(w) \ lAll(w) = rAll(w) \ lAll(w)
        /\ Passed(w) \ rAll(w) = lAll(w) \ rAll(w)
        /\ Passed(w) \intersect AllChanged(w) = AllChanged(w)
    BY <1>4 DEF AllChanged
  <2>2. QED
    BY <2>1 DEF nAdded, nRemoved, nChanged
<1>6. /\ lAll("type") = l.type /\ lAll("params") = l.params /\ lAll("body") = l.body
      /\ rAll("type") = r.type /\ rAll("params") = r.params /\ rAll("body") = r.body
  BY DEF lAll, rAll, lTypeKeys, rTypeKeys
<1>7. nAdded("type") + nAdded("params") + nAdded("body") = Only(r, l)
  BY <1>5, <1>6 DEF Parts
<1>8. nRemoved("type") + nRemoved("params") + nRemoved("body") = Only(l, r)
  BY <1>5, <1>6 DEF Parts
<1>9. AllChanged("params") = Changes(lm.params, rm.params)
  BY <1>6 DEF AllChanged, Changes
<1>10. AllChanged("body") = {}
  BY DEF AllChanged
<1>11. Cardinality(AllChanged("type"))
         = IF lm.enum \/ rm.enum THEN 0 ELSE Cardinality(Changes(lm.type, rm.type))
  <2>1. ~(lm.enum /\ ~rm.enum)
    BY <1>1 DEF TypeDiffTells, Unreadable, lMethod, rMethod
  <2>2. CASE lm.enum \/ rm.enum
    <3>1. AllChanged("type") = {}
      BY <1>6, <2>2 DEF AllChanged, TypeKeys, Properties
    <3>2. QED
      BY <2>2, <3>1, FS_EmptySet
  <2>3. CASE ~(lm.enum \/ rm.enum)
    <3>1. AllChanged("type") = Changes(lm.type, rm.type)
      <4>1. CASE lm.type = rm.type
        BY <1>6, <2>3, <4>1 DEF AllChanged, Changes
      <4>2. CASE lm.type # rm.type
        <5>1. lAll("type") = DOMAIN lm.type /\ rAll("type") = DOMAIN rm.type
          BY <1>6, <2>3, <4>2 DEF TypeKeys, Properties
        <5>2. QED
          BY <2>3, <5>1 DEF AllChanged, Changes
      <4>3. QED
        BY <4>1, <4>2
    <3>2. QED
      BY <2>3, <3>1
  <2>4. QED
    BY <2>2, <2>3
<1>12. nChanged("body") = 0
  BY <1>5, <1>10, FS_EmptySet DEF Parts
<1>13. count.changed + One(BodyDiff) + One(ResponseDiff) = changed
  <2>1. PICK s, t, q, b, e : /\ s = One(lm.status # rm.status) /\ t = nChanged("type")
                             /\ q = nChanged("params") /\ b = One(lm.body # rm.body)
                             /\ e = One(lm.responses # rm.responses)
    OBVIOUS
  <2>2. s \in Nat /\ t \in Nat /\ q \in Nat /\ b \in Nat /\ e \in Nat
    BY <1>3, <2>1, TalliesType DEF One, Parts
  <2>3. count.changed = s + t + q + 0
    BY <1>3, <1>12, <2>1
  <2>4. One(BodyDiff) = b /\ One(ResponseDiff) = e
    BY <2>1 DEF BodyDiff, ResponseDiff
  <2>5. changed = s + q + t + b + e
    BY <1>5, <1>9, <1>11, <2>1 DEF Parts
  <2>6. QED
    BY <2>2, <2>3, <2>4, <2>5
<1>14. count = [added |-> count.added, removed |-> count.removed, changed |-> count.changed]
  BY DEF Types, TypeOK
<1> HIDE DEF changed, Only, l, r
<1>15. QED
  BY <1>3, <1>7, <1>8, <1>13, <1>14

LEMMA NextCounts ==
  ASSUME Types, TypeDiffTells, Tallied, Counts, [Next]_vars
  PROVE  Counts'
<1>0. UNCHANGED <<lMethods, rMethods>>
  BY DEF specs, Next, vars, KeyAdded, KeyRemoved, KeyMatched, TypesCompared, ParamsCompared,
     BodiesCompared, MethodRemoved, MethodAdded, MethodMatched, Return
<1>1. CASE UNCHANGED diff
  BY <1>0, <1>1 DEF Counts
<1>2. CASE BodiesCompared
  <2> DEFINE c == [count EXCEPT !.changed = @ + One(BodyDiff) + One(ResponseDiff)]
  <2>1. RowCounted(lMethod, rMethod, c)
    BY <1>2, PairCounted
  <2>2. diff' \subseteq diff \union {Row(pair.l, pair.r, c)}
    BY <1>2 DEF BodiesCompared
  <2> HIDE DEF c
  <2>3. QED
    BY <1>0, <2>1, <2>2 DEF Counts, Row, lMethod, rMethod
<1>3. CASE MethodRemoved \/ MethodAdded
  <2>1. \A row \in diff' \ diff : row.l = None \/ row.r = None
    BY <1>3 DEF MethodRemoved, MethodAdded, Push, Row
  <2>2. QED
    BY <1>0, <2>1 DEF Counts
<1>4. CASE KeyStep \/ TypesCompared \/ ParamsCompared \/ MethodMatched \/ Return \/ UNCHANGED vars
  BY <1>1, <1>4 DEF KeyStep, KeyAdded, KeyRemoved, KeyMatched, TypesCompared, ParamsCompared,
     MethodMatched, Compare, Return, vars
<1>5. QED
  BY <1>2, <1>3, <1>4 DEF Next, KeyStep

\* The counts of a row are those of the sets of keys, for methods with any keys:
\* countDiffs, which merges the sorted keys, counts each key once, and as what it is.
THEOREM CountsAreRightAlways == Spec => []CountsAreRight
<1>1. Counts => CountsAreRight
  BY DEF Counts, CountsAreRight, RowCounted
<1>2. Init => Tallied /\ Counts
  BY DEF Init, Tallied, Counts, Parts
<1>3. IInv /\ Tallied /\ Counts /\ [Next]_vars => (IInv /\ Tallied /\ Counts)'
  BY InvNext, NextTallied, NextCounts DEF IInv
<1>4. QED
  BY <1>1, <1>2, <1>3, InvInitially, PTL DEF Spec
=============================================================================
