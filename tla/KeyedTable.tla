----------------------------- MODULE KeyedTable -----------------------------
(***************************************************************************)
(* What packages/wholly-sheet promises of a tab (its README: "treating a   *)
(* GSheet as a database"): a table by key, changed by calls that carry     *)
(* their change out whole, or not at all.                                  *)
(***************************************************************************)
CONSTANTS
  Clients,   \* who calls
  Keys,      \* values of the key column
  Stamps,    \* values of the _updated column
  initial    \* the table at the start

VARIABLES
  table,   \* the entries <<key, stamp>>
  asked    \* asked[c]: the keys a call of c drops and the entries it puts

Nothing == [drop |-> {}, put |-> {}]

\* A change replaces or removes the keys it drops, and puts at most one entry
\* under a key.
Changes == {change \in [drop : SUBSET Keys, put : SUBSET (Keys \X Stamps)] :
              \A e, g \in change.put : e[1] = g[1] => e = g}

Applied(change) == {e \in table : e[1] \notin change.drop} \union change.put

Init == table = initial /\ asked = [c \in Clients |-> Nothing]

Ask(c) ==
  /\ asked[c] = Nothing
  /\ asked'[c] \in Changes
  /\ asked' = [asked EXCEPT ![c] = asked'[c]]
  /\ UNCHANGED table

Carry(c) ==
  /\ table' = Applied(asked[c])
  /\ asked' = [asked EXCEPT ![c] = Nothing]

\* The call gives up: its change is never seen.
GiveUp(c) ==
  /\ asked' = [asked EXCEPT ![c] = Nothing]
  /\ UNCHANGED table

Next == \E c \in Clients : Ask(c) \/ Carry(c) \/ GiveUp(c)

Spec == Init /\ [][Next]_<<table, asked>>
=============================================================================
