--------------------------- MODULE MCNodeSession ---------------------------
(* Instances of NodeSession for TLC. *)
EXTENDS NodeSession

CONSTANTS t1, t2, u1, u2

AloneOrTwo == {{t1}, {t1, t2}}

\* Four tokens to a caller that is alone, an API token and one more to two.
FewTokens == [p \in AloneOrTwo |-> IF p = {t1} THEN 4 ELSE 2]

Alone == {{t1}}
TwoTokens == [p \in Alone |-> 2]
============================================================================
