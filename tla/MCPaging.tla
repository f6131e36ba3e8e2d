------------------------------ MODULE MCPaging ------------------------------
(* Instances of Paging for TLC. *)
EXTENDS Paging

CONSTANTS p1, p2

FewOffsets == {0, 1}
=============================================================================
