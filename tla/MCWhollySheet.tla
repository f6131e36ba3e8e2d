--------------------------- MODULE MCWhollySheet ---------------------------
(* Small instances of WhollySheet.                                         *)
EXTENDS WhollySheet

CONSTANTS c1, c2, k1, k2, k3, k4

TwoSeeds == <<k1, k2>>

\* Two clients share a tab, and requests and answers are lost.
Shared == [clients |-> {c1, c2}, ops |-> {"create", "update", "refresh"},
           apart |-> FALSE, faults |-> TRUE]

\* Users register themselves.
Registering == [clients |-> {c1, c2}, ops |-> {"register", "refresh"},
                apart |-> FALSE, faults |-> TRUE]

\* One client rewrites a tab it has to itself.
Alone == [clients |-> {c1}, ops |-> {"create", "delete", "batch", "refresh"},
          apart |-> TRUE, faults |-> FALSE]

ThreeUses == {Shared, Registering, Alone}
=============================================================================
