----------------------------- MODULE MCSpecDiff -----------------------------
(* Instances of SpecDiff for TLC. *)
EXTENDS SpecDiff, TLC

Nothing == <<>>

Method(enum, type, params, body) ==
  [enum |-> enum, type |-> type, params |-> params, body |-> body,
   name |-> "m", status |-> "beta", responses |-> "r"]

Plain   == Method(FALSE, 2 :> "x" @@ 3 :> "x", 2 :> "x" @@ 3 :> "x", 3 :> "x")
Other   == [Method(FALSE, 3 :> "y" @@ 4 :> "x", 2 :> "y", Nothing) EXCEPT !.status = "stable", !.responses = "s"]
Levels  == Method(TRUE, 2 :> "x" @@ 3 :> "x", 2 :> "x" @@ 3 :> "x", 3 :> "x")
Blank   == Method(TRUE, 1 :> "x" @@ 2 :> "x", Nothing, Nothing)

FewMethods == {Plain, Other, Levels, Blank}
=============================================================================
