--------------------------- MODULE MCSdkSessions ----------------------------
(* Instances of SdkSessions for TLC. *)
EXTENDS SdkSessions
CONSTANTS u1, u2
TwoUsers == {u1, u2}
AllLangs == {"kotlin", "swift", "csharp", "python", "go"}
=============================================================================
