--------------------------- MODULE MCOAuthSession ---------------------------
(* Instances of OAuthSession for TLC. *)
EXTENDS OAuthSession

CONSTANTS t1, t2
=============================================================================
