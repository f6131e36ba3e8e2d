------------------------ MODULE MCExtensionConnector ------------------------
(* Instances of ExtensionConnector for TLC. *)
EXTENDS ExtensionConnector

CONSTANTS c1, c2

At(r, s) == [route |-> r, state |-> s]

\* Two routes, one of them with two states.
FewPlaces == { At("/", "undefined"), At("/b", "undefined"), At("/b", "filtered") }
HomePlace == At("/", "undefined")
OnePlace == { HomePlace }
=============================================================================
