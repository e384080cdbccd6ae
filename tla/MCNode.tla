------------------------------- MODULE MCNode -------------------------------
(* Instances of Node for TLC. *)
EXTENDS MCRepeater, Node

\* A software relay with a debounce and a radio that relays by itself.
BothRelays == RelayOn \cup {Raw(2000, 500, 180000, 0, FALSE, FALSE)}

\* A software relay without debounce.
RelayOnly == {Raw(2000, 500, 180000, 0, FALSE, TRUE)}
=============================================================================
