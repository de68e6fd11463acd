---------------------------- MODULE MCServerLists ---------------------------
(* Two calls of a service; a launch and two taps on the refresh button.     *)
EXTENDS ServerLists

CONSTANTS c1, c2, l, r1, r2

TwoCalls == {c1, c2}
TwoRetries == {r1, r2}
=============================================================================
