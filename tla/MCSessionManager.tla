-------------------------- MODULE MCSessionManager --------------------------
(* TLC instance of SessionManager: two overlapping callers.                 *)
EXTENDS SessionManager

CONSTANTS t1, t2

MCTasks == {t1, t2}
=============================================================================
