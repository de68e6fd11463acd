-------------------------- MODULE MCVpnController --------------------------
(* TLC instances of VpnController; each cfg picks who takes part.           *)
EXTENDS VpnController

CONSTANTS c1, c2, s1, o1, r1, i1, i2, h1, k1, e1, a, b

None == {}
OneConnect == {c1}
OneSelect == {s1}
OneOff == {o1}
OneResume == {r1}
TwoInits == {i1, i2}
OneInit == {i1}
OneStage == {h1}
OneChecker == {k1}
OneExpiry == {e1}

MCTasks == Connects \cup Selects \cup Offs \cup Resumes \cup Inits
             \cup Stages \cup Checkers \cup Expiries

OneServer == {a}
TwoServers == {a, b}
OneRanking == {<<a>>}
Rankings == {<<>>, <<a>>, <<a, b>>}
=============================================================================
