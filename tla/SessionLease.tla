---------------------------- MODULE SessionLease ----------------------------
(* What SessionManager promises: a usage lease.  It is taken at the current *)
(* time unless one is on record, it is never replaced while it is held, and *)
(* releasing it leaves none on record.  Losing the process loses the lease  *)
(* but not a record: the last one that reached the device, of this lease or *)
(* of an earlier one.                                                       *)
EXTENDS Naturals

CONSTANT Null

VARIABLES now, lease, record

vars == <<now, lease, record>>

Init == now = 0 /\ lease = Null /\ record = Null

Tick == now' = now + 1 /\ UNCHANGED <<lease, record>>

Acquire == /\ lease = Null
           /\ lease' = (IF record = Null THEN now ELSE record)
           /\ record' = lease'
           /\ UNCHANGED now

Release == /\ lease' = Null
           /\ record' = Null
           /\ UNCHANGED now

Lose == /\ lease' = Null
        /\ record' \in (0 .. now) \cup {Null}
        /\ UNCHANGED now

Next == Tick \/ Acquire \/ Release \/ Lose

Spec == Init /\ [][Next]_vars
=============================================================================
