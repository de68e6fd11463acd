------------------------------ MODULE BytePipe ------------------------------
(* What a stream promises whatever it wraps: its reader gets a prefix of    *)
(* what its writer put in, in order and nothing twice.                      *)
EXTENDS Naturals, Sequences

CONSTANT Source          \* everything the writer may put in

VARIABLES put, got

PipeInit == put = <<>> /\ got = <<>>

IsPrefixOf(s, t) == Len(s) <= Len(t) /\ s = SubSeq(t, 1, Len(s))

Put == /\ IsPrefixOf(put, put') /\ IsPrefixOf(put', Source)
       /\ UNCHANGED got
Get == /\ IsPrefixOf(got, got') /\ IsPrefixOf(got', put)
       /\ UNCHANGED put

PipeSpec == PipeInit /\ [][Put \/ Get]_<<put, got>>
=============================================================================
