-------------------------- MODULE MCStreamWrappers -------------------------
(* A TLS hello of three content bytes, one that claims too much, and a      *)
(* stream that is no hello; an address of one byte and three of data.       *)
EXTENDS StreamWrappers

Payload(k) == [i \in 1 .. k |-> <<"data", i>>]
MCStreams == {Header(3) \o Payload(4), Header(MaxRecord + 1) \o Payload(3), Payload(4)}
MCSplitPlans == {<<>>,
                 <<[count |-> 1, bytes |-> 2], [count |-> 2, bytes |-> 1]>>,
                 <<[count |-> 0, bytes |-> 1], [count |-> 1, bytes |-> 3]>>}
MCSplitLens == {-1, 1, 3}
MCAddress == <<1>>
MCData == <<2, 3, 4>>
=============================================================================
