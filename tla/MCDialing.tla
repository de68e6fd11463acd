------------------------------ MODULE MCDialing -----------------------------
(* Configs with two entries of every sort, "" one of them, without TLS or   *)
(* without DNS entries, and with an entry that names no server; a clock     *)
(* that outlasts the lifetime of a cached answer.                           *)
EXTENDS Dialing

MCParts == {"eyeballs", "search", "cache", "proxy"}
MCKinds == {"stream", "association", "tls", "tunnel"}
MCConfigs ==
  {[dns |-> <<"system", "doh">>, tls |-> <<"split", "direct">>, fallback |-> <<"ss", "psiphon">>],
   [dns |-> <<"doh">>, tls |-> <<>>, fallback |-> <<"ss">>],
   [dns |-> <<>>, tls |-> <<"split">>, fallback |-> <<>>],
   [dns |-> <<"doh", "noName">>, tls |-> <<"split">>, fallback |-> <<"ss">>]}
=============================================================================
