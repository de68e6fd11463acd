------------------------------- MODULE Dialing ------------------------------
(* What happens before a connection is handed out: the Happy Eyeballs dial  *)
(* with its lookups, the search for a strategy, the cache of DNS answers    *)
(* that a found strategy looks its names up in, and the dials through a     *)
(* proxy.  None writes another's state, so a behaviour follows one of them  *)
(* while the others keep an initial state.                                  *)
EXTENDS HappyEyeballs, SmartSearch, DnsCache, ProxyDials

CONSTANT Parts        \* of "eyeballs", "search", "cache" and "proxy"
VARIABLE part

dialingVars == <<part, eyeballsVars, searchVars, dnsCacheVars, dialsVars>>

DialingInit ==
  /\ part \in Parts
  /\ EyeballsInit /\ SearchInit /\ DnsCacheInit /\ DialsInit
  /\ part = "eyeballs" \/ (~deadline /\ resolver = CHOOSE t \in Transports : TRUE)
  /\ part = "search" \/ (base /\ store /\ config = CHOOSE c \in Configs : TRUE)
  /\ part = "cache" \/ key = [q \in Queries |-> CHOOSE k \in Keys : TRUE]
  /\ part = "proxy" \/ (/\ kind = "tls" /\ over = "none"
                         /\ options = [sni |-> "host", verifier |-> "none"])

DialingNext ==
  \/ /\ part = "eyeballs" /\ EyeballsNext
     /\ UNCHANGED <<part, searchVars, dnsCacheVars, dialsVars>>
  \/ /\ part = "search" /\ SearchNext
     /\ UNCHANGED <<part, eyeballsVars, dnsCacheVars, dialsVars>>
  \/ /\ part = "cache" /\ DnsCacheNext
     /\ UNCHANGED <<part, eyeballsVars, searchVars, dialsVars>>
  \/ /\ part = "proxy" /\ DialsNext
     /\ UNCHANGED <<part, eyeballsVars, searchVars, dnsCacheVars>>

DialingSpec == DialingInit /\ [][DialingNext]_dialingVars
\* A search and a proxied dial that have not begun owe nothing; a Happy
\* Eyeballs dial has begun its lookups in its initial state.
DialingFairSpec ==
  /\ DialingSpec
  /\ part = "eyeballs" => EyeballsFairness
  /\ SearchFairness
  /\ DialsFairness

\* Types of all four parts.
DialingTypeOK == EyeballsTypeOK /\ SearchTypeOK /\ DnsCacheTypeOK /\ DialsTypeOK
=============================================================================
