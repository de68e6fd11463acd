--------------------------- MODULE StreamWrappers --------------------------
(* The two families of stream wrappers side by side: the writers that       *)
(* reshape a stream and the Shadowsocks connection.  They share nothing, so *)
(* a behaviour follows one of them while the other keeps its initial state. *)
EXTENDS StreamWriters, ShadowsocksStream

VARIABLE wrapper     \* which of them the behaviour follows

wrappersVars == <<wrapper, writerVars, ssVars>>

AnyStream == CHOOSE s \in Streams : TRUE
WritersAtRest ==
  /\ kind = "split" /\ stream = AnyStream /\ eof = "eof"
  /\ plan = CHOOSE q \in SplitPlans : TRUE
  /\ splitLen = CHOOSE l \in SplitLens : TRUE
  /\ writesToDisorder = CHOOSE d \in DisorderAt : TRUE

WrappersInit ==
  /\ wrapper \in {"writers", "shadowsocks"} /\ WritersInit /\ SSInit
  /\ wrapper = "writers" \/ WritersAtRest

WrappersNext ==
  \/ wrapper = "writers" /\ WritersNext /\ UNCHANGED <<wrapper, ssVars>>
  \/ wrapper = "shadowsocks" /\ SSNext /\ UNCHANGED <<wrapper, writerVars>>

WrappersSpec == WrappersInit /\ [][WrappersNext]_wrappersVars
WrappersFairSpec == WrappersSpec /\ (wrapper = "shadowsocks" => SSFairness)
=============================================================================
