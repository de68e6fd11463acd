---------------------------- MODULE ServerLists ----------------------------
(* Both users of cached server lists: the services of lib/core/network, or  *)
(* the home screen.  Nothing under lib/ calls a service while the screen    *)
(* runs, so a behaviour follows one of them while the other keeps its       *)
(* initial state.                                                           *)
EXTENDS HomeServers

VARIABLE user     \* whose lists the behaviour follows

listsVars == <<user, appVars>>

ListsInit ==
  /\ user \in {"services", "home"} /\ HomeInit
  /\ user = "services" => ~up
  /\ user = "home" => service = CHOOSE s \in Services : TRUE

ListsNext ==
  \/ user = "services" /\ FeedNext /\ UNCHANGED <<user, homeVars, up>>
  \/ user = "home" /\ HomeNext /\ UNCHANGED user

ListsSpec == ListsInit /\ [][ListsNext]_listsVars
ListsFairSpec == ListsSpec /\ (user = "home" => HomeFairness)
=============================================================================
