---------------------------- MODULE MC_Services ----------------------------
(***************************************************************************)
(* Small instances of three models that share no state: the browser's side *)
(* of the bridge, planning, and the contexts of a user.  Each behaviour is *)
(* about one of them, its focus; the rest stays as it began.               *)
(***************************************************************************)
EXTENDS RpcClient, Planning, ContextStore

CONSTANTS x1, x2, a1, a2, Foci

VARIABLE focus

servicesVars == <<clientVars, planningVars, contextVars, focus>>

MCAppOf == [q \in Request |-> IF q = 1 THEN a1 ELSE a2]
MCRoleOf == <<"QA_LEAD", "QA_LEAD", "DEVELOPER">>

ServicesInit ==
    /\ focus \in Foci
    /\ ClientInit
    /\ PlanningInit
    /\ ContextInit
    /\ focus \notin {"calls", "switches"} => apiMode = "strict" /\ orderly
    /\ focus # "switches" => context = x1

(* Calls of one context, the mutations among them; reads that may fall back, *)
(* while the user switches                                                   *)
ClientFocus ==
    /\ focus = "calls" => context' = context
    /\ focus = "switches" => \A c \in Clients : asked'[c].op = "read"
    /\ focus = "switches" => \A f \in fetches' : ~f.must

(* Two requirements of one application and one run, the requests as they are; *)
(* two requests, each of its own application, for one requirement, two runs   *)
PlanningFocus ==
    /\ focus = "planning" =>
          /\ \A r \in Requirement : store'.requirements[r].app = a1
          /\ store'.requests = store.requests
          /\ 2 \notin {store'.requirements[r].request : r \in Requirement}
          /\ executions'[2] = NoExecution
    /\ focus = "applications" => store'.requirements[2] = NoRequirement

(* The assignment of the other role stays *)
ContextFocus == MaxAssignments \in granted'

ServicesNext ==
    \/ /\ focus \in {"calls", "switches"}
       /\ ClientNext
       /\ ClientFocus
       /\ UNCHANGED <<planningVars, contextVars, focus>>
    \/ /\ focus \in {"planning", "applications"}
       /\ PlanningNext
       /\ PlanningFocus
       /\ UNCHANGED <<clientVars, contextVars, focus>>
    \/ /\ focus = "session"
       /\ ContextNext
       /\ ContextFocus
       /\ UNCHANGED <<clientVars, planningVars, focus>>

ServicesSpec == ServicesInit /\ [][ServicesNext]_servicesVars

(* Every variable of the three models holds a value of its type: calls and *)
(* flights, the rows of both stores, the page and its calls under way.     *)
ServicesTypeOK == ClientTypeOK /\ PlanningTypeOK /\ ContextTypeOK
=============================================================================
