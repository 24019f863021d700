----------------------------- MODULE ReleaseLedger -----------------------------
(***************************************************************************)
(* What the release workflow promises an auditor, whatever its methods do  *)
(* to the rows of requests, versions, runs, bugs and tasks: requests are   *)
(* bundled in versions, each in one for good; runs are filed under         *)
(* requests; a decision on a version seals the runs filed under what it    *)
(* covers, and a sealed run is never filed elsewhere or thrown away; an    *)
(* outcome is only ever replaced by the publication of what was approved.  *)
(* ReleaseWorkflow.tla is the implementation.                              *)
(***************************************************************************)
CONSTANTS
    Requests,  \* the test requests
    Versions,  \* the identifiers of versions
    Runs,      \* the identifiers of test runs
    None       \* the request of a run that is not there

VARIABLES
    covers,   \* covers[v]: the requests of version v, none before it is made
    outcome,  \* outcome[v]: what was decided on v, "none" before
    filed,    \* filed[r]: the request of run r, or None
    sealed    \* the runs that were part of a decision

ledger == <<covers, outcome, filed, sealed>>

Init ==
    /\ covers = [v \in Versions |-> {}]
    /\ outcome = [v \in Versions |-> "none"]
    /\ filed = [r \in Runs |-> None]
    /\ sealed = {}

(* One or more versions are made, of requests no version covers. *)
Bundle ==
    /\ covers' \in [Versions -> SUBSET Requests]
    /\ \A v \in Versions : covers[v] # {} => covers'[v] = covers[v]
    /\ \A v, w \in Versions : v # w => covers'[v] \cap covers'[w] = {}
    /\ UNCHANGED <<outcome, filed, sealed>>

(* A run is created, moved to another request, or deleted. *)
File(r, q) ==
    /\ r \notin sealed
    /\ filed' = [filed EXCEPT ![r] = q]
    /\ UNCHANGED <<covers, outcome, sealed>>

Seal(v) ==
    /\ sealed' = sealed \cup {r \in Runs : filed[r] \in covers[v]}
    /\ UNCHANGED <<covers, filed>>

(* A decision that blocks the version seals its runs and decides nothing. *)
Decide(v, o) ==
    /\ covers[v] # {}
    /\ outcome[v] = "none"
    /\ outcome' = [outcome EXCEPT ![v] = o]
    /\ Seal(v)

Publish(v) ==
    /\ outcome[v] \in {"APPROVED", "CONDITIONAL"}
    /\ outcome' = [outcome EXCEPT ![v] = "PUBLISHED"]
    /\ Seal(v)

Next ==
    \/ Bundle
    \/ \E r \in Runs, q \in Requests \cup {None} : File(r, q)
    \/ \E v \in Versions :
          \/ \E o \in {"none", "APPROVED", "CONDITIONAL", "REJECTED"} : Decide(v, o)
          \/ Publish(v)

Spec == Init /\ [][Next]_ledger
===============================================================================
