-------------------------- MODULE MC_ReleaseWorkflow --------------------------
(* Small instances of ReleaseWorkflow: one or two requests of one group, so *)
(* that versions with related requests occur.  A behaviour is about how     *)
(* requests become versions, with no run deleted or unlocked; or about what *)
(* happens to the runs of one version when it has been judged and decided,  *)
(* with no security review, accepted risk or blocking decision.             *)
EXTENDS ReleaseWorkflow, TLC

CONSTANTS q1, q2, c1, g1, Foci

VARIABLE focus

(* No definition tells two requests of one group apart. *)
RequestSymmetry == Permutations(Requests)

MCGroupOf == [q \in Requests |-> g1]

focusVars == <<vars, focus>>

FocusInit == focus \in Foci /\ Init

OnFocus ==
    /\ focus = "groups" => \A r \in Run :
          Live(runs, r) => Live(runs', r) /\ (runs[r].locked => runs'[r].locked)
    /\ focus = "runs" => \A v \in Version :
          /\ versions'[v].status # "SECURITY_REVIEW" /\ versions'[v].decision # "BLOCKED"
          /\ ~versions'[v].risk /\ (v > 1 => ~Live(versions', v))

FocusNext == Next /\ OnFocus /\ UNCHANGED focus

FocusSpec == FocusInit /\ [][FocusNext]_focusVars
===============================================================================
