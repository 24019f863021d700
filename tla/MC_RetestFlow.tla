---------------------------- MODULE MC_RetestFlow ----------------------------
(* Small instances of RetestFlow: one or two test requests, two callers of  *)
(* retestTask.start and at most three rows of each kind.  The callers are   *)
(* interchangeable; runs, bugs and tasks are not, their order is their age. *)
EXTENDS RetestFlow, TLC

CONSTANTS q1, q2, c1, c2, Foci

VARIABLE focus

CallerSymmetry == Permutations(Callers)

(* Retest tasks around failing runs, without decisions                      *)
FlowNext ==
    \/ \E q \in Requests : CreateRun(q)
    \/ \E r \in Run : DeleteRun(r) \/ UpdateRunStatus(r, "FAILED")
    \/ \E r \in Run, a \in BOOLEAN : CreateBug(r, a, FALSE)
    \/ \E b \in Bug, r \in Run, a \in BOOLEAN : UpdateBug(b, r, bugs[b].status, a, FALSE)
    \/ \E b \in Bug : DeleteBug(b) \/ SetFixedVersion(b) \/ MarkReadyForRetest(b)
    \/ \E b \in Bug, passed \in BOOLEAN : Retest(b, passed)
    \/ TaskMethods

(* Two runs, a bug and its retest task around decisions and unlocks, or two *)
(* runs, a bug and an issue                                                 *)
LocksNext ==
    /\ RunMethods \/ BugMethods \/ \E q \in Requests : DecisionLocks(q)
    /\ runs'[3] = runs[3] /\ tasks'[2] = tasks[2]

IssuesNext ==
    /\ RunMethods \/ BugMethods \/ IssueMethods
    /\ runs'[3] = runs[3] /\ tasks' = tasks

FocusInit == focus \in Foci /\ RetestInit

FocusNext ==
    /\ \/ focus = "flow" /\ FlowNext
       \/ focus = "locks" /\ LocksNext
       \/ focus = "issues" /\ IssuesNext
    /\ focus' = focus

FocusSpec == FocusInit /\ [][FocusNext]_<<retestVars, focus>>
===============================================================================
