--------------------------- MODULE MC_SecurityReview ---------------------------
(* Small instances of SecurityReview with one request.  A behaviour is about   *)
(* one thing, its focus: the life of the request and its version, everything   *)
(* that can change the evidence of a decided version, or the security review.  *)
EXTENDS SecurityReview

CONSTANTS q1, q2, c1, g1, i1, i2, Foci

VARIABLE focus

MCGroupOf == [q \in Requests |-> g1]

focusVars == <<securityVars, focus>>

FocusInit == focus \in Foci /\ SecurityInit

NoNewRun == \A r \in Run : r > 1 => runs'[r] = runs[r]
Uncancelled == \A q \in Requests : requests'[q].status # "CANCELLED"

(* Each focus leaves out what the others go through: no re-run, retest or issue *)
(* beside a security review; no critical bug and at most an issue or a task in  *)
(* the life of a request; only approvals, of requests that stay, when evidence  *)
(* changes.                                                                     *)
OnFocus ==
    /\ focus # "review" => mustReview' = {} /\ template' = template /\ incomplete' = {}
    /\ focus # "evidence" => NoNewRun /\ \A b \in Bug : bugs'[b].status # "CLOSED"
    /\ focus # "life" => <<tasks, issues>>' = <<tasks, issues>> /\ Uncancelled
    /\ focus = "life" => /\ tasks' = tasks \/ \A i \in Issue : issues[i].status = "UNUSED"
                         /\ issues' = issues \/ \A t \in Task : tasks[t].status = "UNUSED"
                         /\ \A v \in Version : versions'[v].status = "DRAFT" => Live(versions, v)
                         /\ \A b \in Bug : ~bugs'[b].critical
    /\ focus # "review" => \A v \in Version : versions'[v].quality # "RETEST_REQUIRED"
    /\ focus = "review" => bugs' = bugs
    /\ focus = "evidence" => \A v \in Version : versions'[v].decision \in {None, "APPROVED"}

FocusNext == SecurityNext /\ OnFocus /\ UNCHANGED focus

FocusSpec == FocusInit /\ [][FocusNext]_focusVars
===============================================================================
