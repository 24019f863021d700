---------------------------- MODULE SecurityReview ----------------------------
(***************************************************************************)
(* The security review a QA lead asks for with a quality verdict           *)
(* (securityChecklistApi of api.ts), on top of ReleaseWorkflow: the        *)
(* checklist, its evidence, the remediation round of findings through QA   *)
(* and a developer, and the completion that gives the version to decision. *)
(*                                                                         *)
(* A result is clean (PASS, N_A) or a finding (FAIL, PARTIAL).  There is   *)
(* one review of a request, found by the request.                          *)
(***************************************************************************)
EXTENDS ReleaseWorkflow, Sequences

CONSTANTS
    ChecklistItems, \* items the template can have
    MaxExecutions   \* bound on the security executions of one review

ASSUME SecurityAssumption == MaxExecutions \in Nat

VARIABLES
    template,     \* securityChecklistTemplate, as the set of its items
    mustReview,   \* requests with securityTestRequired
    reviews       \* reviews[q]: the row of securityReviews for q, or an absent one

reviewVars == <<template, mustReview, reviews>>
securityVars == <<vars, reviewVars>>

Result == {"open", "clean", "finding"}
ReviewStatus == {"PENDING", "IN_PROGRESS", "NEEDS_QA_REVIEW", "ASSIGNED_TO_QA", "DEVELOPER_FIX",
                 "FIXED_PENDING_QA", "QA_REPORT_REVIEW", "RETURNED_TO_SECURITY", "COMPLETED"}
Editable == {"PENDING", "IN_PROGRESS", "RETURNED_TO_SECURITY"}
ExecutionStatus == {"ASSIGNED_TO_DEVELOPER", "FIXED"}

NoReview == [status |-> "UNUSED", items |-> <<>>, evidence |-> FALSE, report |-> FALSE,
             executions |-> <<>>]
Checklist(items) == [items -> Result]
ReviewRow == [status : ReviewStatus \cup {"UNUSED"},
              items : UNION {Checklist(items) : items \in SUBSET ChecklistItems},
              evidence : BOOLEAN, report : BOOLEAN, executions : Seq(ExecutionStatus)]

SecurityTypeOK ==
    /\ ReleaseTypeOK
    /\ template \subseteq ChecklistItems
    /\ mustReview \subseteq Requests
    /\ reviews \in [Requests -> ReviewRow]

SecurityInit ==
    /\ Init
    /\ template = ChecklistItems
    /\ mustReview = {}
    /\ reviews = [q \in Requests |-> NoReview]

-------------------------------------------------------------------------------
(* ensureSecurityReviewForRequest: a review the request has already is kept *)
Ensured(q) ==
    IF reviews[q].status # "UNUSED" THEN reviews[q]
    ELSE [NoReview EXCEPT !.status = "PENDING", !.items = [i \in template |-> "open"]]

GiveVerdict(v, quality, security) ==
    LET q == versions[v].primary
    IN  /\ SetQAQuality(v, quality, security)
        /\ mustReview' = IF security THEN mustReview \cup {q} ELSE mustReview \ {q}
        /\ reviews' = IF security THEN [reviews EXCEPT ![q] = Ensured(q)] ELSE reviews
        /\ UNCHANGED template

AskForRerun(v) ==
    /\ RequestRerun(v)
    /\ mustReview' = mustReview \ Linked(v)
    /\ UNCHANGED <<template, reviews>>

-------------------------------------------------------------------------------
(* The steps of a review that leave its version alone *)
SetReview(q, from, row) ==
    /\ reviews[q].status \in from
    /\ reviews' = [reviews EXCEPT ![q] = row]
    /\ UNCHANGED <<vars, template, mustReview>>

Moved(q, status) == [reviews[q] EXCEPT !.status = status]

UpdateItem(q, i, result) ==
    /\ i \in DOMAIN reviews[q].items
    /\ SetReview(q, Editable,
           [reviews[q] EXCEPT !.items[i] = result,
                              !.status = IF @ = "PENDING" THEN "IN_PROGRESS" ELSE @])

UploadEvidence(q) == SetReview(q, Editable, [reviews[q] EXCEPT !.evidence = TRUE])
UploadQaReport(q) == SetReview(q, {"FIXED_PENDING_QA"}, [reviews[q] EXCEPT !.report = TRUE])

(* complete, up to the question whether there are findings *)
HasResult(q, result) == \E i \in DOMAIN reviews[q].items : reviews[q].items[i] = result

CanComplete(q) ==
    /\ reviews[q].status \in Editable
    /\ ~HasResult(q, "open")
    /\ reviews[q].evidence

SubmitFindings(q) ==
    /\ CanComplete(q)
    /\ HasResult(q, "finding")
    /\ SetReview(q, Editable, Moved(q, "NEEDS_QA_REVIEW"))

(* The rest of complete: the version that waits for this review goes on *)
AwaitingReview(q) ==
    {v \in Version : versions[v].primary = q /\ versions[v].status = "SECURITY_REVIEW"}

CompleteAnyway(q) ==
    /\ CanComplete(q)
    /\ reviews' = [reviews EXCEPT ![q] = Moved(q, "COMPLETED")]
    /\ \/ \E v \in AwaitingReview(q) : ToDecision(v)
       \/ AwaitingReview(q) = {} /\ UNCHANGED vars
    /\ UNCHANGED <<template, mustReview>>
Complete(q) ==
    /\ CanComplete(q)
    /\ ~HasResult(q, "finding")
    /\ reviews' = [reviews EXCEPT ![q] = Moved(q, "COMPLETED")]
    /\ \/ \E v \in AwaitingReview(q) : ToDecision(v)
       \/ AwaitingReview(q) = {} /\ UNCHANGED vars
    /\ UNCHANGED <<template, mustReview>>

(* The remediation of findings *)
QaLeadReviewRaw(q, decision) == SetReview(q, {"NEEDS_QA_REVIEW"}, Moved(q, decision))
QaLeadReviewBack(q, decision) ==
    /\ reviews[q].status = "NEEDS_QA_REVIEW"
    /\ reviews' = [reviews EXCEPT ![q].status = "RETURNED_TO_SECURITY"]
    /\ \E v \in AwaitingReview(q) : SetVersion(v, [versions[v] EXCEPT !.status = "QA_REVIEW"])
    /\ UNCHANGED <<retestVars, incomplete, newer, requests, template, mustReview>>
QaLeadReview(q, decision) ==
    SetReview(q, {"NEEDS_QA_REVIEW"},
        Moved(q, IF decision = "ASSIGN_QA" THEN "ASSIGNED_TO_QA" ELSE "RETURNED_TO_SECURITY"))

CreateSecurityExecution(q) ==
    /\ Len(reviews[q].executions) < MaxExecutions
    /\ SetReview(q, {"ASSIGNED_TO_QA"},
           [Moved(q, "DEVELOPER_FIX") EXCEPT !.executions = <<"ASSIGNED_TO_DEVELOPER">> \o @])

ResolveAnyExecution(q, n) ==
    /\ n \in DOMAIN reviews[q].executions
    /\ SetReview(q, {"DEVELOPER_FIX"}, Moved(q, "FIXED_PENDING_QA"))
ResolveSecurityExecution(q, n) ==
    /\ n \in DOMAIN reviews[q].executions
    /\ reviews[q].executions[n] = "ASSIGNED_TO_DEVELOPER"
    /\ SetReview(q, {"DEVELOPER_FIX"},
           [Moved(q, "FIXED_PENDING_QA") EXCEPT !.executions[n] = "FIXED"])

SubmitQaReport(q) ==
    reviews[q].report /\ SetReview(q, {"FIXED_PENDING_QA"}, Moved(q, "QA_REPORT_REVIEW"))

ReviewQaReport(q, approved) ==
    SetReview(q, {"QA_REPORT_REVIEW"},
        Moved(q, IF approved THEN "RETURNED_TO_SECURITY" ELSE "FIXED_PENDING_QA"))

ChangeTemplate(i) ==
    /\ template' = IF i \in template THEN template \ {i} ELSE template \cup {i}
    /\ UNCHANGED <<vars, mustReview, reviews>>

-------------------------------------------------------------------------------
ReviewMethods(q) ==
    \/ \E i \in ChecklistItems, result \in {"clean", "finding"} : UpdateItem(q, i, result)
    \/ UploadEvidence(q)
    \/ UploadQaReport(q)
    \/ SubmitFindings(q)
    \/ Complete(q)
    \/ \E decision \in {"ASSIGN_QA", "RETURN_SECURITY"} : QaLeadReview(q, decision)
    \/ CreateSecurityExecution(q)
    \/ \E n \in 1..MaxExecutions : ResolveSecurityExecution(q, n)
    \/ SubmitQaReport(q)
    \/ \E approved \in BOOLEAN : ReviewQaReport(q, approved)

VerdictMethods ==
    \E v \in Version :
        \/ Calls("rerun") /\ AskForRerun(v)
        \/ \E quality \in Qualities, security \in {FALSE, Calls("security")} :
              GiveVerdict(v, quality, security)

SecurityNext ==
    \/ OtherMethods /\ UNCHANGED reviewVars
    \/ VerdictMethods
    \/ \E q \in Requests : ReviewMethods(q)
    \/ Calls("template") /\ \E i \in ChecklistItems : ChangeTemplate(i)

SecuritySpec == SecurityInit /\ [][SecurityNext]_securityVars

-------------------------------------------------------------------------------
(* A version whose primary request must be reviewed gets to the decision, and  *)
(* beyond, only with a completed review that has evidence and no finding, and  *)
(* nobody can change that review any more                                      *)
SecurityGate ==
    \A v \in Version :
       /\ versions[v].status \in {"PENDING_DECISION", "APPROVED", "CONDITIONAL", "REJECTED",
                                  "PUBLISHED"}
       /\ versions[v].primary \in mustReview
       => LET q == versions[v].primary
          IN  /\ reviews[q].status = "COMPLETED"
              /\ reviews[q].evidence
              /\ ~HasResult(q, "finding") /\ ~HasResult(q, "open")

(* A developer has something to fix exactly while the review waits for the     *)
(* developer, and then one thing: a round of remediation leaves no open        *)
(* security execution behind for the next                                      *)
OneOpenExecution ==
    \A q \in Requests :
       Cardinality({n \in DOMAIN reviews[q].executions :
                       reviews[q].executions[n] = "ASSIGNED_TO_DEVELOPER"})
          = IF reviews[q].status = "DEVELOPER_FIX" THEN 1 ELSE 0

(* ReleaseWorkflow's single step for a completed review is what the review      *)
(* does to versions and requests, whatever happens inside it                    *)
ReleaseSpec == Spec

(* When every result is clean and the review is completed, its version moves to *)
(* PENDING_DECISION: it does not stay in the security review                    *)
ReviewedVersionsMoveOn ==
    \A v \in Version :
       versions[v].status = "SECURITY_REVIEW" => reviews[versions[v].primary].status # "COMPLETED"
===============================================================================
