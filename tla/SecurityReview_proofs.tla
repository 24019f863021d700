-------------------------- MODULE SecurityReview_proofs --------------------------
(***************************************************************************)
(* Proofs about SecurityReview, for every number of rows, versions,        *)
(* checklist items and executions.                                         *)
(***************************************************************************)
EXTENDS SecurityReview, ReleaseWorkflow_proofs

-------------------------------------------------------------------------------
(* What the steps of a review are for the versions: nothing, or the completion *)
(* of one that waits for it.                                                   *)
ReviewStep == \E q \in Requests : ReviewMethods(q)
TemplateStep == \E i \in ChecklistItems : ChangeTemplate(i)
VerdictStep ==
    \E v \in Version :
        \/ AskForRerun(v)
        \/ \E quality \in Qualities, security \in {FALSE, Calls("security")} :
              GiveVerdict(v, quality, security)

(* OtherMethods, without the flags of the callers that are modelled *)
OtherStep ==
    \/ RequestStep \/ LinkingStep \/ LockingStep \/ RunStep \/ RetestStep
    \/ \E v \in Version : SubmitForQAReview(v) \/ EmergencyPublish(v)

SecurityStep == (OtherStep /\ UNCHANGED reviewVars) \/ VerdictStep \/ ReviewStep \/ TemplateStep

LEMMA NextIsSecurityStep == SecurityNext => SecurityStep
<1>1. OtherMethods => OtherStep
  <2>1. RequestMethods => RequestStep
    BY DEF RequestMethods, RequestStep
  <2>2. VersionMethods => OtherStep
    BY DEF VersionMethods, OtherStep, LinkingStep, LockingStep
  <2>3. QED
    BY <2>1, <2>2 DEF OtherMethods, OtherStep, RunStep
<1>2. VerdictMethods => VerdictStep
  BY Zenon DEF VerdictMethods, VerdictStep
<1>3. QED
  BY <1>1, <1>2 DEF SecurityNext, SecurityStep, ReviewStep, TemplateStep

LEMMA VerdictIsVersionStep == VerdictStep => VersionStep
  BY Zenon DEF VerdictStep, VersionStep, AskForRerun, GiveVerdict

(* One review at a time: every step of a review is SetReview but its completion. *)
LEMMA ReviewStepIs ==
    ASSUME NEW q \in Requests, ReviewMethods(q)
    PROVE  \/ /\ UNCHANGED <<vars, template, mustReview>>
              /\ \E row : /\ reviews[q].status # "COMPLETED"
                          /\ reviews' = [reviews EXCEPT ![q] = row]
           \/ Complete(q)
<1>1. ASSUME NEW from, NEW row, SetReview(q, from, row), "COMPLETED" \notin from
      PROVE  /\ UNCHANGED <<vars, template, mustReview>>
             /\ \E x : /\ reviews[q].status # "COMPLETED"
                       /\ reviews' = [reviews EXCEPT ![q] = x]
  BY <1>1 DEF SetReview
<1>2. "COMPLETED" \notin Editable
  BY DEF Editable
<1>3. ASSUME NEW i \in ChecklistItems, NEW result, UpdateItem(q, i, result)
      PROVE  /\ UNCHANGED <<vars, template, mustReview>>
             /\ \E x : /\ reviews[q].status # "COMPLETED"
                       /\ reviews' = [reviews EXCEPT ![q] = x]
  BY <1>1, <1>2, <1>3 DEF UpdateItem
<1>4. ASSUME \/ UploadEvidence(q) \/ UploadQaReport(q) \/ SubmitFindings(q) \/ SubmitQaReport(q)
             \/ CreateSecurityExecution(q)
      PROVE  /\ UNCHANGED <<vars, template, mustReview>>
             /\ \E x : /\ reviews[q].status # "COMPLETED"
                       /\ reviews' = [reviews EXCEPT ![q] = x]
  BY <1>1, <1>2, <1>4 DEF UploadEvidence, UploadQaReport, SubmitFindings, SubmitQaReport,
     CreateSecurityExecution
<1>5. ASSUME NEW x, QaLeadReview(q, x) \/ ReviewQaReport(q, x) \/ ResolveSecurityExecution(q, x)
      PROVE  /\ UNCHANGED <<vars, template, mustReview>>
             /\ \E row : /\ reviews[q].status # "COMPLETED"
                         /\ reviews' = [reviews EXCEPT ![q] = row]
  BY <1>1, <1>5 DEF QaLeadReview, ReviewQaReport, ResolveSecurityExecution
<1>6. QED
  BY <1>3, <1>4, <1>5 DEF ReviewMethods

-------------------------------------------------------------------------------
(* A version only waits for a review where the QA leads ask for reviews. *)
ReviewsAreAsked == \A v \in Version : versions[v].status = "SECURITY_REVIEW" => Calls("security")

NoNewReview ==
    \A v \in Version : versions'[v].status = "SECURITY_REVIEW" =>
        versions[v].status = "SECURITY_REVIEW" \/ Calls("security")

LEMMA SetVersionReview ==
    ASSUME ReleaseTyped, NEW v \in Version, NEW row, SetVersion(v, row),
           \/ row.status # "SECURITY_REVIEW"
           \/ row.status = versions[v].status
           \/ Calls("security")
    PROVE  NoNewReview
  BY DEF SetVersion, NoNewReview, ReleaseTyped

LEMMA VersionStepReview == RetestTypeOK /\ ReleaseTyped /\ VersionStep => NoNewReview
<1> SUFFICES ASSUME RetestTypeOK, ReleaseTyped, NEW v \in Version,
                    \/ SubmitForQAReview(v)
                    \/ EmergencyPublish(v)
                    \/ RequestRerun(v)
                    \/ \E quality \in Qualities, security \in {FALSE, Calls("security")} :
                          SetQAQuality(v, quality, security)
                    \/ SecurityReviewDone(v)
             PROVE  NoNewReview
  BY DEF VersionStep
<1>1. versions[v] \in VersionRow
  BY DEF ReleaseTyped
<1>2. \A s : [versions[v] EXCEPT !.status = s].status = s
  BY <1>1 DEF VersionRow
<1>3. CASE SubmitForQAReview(v)
  BY <1>2, <1>3, SetVersionReview DEF SubmitForQAReview
<1>4. CASE EmergencyPublish(v)
  <2>1. [versions[v] EXCEPT !.risk = TRUE].status = versions[v].status
    BY <1>1 DEF VersionRow
  <2>2. QED
    BY <1>4, <2>1, SetVersionReview DEF EmergencyPublish
<1>5. CASE RequestRerun(v)
  <2> DEFINE row == [Judged(v, "RETEST_REQUIRED", "QA_REVIEW") EXCEPT
                        !.baseline = FinalRunCount(runs, v)]
  <2>1. row.status = "QA_REVIEW"
    BY <1>1 DEF Judged, VersionRow
  <2>2. SetVersion(v, row)
    BY <1>5 DEF RequestRerun
  <2> HIDE DEF row
  <2>3. QED
    BY <2>1, <2>2, SetVersionReview
<1>6. ASSUME NEW quality \in Qualities, NEW security \in {FALSE, Calls("security")},
             SetQAQuality(v, quality, security)
      PROVE  NoNewReview
  <2> DEFINE row == Judged(v, quality,
                           IF security THEN "SECURITY_REVIEW" ELSE "PENDING_DECISION")
  <2>1. row.status = "PENDING_DECISION" \/ Calls("security")
    <3>1. security \/ ~security
      OBVIOUS
    <3>2. ~security => row.status = "PENDING_DECISION"
      BY <1>1 DEF Judged, VersionRow
    <3>3. security => Calls("security")
      BY Zenon
    <3>4. QED
      BY <3>1, <3>2, <3>3, Zenon
  <2>2. SetVersion(v, row)
    BY <1>6 DEF SetQAQuality
  <2> HIDE DEF row
  <2>3. QED
    BY <2>1, <2>2, SetVersionReview
<1>7. CASE SecurityReviewDone(v)
  BY <1>2, <1>7, SetVersionReview DEF SecurityReviewDone, ToDecision
<1>8. QED
  BY <1>3, <1>4, <1>5, <1>6, <1>7

LEMMA LinkingStepReview == ReleaseTyped /\ LinkingStep => NoNewReview
  BY LinkingStepMoves DEF NoNewReview

LEMMA StepReview == RetestTypeOK /\ ReleaseTyped /\ ReleaseStep => NoNewReview
<1> SUFFICES ASSUME RetestTypeOK, ReleaseTyped, ReleaseStep PROVE NoNewReview
  OBVIOUS
<1>1. UNCHANGED versions => NoNewReview
  BY DEF NoNewReview
<1>2. CASE LockingStep
  <2>1. PICK v \in Version, row \in VersionRow :
           LockAndReflect(v, row) /\ row.status # "SECURITY_REVIEW"
    BY <1>2, LockingRows
  <2>2. QED
    BY <2>1, SetVersionReview DEF LockAndReflect
<1>3. CASE RunStep
  BY <1>3, RunStepMoves DEF NoNewReview
<1>4. QED
  BY <1>1, <1>2, <1>3, LinkingStepReview, VersionStepReview, RequestStepLinks, RetestStepLinks
     DEF ReleaseStep

-------------------------------------------------------------------------------
(* The step of ReleaseWorkflow that a step of SecurityReview is. *)
LEMMA CompleteIsRelease ==
    ASSUME ReviewsAreAsked, NEW q \in Requests, Complete(q) PROVE [Next]_vars
<1>1. CASE UNCHANGED vars
  BY <1>1
<1>2. ASSUME NEW v \in AwaitingReview(q), ToDecision(v) PROVE Next
  <2>1. v \in Version /\ versions[v].status = "SECURITY_REVIEW"
    BY DEF AwaitingReview
  <2>2. Calls("security") /\ SecurityReviewDone(v)
    BY <1>2, <2>1 DEF ReviewsAreAsked, SecurityReviewDone
  <2>3. QED
    BY <2>1, <2>2 DEF Next, QualityMethods
<1>3. QED
  BY <1>1, <1>2 DEF Complete

LEMMA SecurityStepIsRelease == ReviewsAreAsked /\ [SecurityNext]_securityVars => [Next]_vars
<1> SUFFICES ASSUME ReviewsAreAsked, [SecurityNext]_securityVars PROVE [Next]_vars
  OBVIOUS
<1>1. CASE OtherMethods
  BY <1>1 DEF Next
<1>2. CASE VerdictMethods
  <2>1. QualityMethods
    BY <1>2, Zenon DEF VerdictMethods, QualityMethods, AskForRerun, GiveVerdict
  <2>2. QED
    BY <2>1 DEF Next
<1>3. ASSUME NEW q \in Requests, ReviewMethods(q) PROVE [Next]_vars
  BY <1>3, ReviewStepIs, CompleteIsRelease
<1>4. CASE \E i \in ChecklistItems : ChangeTemplate(i)
  BY <1>4 DEF ChangeTemplate
<1>5. CASE UNCHANGED securityVars
  BY <1>5 DEF securityVars
<1>6. QED
  BY <1>1, <1>2, <1>3, <1>4, <1>5 DEF SecurityNext

LEMMA ReviewsAskedNext ==
    ReleaseInv /\ ReviewsAreAsked /\ [Next]_vars => ReviewsAreAsked'
<1> SUFFICES ASSUME ReleaseInv, ReviewsAreAsked, [Next]_vars PROVE ReviewsAreAsked'
  OBVIOUS
<1>1. CASE Next
  <2>1. NoNewReview
    BY <1>1, NextIsStep, StepReview DEF ReleaseInv, RetestInv
  <2>2. QED
    BY <2>1 DEF NoNewReview, ReviewsAreAsked, Calls
<1>2. CASE UNCHANGED vars
  BY <1>2 DEF vars, ReviewsAreAsked, Calls
<1>3. QED
  BY <1>1, <1>2

SecurityReleaseInv == ReleaseInv /\ ReviewsAreAsked

LEMMA SecurityReleaseInit == SecurityInit => SecurityReleaseInv
<1>1. SecurityInit => Init
  BY DEF SecurityInit
<1>2. Init => ReviewsAreAsked
  BY DEF Init, NoVersion, ReviewsAreAsked
<1>3. QED
  BY <1>1, <1>2, ReleaseInitInv DEF SecurityReleaseInv

LEMMA SecurityReleaseNext ==
    SecurityReleaseInv /\ [SecurityNext]_securityVars => SecurityReleaseInv'
  BY SecurityStepIsRelease, ReleaseNextInv, ReviewsAskedNext DEF SecurityReleaseInv

(* Whatever happens inside the reviews, requests, versions and their evidence   *)
(* move as ReleaseWorkflow says: a completed review is its SecurityReviewDone,   *)
(* a verdict its SetQAQuality or RequestRerun, and all else leaves them alone.   *)
THEOREM SecurityRefinesRelease == SecuritySpec => ReleaseSpec
<1>1. SecurityInit => Init
  BY DEF SecurityInit
<1>2. SecuritySpec => []SecurityReleaseInv
  BY SecurityReleaseInit, SecurityReleaseNext, PTL DEF SecuritySpec
<1>3. SecurityReleaseInv /\ [SecurityNext]_securityVars => [Next]_vars
  BY SecurityStepIsRelease DEF SecurityReleaseInv
<1>4. QED
  BY <1>1, <1>2, <1>3, PTL DEF SecuritySpec, ReleaseSpec, Spec

(* With security reviews as without them, the evidence locked for an approved    *)
(* version holds no open critical bug unless the risk was accepted.              *)
THEOREM ReviewedEvidenceClean == SecuritySpec => []LockedEvidenceIsClean
  BY SecurityRefinesRelease, LockedEvidenceCleanHolds, PTL DEF ReleaseSpec

(* No step of a review takes a decision back either.                             *)
THEOREM ReviewedDecisionsHold == SecuritySpec => DecisionsAreFinal
  BY SecurityRefinesRelease, DecisionsHold, PTL DEF ReleaseSpec

-------------------------------------------------------------------------------
(* The types of the reviews, and the executions a review has open. *)
ReviewsTyped ==
    /\ template \subseteq ChecklistItems
    /\ mustReview \subseteq Requests
    /\ reviews \in [Requests -> ReviewRow]

OpenAt(row) == {n \in DOMAIN row.executions : row.executions[n] = "ASSIGNED_TO_DEVELOPER"}
Fits(row) == IF row.status = "DEVELOPER_FIX" THEN \E n : OpenAt(row) = {n} ELSE OpenAt(row) = {}
ExecutionsFit == \A q \in Requests : Fits(reviews[q])

LEMMA ReviewStatuses ==
    /\ Editable \subseteq ReviewStatus
    /\ "DEVELOPER_FIX" \notin Editable /\ "COMPLETED" \notin Editable /\ "UNUSED" \notin Editable
    /\ {"PENDING", "IN_PROGRESS", "NEEDS_QA_REVIEW", "ASSIGNED_TO_QA", "DEVELOPER_FIX",
        "FIXED_PENDING_QA", "QA_REPORT_REVIEW", "RETURNED_TO_SECURITY", "COMPLETED"}
          \subseteq ReviewStatus
  BY DEF Editable, ReviewStatus

LEMMA ReviewRows ==
    ASSUME NEW row \in ReviewRow
    PROVE  /\ row.status \in ReviewStatus \cup {"UNUSED"}
           /\ row.executions \in Seq(ExecutionStatus)
           /\ [row EXCEPT !.evidence = TRUE] \in ReviewRow
           /\ [row EXCEPT !.evidence = TRUE].status = row.status
           /\ [row EXCEPT !.evidence = TRUE].executions = row.executions
           /\ [row EXCEPT !.report = TRUE] \in ReviewRow
           /\ [row EXCEPT !.report = TRUE].status = row.status
           /\ [row EXCEPT !.report = TRUE].executions = row.executions
  BY DEF ReviewRow

LEMMA MovedRow ==
    ASSUME NEW row \in ReviewRow, NEW s \in ReviewStatus
    PROVE  /\ [row EXCEPT !.status = s] \in ReviewRow
           /\ [row EXCEPT !.status = s].status = s
           /\ [row EXCEPT !.status = s].executions = row.executions
  BY DEF ReviewRow

LEMMA NoReviewTyped ==
    /\ NoReview \in ReviewRow /\ NoReview.executions = <<>> /\ NoReview.status = "UNUSED"
    /\ Fits(NoReview)
<1>1. <<>> \in [{} -> Result] /\ {} \in SUBSET ChecklistItems
  OBVIOUS
<1>2. <<>> \in UNION {Checklist(items) : items \in SUBSET ChecklistItems}
  BY <1>1 DEF Checklist
<1>3. <<>> \in Seq(ExecutionStatus)
  OBVIOUS
<1>4. NoReview \in ReviewRow
  BY <1>2, <1>3 DEF NoReview, ReviewRow
<1>5. NoReview.executions = <<>> /\ NoReview.status = "UNUSED"
  BY DEF NoReview
<1>6. OpenAt(NoReview) = {}
  BY <1>5 DEF OpenAt
<1>7. QED
  BY <1>4, <1>5, <1>6 DEF Fits

(* A review that is replaced by one with the same executions, on both sides of *)
(* which nothing waits for the developer, still fits.                          *)
LEMMA ReplacedReview ==
    ASSUME ReviewsTyped, ExecutionsFit, NEW q \in Requests, NEW row \in ReviewRow,
           reviews' = [reviews EXCEPT ![q] = row], UNCHANGED <<template, mustReview>>,
           Fits(row)
    PROVE  ReviewsTyped' /\ ExecutionsFit'
  BY DEF ReviewsTyped, ExecutionsFit

LEMMA SameExecutions ==
    ASSUME ReviewsTyped, ExecutionsFit, NEW q \in Requests, NEW row,
           reviews[q].status # "DEVELOPER_FIX", row.status # "DEVELOPER_FIX",
           row.executions = reviews[q].executions
    PROVE  Fits(row)
  BY DEF ExecutionsFit, Fits, OpenAt

LEMMA SetReviewKeeps ==
    ASSUME ReviewsTyped, ExecutionsFit, NEW q \in Requests, NEW from, NEW row \in ReviewRow,
           SetReview(q, from, row), "DEVELOPER_FIX" \notin from, row.status # "DEVELOPER_FIX",
           row.executions = reviews[q].executions
    PROVE  ReviewsTyped' /\ ExecutionsFit'
  BY SameExecutions, ReplacedReview DEF SetReview

LEMMA CheckedItems ==
    ASSUME NEW row \in ReviewRow, NEW i \in DOMAIN row.items, NEW result \in Result
    PROVE  /\ [row EXCEPT !.items[i] = result] \in ReviewRow
           /\ [row EXCEPT !.items[i] = result].status = row.status
           /\ [row EXCEPT !.items[i] = result].executions = row.executions
<1>1. PICK items \in SUBSET ChecklistItems : row.items \in [items -> Result]
  BY DEF ReviewRow, Checklist
<1>2. [row.items EXCEPT ![i] = result] \in [items -> Result]
  BY <1>1
<1>3. [row.items EXCEPT ![i] = result] \in UNION {Checklist(x) : x \in SUBSET ChecklistItems}
  BY <1>2 DEF Checklist
<1>4. [row EXCEPT !.items = [row.items EXCEPT ![i] = result]] \in ReviewRow
  BY <1>3 DEF ReviewRow
<1>5. [row EXCEPT !.items[i] = result] = [row EXCEPT !.items = [row.items EXCEPT ![i] = result]]
  OBVIOUS
<1>6. QED
  BY <1>4, <1>5 DEF ReviewRow

LEMMA UpdateItemKeeps ==
    ASSUME ReviewsTyped, ExecutionsFit, NEW q \in Requests, NEW i \in ChecklistItems,
           NEW result \in {"clean", "finding"}, UpdateItem(q, i, result)
    PROVE  ReviewsTyped' /\ ExecutionsFit'
<1> DEFINE checked == [reviews[q] EXCEPT !.items[i] = result]
           s == IF reviews[q].status = "PENDING" THEN "IN_PROGRESS" ELSE reviews[q].status
           row == [checked EXCEPT !.status = s]
<1>1. reviews[q] \in ReviewRow /\ i \in DOMAIN reviews[q].items /\ reviews[q].status \in Editable
  BY DEF UpdateItem, SetReview, ReviewsTyped
<1>2. /\ checked \in ReviewRow /\ checked.status = reviews[q].status
      /\ checked.executions = reviews[q].executions
  <2>1. result \in Result
    BY DEF Result
  <2>2. QED
    BY <1>1, <2>1, CheckedItems
<1>3. s \in ReviewStatus /\ s # "DEVELOPER_FIX"
  BY <1>1, ReviewStatuses
<1>4. row \in ReviewRow /\ row.status = s /\ row.executions = reviews[q].executions
  <2> HIDE DEF s, checked
  <2>1. QED
    BY <1>2, <1>3, MovedRow
<1>5. [reviews[q] EXCEPT !.items[i] = result,
                         !.status = IF @ = "PENDING" THEN "IN_PROGRESS" ELSE @] = row
  BY <1>1, <1>2 DEF ReviewRow
<1>6. SetReview(q, Editable, row)
  BY <1>5 DEF UpdateItem
<1> HIDE DEF row, s, checked
<1>7. QED
  BY <1>3, <1>4, <1>6, SetReviewKeeps, ReviewStatuses

LEMMA CreateExecutionKeeps ==
    ASSUME ReviewsTyped, ExecutionsFit, NEW q \in Requests, CreateSecurityExecution(q)
    PROVE  ReviewsTyped' /\ ExecutionsFit'
<1> DEFINE old == reviews[q].executions
           new == <<"ASSIGNED_TO_DEVELOPER">> \o old
           row == [Moved(q, "DEVELOPER_FIX") EXCEPT !.executions = new]
<1>1. reviews[q] \in ReviewRow /\ reviews[q].status = "ASSIGNED_TO_QA"
  BY DEF CreateSecurityExecution, SetReview, ReviewsTyped
<1>2. old \in Seq(ExecutionStatus)
  BY <1>1, ReviewRows
<1>3. /\ new \in Seq(ExecutionStatus) /\ Len(new) = Len(old) + 1 /\ new[1] = "ASSIGNED_TO_DEVELOPER"
      /\ \A n \in 2..Len(new) : new[n] = old[n - 1] /\ n - 1 \in DOMAIN old
  BY <1>2 DEF ExecutionStatus
<1>4. Moved(q, "DEVELOPER_FIX") \in ReviewRow /\ Moved(q, "DEVELOPER_FIX").status = "DEVELOPER_FIX"
  BY <1>1, MovedRow, ReviewStatuses DEF Moved
<1>5. row \in ReviewRow /\ row.status = "DEVELOPER_FIX" /\ row.executions = new
  BY <1>3, <1>4 DEF ReviewRow
<1>6. \A n \in DOMAIN old : old[n] # "ASSIGNED_TO_DEVELOPER"
  BY <1>1 DEF ExecutionsFit, Fits, OpenAt
<1>7. {n \in DOMAIN new : new[n] = "ASSIGNED_TO_DEVELOPER"} = {1}
  <2>1. DOMAIN new = 1..Len(new) /\ 1 \in DOMAIN new
    BY <1>2, <1>3
  <2>2. \A n \in DOMAIN new : n # 1 => new[n] # "ASSIGNED_TO_DEVELOPER"
    BY <1>2, <1>3, <1>6, <2>1
  <2>3. QED
    BY <1>3, <2>1, <2>2
<1>8. Fits(row)
  BY <1>5, <1>7 DEF Fits, OpenAt
<1>9. reviews' = [reviews EXCEPT ![q] = row] /\ UNCHANGED <<template, mustReview>>
  <2>1. row = [Moved(q, "DEVELOPER_FIX") EXCEPT !.executions = <<"ASSIGNED_TO_DEVELOPER">> \o @]
    BY <1>1, ReviewStatuses DEF Moved, ReviewRow
  <2>2. QED
    BY <2>1 DEF CreateSecurityExecution, SetReview
<1> HIDE DEF row
<1>10. QED
  BY <1>5, <1>8, <1>9, ReplacedReview

LEMMA ResolveExecutionKeeps ==
    ASSUME ReviewsTyped, ExecutionsFit, NEW q \in Requests, NEW n \in 1..MaxExecutions,
           ResolveSecurityExecution(q, n)
    PROVE  ReviewsTyped' /\ ExecutionsFit'
<1> DEFINE old == reviews[q].executions
           new == [old EXCEPT ![n] = "FIXED"]
           row == [Moved(q, "FIXED_PENDING_QA") EXCEPT !.executions = new]
<1>1. /\ reviews[q] \in ReviewRow /\ reviews[q].status = "DEVELOPER_FIX"
      /\ n \in DOMAIN old /\ old[n] = "ASSIGNED_TO_DEVELOPER"
  BY DEF ResolveSecurityExecution, SetReview, ReviewsTyped
<1>2. old \in Seq(ExecutionStatus)
  BY <1>1, ReviewRows
<1>3. new \in Seq(ExecutionStatus) /\ DOMAIN new = DOMAIN old
  BY <1>1, <1>2 DEF ExecutionStatus
<1>4. /\ Moved(q, "FIXED_PENDING_QA") \in ReviewRow
      /\ Moved(q, "FIXED_PENDING_QA").executions = old
      /\ Moved(q, "FIXED_PENDING_QA").status = "FIXED_PENDING_QA"
  BY <1>1, MovedRow, ReviewStatuses DEF Moved
<1>5. row \in ReviewRow /\ row.status = "FIXED_PENDING_QA" /\ row.executions = new
  BY <1>3, <1>4 DEF ReviewRow
<1>6. PICK m : {k \in DOMAIN old : old[k] = "ASSIGNED_TO_DEVELOPER"} = {m}
  BY <1>1 DEF ExecutionsFit, Fits, OpenAt
<1>7. \A k \in DOMAIN new : new[k] # "ASSIGNED_TO_DEVELOPER"
  BY <1>1, <1>2, <1>3, <1>6
<1>8. Fits(row)
  BY <1>5, <1>7 DEF Fits, OpenAt
<1>9. reviews' = [reviews EXCEPT ![q] = row] /\ UNCHANGED <<template, mustReview>>
  <2>1. row = [Moved(q, "FIXED_PENDING_QA") EXCEPT !.executions[n] = "FIXED"]
    BY <1>4
  <2>2. QED
    BY <2>1 DEF ResolveSecurityExecution, SetReview
<1> HIDE DEF row
<1>10. QED
  BY <1>5, <1>8, <1>9, ReplacedReview

LEMMA ReviewStepKeeps ==
    ASSUME ReviewsTyped, ExecutionsFit, ReviewStep PROVE ReviewsTyped' /\ ExecutionsFit'
<1> SUFFICES ASSUME NEW q \in Requests, ReviewMethods(q) PROVE ReviewsTyped' /\ ExecutionsFit'
  BY DEF ReviewStep
<1>1. reviews[q] \in ReviewRow
  BY DEF ReviewsTyped
<1>2. ASSUME NEW from, NEW s \in ReviewStatus \ {"DEVELOPER_FIX"}, SetReview(q, from, Moved(q, s)),
             "DEVELOPER_FIX" \notin from
      PROVE  ReviewsTyped' /\ ExecutionsFit'
  BY <1>1, <1>2, MovedRow, SetReviewKeeps DEF Moved
<1>3. CASE UploadEvidence(q)
  <2>1. reviews[q].status # "DEVELOPER_FIX"
    BY <1>3, ReviewStatuses DEF UploadEvidence, SetReview
  <2>2. QED
    BY <1>1, <1>3, <2>1, ReviewRows, ReviewStatuses, SetReviewKeeps DEF UploadEvidence
<1>4. CASE UploadQaReport(q)
  <2>1. reviews[q].status # "DEVELOPER_FIX"
    BY <1>4 DEF UploadQaReport, SetReview
  <2>2. QED
    BY <1>1, <1>4, <2>1, ReviewRows, SetReviewKeeps DEF UploadQaReport
<1>5. CASE SubmitFindings(q)
  BY <1>2, <1>5, ReviewStatuses DEF SubmitFindings
<1>6. CASE Complete(q)
  <2>1. /\ reviews' = [reviews EXCEPT ![q] = Moved(q, "COMPLETED")]
        /\ reviews[q].status # "DEVELOPER_FIX" /\ UNCHANGED <<template, mustReview>>
    BY <1>6, ReviewStatuses DEF Complete, CanComplete
  <2>2. /\ Moved(q, "COMPLETED") \in ReviewRow /\ Moved(q, "COMPLETED").status = "COMPLETED"
        /\ Moved(q, "COMPLETED").executions = reviews[q].executions
    BY <1>1, MovedRow, ReviewStatuses DEF Moved
  <2>3. QED
    BY <2>1, <2>2, SameExecutions, ReplacedReview
<1>7. ASSUME NEW decision, QaLeadReview(q, decision) PROVE ReviewsTyped' /\ ExecutionsFit'
  BY <1>2, <1>7, ReviewStatuses DEF QaLeadReview
<1>8. CASE SubmitQaReport(q)
  BY <1>2, <1>8, ReviewStatuses DEF SubmitQaReport
<1>9. ASSUME NEW approved, ReviewQaReport(q, approved) PROVE ReviewsTyped' /\ ExecutionsFit'
  BY <1>2, <1>9, ReviewStatuses DEF ReviewQaReport
<1>10. QED
  BY <1>3, <1>4, <1>5, <1>6, <1>7, <1>8, <1>9, UpdateItemKeeps, CreateExecutionKeeps,
     ResolveExecutionKeeps DEF ReviewMethods

LEMMA EnsuredKeeps ==
    ASSUME ReviewsTyped, ExecutionsFit, NEW q \in Requests
    PROVE  Ensured(q) \in ReviewRow /\ Fits(Ensured(q))
<1>1. CASE reviews[q].status # "UNUSED"
  BY <1>1 DEF Ensured, ReviewsTyped, ExecutionsFit
<1>2. CASE reviews[q].status = "UNUSED"
  <2> DEFINE items == [i \in template |-> "open"]
             pending == [NoReview EXCEPT !.status = "PENDING"]
             row == [pending EXCEPT !.items = items]
  <2>1. /\ pending \in ReviewRow /\ pending.status = "PENDING" /\ pending.executions = <<>>
    BY NoReviewTyped, MovedRow, ReviewStatuses
  <2>2. items \in [template -> Result] /\ template \in SUBSET ChecklistItems
    BY DEF Result, ReviewsTyped
  <2>3. items \in UNION {Checklist(x) : x \in SUBSET ChecklistItems}
    BY <2>2 DEF Checklist
  <2> HIDE DEF items
  <2>4. row \in ReviewRow /\ row.status = "PENDING" /\ row.executions = <<>>
    BY <2>1, <2>3 DEF ReviewRow
  <2>5. Fits(row)
    BY <2>4 DEF Fits, OpenAt
  <2>6. Ensured(q) = row
    BY <1>2 DEF Ensured, items
  <2>7. QED
    BY <2>4, <2>5, <2>6
<1>3. QED
  BY <1>1, <1>2

LEMMA VerdictStepKeeps ==
    ASSUME ReleaseTyped, VersionsLinked, ReviewsTyped, ExecutionsFit, VerdictStep
    PROVE  ReviewsTyped' /\ ExecutionsFit'
<1>1. ASSUME NEW v \in Version, AskForRerun(v) PROVE ReviewsTyped' /\ ExecutionsFit'
  BY <1>1 DEF AskForRerun, ReviewsTyped, ExecutionsFit
<1>2. ASSUME NEW v \in Version, NEW quality \in Qualities, NEW security,
             GiveVerdict(v, quality, security)
      PROVE  ReviewsTyped' /\ ExecutionsFit'
  <2>1. versions[v].primary \in Requests
    BY <1>2, ReleaseStatuses DEF GiveVerdict, SetQAQuality, MayJudge, VersionsLinked, Live
  <2>2. mustReview' \subseteq Requests /\ UNCHANGED template
    BY <1>2, <2>1 DEF GiveVerdict, ReviewsTyped
  <2>3. \/ reviews' = reviews
        \/ reviews' = [reviews EXCEPT ![versions[v].primary] = Ensured(versions[v].primary)]
    BY <1>2 DEF GiveVerdict
  <2>4. QED
    BY <2>1, <2>2, <2>3, EnsuredKeeps DEF ReviewsTyped, ExecutionsFit
<1>3. QED
  BY <1>1, <1>2 DEF VerdictStep

LEMMA SecurityStepKeeps ==
    ASSUME ReleaseTyped, VersionsLinked, ReviewsTyped, ExecutionsFit, SecurityStep
    PROVE  ReviewsTyped' /\ ExecutionsFit'
<1>1. ASSUME UNCHANGED reviewVars PROVE ReviewsTyped' /\ ExecutionsFit'
  BY <1>1 DEF reviewVars, ReviewsTyped, ExecutionsFit
<1>2. ASSUME NEW i \in ChecklistItems, ChangeTemplate(i) PROVE ReviewsTyped' /\ ExecutionsFit'
  BY <1>2 DEF ChangeTemplate, ReviewsTyped, ExecutionsFit
<1>3. QED
  BY <1>1, <1>2, VerdictStepKeeps, ReviewStepKeeps DEF SecurityStep, TemplateStep

-------------------------------------------------------------------------------
(* The versions the gate is about, and the reviews that let them through. *)
Decided == {"PENDING_DECISION", "APPROVED", "CONDITIONAL", "REJECTED", "PUBLISHED"}
Passed(q) == /\ reviews[q].status = "COMPLETED" /\ reviews[q].evidence
             /\ ~HasResult(q, "finding") /\ ~HasResult(q, "open")

LEMMA GateIs ==
    SecurityGate <=> \A v \in Version :
        versions[v].status \in Decided /\ versions[v].primary \in mustReview
            => Passed(versions[v].primary)
  BY DEF SecurityGate, Decided, Passed

LEMMA GateIsNext ==
    SecurityGate' <=> \A v \in Version :
        versions'[v].status \in Decided /\ versions'[v].primary \in mustReview'
            => Passed(versions[v].primary)'
  BY DEF SecurityGate, Decided, Passed, HasResult

NoNewDecided ==
    \A v \in Version : versions'[v].status \in Decided =>
        versions[v].status \in Decided /\ versions'[v].primary = versions[v].primary

LEMMA SetVersionDecided ==
    ASSUME ReleaseTyped, NEW v \in Version, NEW row, SetVersion(v, row),
           row.primary = versions[v].primary,
           row.status \in Decided => versions[v].status \in Decided
    PROVE  NoNewDecided
  BY DEF SetVersion, NoNewDecided, ReleaseTyped

(* Only a verdict without a security test and a completed review decide.      *)
LEMMA OtherStepDecided == ReleaseTyped /\ OtherStep => NoNewDecided
<1> SUFFICES ASSUME ReleaseTyped, OtherStep PROVE NoNewDecided
  OBVIOUS
<1>1. UNCHANGED versions => NoNewDecided
  BY DEF NoNewDecided
<1>2. CASE RequestStep \/ RetestStep
  BY <1>1, <1>2, RequestStepLinks, RetestStepLinks
<1>3. CASE LinkingStep \/ RunStep
  BY <1>3, LinkingStepMoves, RunStepMoves DEF NoNewDecided, Decided
<1>4. CASE LockingStep
  <2>1. PICK v \in Version, row \in VersionRow :
           /\ LockAndReflect(v, row) /\ row.primary = versions[v].primary
           /\ versions[v].status \in Decided
    BY <1>4, LockingRows DEF Decided
  <2>2. QED
    BY <2>1, SetVersionDecided DEF LockAndReflect
<1>5. ASSUME NEW v \in Version, SubmitForQAReview(v) \/ EmergencyPublish(v)
      PROVE  NoNewDecided
  <2>1. versions[v] \in VersionRow
    BY DEF ReleaseTyped
  <2>2. [versions[v] EXCEPT !.status = "QA_REVIEW"].status = "QA_REVIEW"
        /\ [versions[v] EXCEPT !.status = "QA_REVIEW"].primary = versions[v].primary
        /\ [versions[v] EXCEPT !.risk = TRUE].status = versions[v].status
        /\ [versions[v] EXCEPT !.risk = TRUE].primary = versions[v].primary
    BY <2>1 DEF VersionRow
  <2>3. QED
    BY <1>5, <2>2, SetVersionDecided DEF SubmitForQAReview, EmergencyPublish, Decided
<1>6. QED
  BY <1>2, <1>3, <1>4, <1>5 DEF OtherStep

LEMMA SameReviewsGate ==
    ASSUME SecurityGate, NoNewDecided, mustReview' \subseteq mustReview, UNCHANGED reviews
    PROVE  SecurityGate'
<1> SUFFICES ASSUME NEW v \in Version, versions'[v].status \in Decided,
                    versions'[v].primary \in mustReview'
             PROVE  Passed(versions[v].primary)'
  BY GateIsNext
<1>1. versions'[v].primary = versions[v].primary /\ Passed(versions[v].primary)
  BY GateIs DEF NoNewDecided
<1>2. QED
  BY <1>1 DEF Passed, HasResult

(* A verdict takes its own version out of the versions that were decided, or  *)
(* excuses it from the review; a request it asks a review for belongs to no   *)
(* other version.                                                             *)
LEMMA VerdictRows ==
    ASSUME ReleaseTyped, NEW v \in Version, NEW quality, NEW status
    PROVE  /\ Judged(v, quality, status).status = status
           /\ Judged(v, quality, status).primary = versions[v].primary
           /\ \A n : /\ [Judged(v, quality, status) EXCEPT !.baseline = n].status = status
                     /\ [Judged(v, quality, status) EXCEPT !.baseline = n].primary
                            = versions[v].primary
  BY DEF Judged, ReleaseTyped, VersionRow

LEMMA RerunGate ==
    ASSUME ReleaseTyped, SecurityGate, NEW v \in Version, AskForRerun(v)
    PROVE  SecurityGate'
<1> DEFINE row == [Judged(v, "RETEST_REQUIRED", "QA_REVIEW") EXCEPT
                      !.baseline = FinalRunCount(runs, v)]
<1>1. row.status = "QA_REVIEW" /\ row.primary = versions[v].primary
  BY VerdictRows
<1>2. SetVersion(v, row)
  BY DEF AskForRerun, RequestRerun
<1>3. mustReview' \subseteq mustReview /\ UNCHANGED reviews
  BY DEF AskForRerun
<1> HIDE DEF row
<1>4. NoNewDecided
  BY <1>1, <1>2, SetVersionDecided DEF Decided
<1>5. QED
  BY <1>3, <1>4, SameReviewsGate

LEMMA VerdictGate ==
    ASSUME ReleaseTyped, VersionsLinked, VersionsApart, ReviewsTyped, SecurityGate,
           NEW v \in Version, NEW quality \in Qualities,
           NEW security \in {FALSE, Calls("security")}, GiveVerdict(v, quality, security)
    PROVE  SecurityGate'
<1> DEFINE q == versions[v].primary
           status == IF security THEN "SECURITY_REVIEW" ELSE "PENDING_DECISION"
           row == Judged(v, quality, status)
<1>1. /\ versions[v].status \in {"QA_REVIEW", "DRAFT"} /\ versions' = [versions EXCEPT ![v] = row]
      /\ mustReview' = IF security THEN mustReview \cup {q} ELSE mustReview \ {q}
      /\ reviews' = IF security THEN [reviews EXCEPT ![q] = Ensured(q)] ELSE reviews
  BY DEF GiveVerdict, SetQAQuality, MayJudge, SetVersion
<1>2. row.status = status /\ row.primary = q
  BY VerdictRows
<1>3. Live(versions, v) /\ q \in Requests /\ q \in Linked(v)
  BY <1>1, ReleaseStatuses DEF Live, VersionsLinked, Linked
<1> HIDE DEF row
<1>4. versions'[v] = row /\ \A w \in Version : w # v => versions'[w] = versions[w]
  BY <1>1 DEF ReleaseTyped
<1> SUFFICES ASSUME NEW w \in Version, versions'[w].status \in Decided,
                    versions'[w].primary \in mustReview'
             PROVE  Passed(versions[w].primary)'
  BY GateIsNext
<1>5. w # v
  <2>1. CASE security
    BY <1>2, <1>4, <2>1 DEF Decided
  <2>2. CASE ~security
    BY <1>1, <1>2, <1>4, <2>2
  <2>3. QED
    BY <2>1, <2>2
<1>6. versions'[w] = versions[w] /\ versions[w].status \in Decided
  BY <1>4, <1>5
<1>7. Live(versions, w) /\ versions[w].primary \in Requests /\ versions[w].primary \in Linked(w)
  BY <1>6, ReleaseStatuses DEF Decided, Live, VersionsLinked, Linked
<1>8. versions[w].primary # q
  BY <1>3, <1>5, <1>7 DEF VersionsApart
<1>9. versions[w].primary \in mustReview /\ reviews'[versions[w].primary] = reviews[versions[w].primary]
  <2>1. CASE security
    BY <1>1, <1>6, <1>7, <1>8, <2>1 DEF ReviewsTyped
  <2>2. CASE ~security
    BY <1>1, <1>6, <2>2
  <2>3. QED
    BY <2>1, <2>2
<1>10. Passed(versions[w].primary)
  BY <1>6, <1>9, GateIs
<1>11. QED
  BY <1>6, <1>9, <1>10 DEF Passed, HasResult

(* A step of a review that is not its completion changes a review that lets   *)
(* nothing through; the completion asks for what the gate asks.               *)
LEMMA SetReviewGate ==
    ASSUME SecurityGate, ReviewsTyped, NEW q \in Requests, reviews[q].status # "COMPLETED",
           NEW row, reviews' = [reviews EXCEPT ![q] = row], UNCHANGED <<vars, mustReview>>
    PROVE  SecurityGate'
<1> SUFFICES ASSUME NEW w \in Version, versions'[w].status \in Decided,
                    versions'[w].primary \in mustReview'
             PROVE  Passed(versions[w].primary)'
  BY GateIsNext
<1>1. versions' = versions /\ mustReview' = mustReview
  BY DEF vars
<1>2. Passed(versions[w].primary) /\ versions[w].primary \in Requests
  BY <1>1, GateIs DEF ReviewsTyped
<1>3. reviews'[versions[w].primary] = reviews[versions[w].primary]
  BY <1>2 DEF Passed, ReviewsTyped
<1>4. QED
  BY <1>1, <1>2, <1>3 DEF Passed, HasResult

LEMMA CompleteGate ==
    ASSUME ReleaseTyped, SecurityGate, ReviewsTyped, NEW q \in Requests, Complete(q)
    PROVE  SecurityGate'
<1> DEFINE row == Moved(q, "COMPLETED")
<1>1. /\ reviews' = [reviews EXCEPT ![q] = row] /\ mustReview' = mustReview
      /\ reviews[q].evidence /\ ~HasResult(q, "open") /\ ~HasResult(q, "finding")
      /\ reviews[q].status \in Editable
  BY DEF Complete, CanComplete
<1>2. /\ row.status = "COMPLETED" /\ row.evidence = reviews[q].evidence
      /\ row.items = reviews[q].items
  BY DEF Moved, ReviewsTyped, ReviewRow
<1> HIDE DEF row
<1>3. Passed(q)'
  BY <1>1, <1>2 DEF Passed, HasResult, ReviewsTyped
<1> SUFFICES ASSUME NEW w \in Version, versions'[w].status \in Decided,
                    versions'[w].primary \in mustReview', versions'[w].primary # q
             PROVE  Passed(versions[w].primary)'
  BY <1>3, GateIsNext DEF Passed, HasResult
<1>4. versions'[w] = versions[w]
  <2>1. CASE UNCHANGED vars
    BY <2>1 DEF vars
  <2>2. ASSUME NEW v \in AwaitingReview(q), ToDecision(v) PROVE versions'[w] = versions[w]
    <3>1. v \in Version /\ versions[v].primary = q /\ versions[v] \in VersionRow
      BY DEF AwaitingReview, ReleaseTyped
    <3>2. [versions[v] EXCEPT !.status = "PENDING_DECISION"].primary = q
      BY <3>1 DEF VersionRow
    <3>3. versions' = [versions EXCEPT ![v] = [versions[v] EXCEPT !.status = "PENDING_DECISION"]]
      BY <2>2 DEF ToDecision, SetVersion
    <3>4. w # v
      BY <3>1, <3>2, <3>3 DEF ReleaseTyped
    <3>5. QED
      BY <3>3, <3>4 DEF ReleaseTyped
  <2>3. QED
    BY <2>1, <2>2 DEF Complete
<1>5. Passed(versions[w].primary) /\ versions[w].primary \in Requests
  BY <1>1, <1>4, GateIs DEF ReviewsTyped
<1>6. reviews'[versions[w].primary] = reviews[versions[w].primary]
  BY <1>1, <1>4, <1>5 DEF ReviewsTyped
<1>7. QED
  BY <1>4, <1>5, <1>6 DEF Passed, HasResult

LEMMA SecurityStepGate ==
    ASSUME ReleaseTyped, VersionsLinked, VersionsApart, ReviewsTyped, SecurityGate, SecurityStep
    PROVE  SecurityGate'
<1>1. CASE OtherStep /\ UNCHANGED reviewVars
  BY <1>1, OtherStepDecided, SameReviewsGate DEF reviewVars
<1>2. CASE VerdictStep
  BY <1>2, RerunGate, VerdictGate DEF VerdictStep
<1>3. ASSUME NEW q \in Requests, ReviewMethods(q) PROVE SecurityGate'
  BY <1>3, ReviewStepIs, SetReviewGate, CompleteGate
<1>4. ASSUME NEW i \in ChecklistItems, ChangeTemplate(i) PROVE SecurityGate'
  <2>1. NoNewDecided /\ UNCHANGED <<mustReview, reviews>>
    BY <1>4 DEF ChangeTemplate, vars, NoNewDecided
  <2>2. QED
    BY <2>1, SameReviewsGate
<1>5. QED
  BY <1>1, <1>2, <1>3, <1>4 DEF SecurityStep, ReviewStep, TemplateStep

-------------------------------------------------------------------------------
SecurityInv == SecurityReleaseInv /\ ReviewsTyped /\ ExecutionsFit /\ SecurityGate

LEMMA SecurityInitInv == SecurityInit => SecurityInv
<1> SUFFICES ASSUME SecurityInit PROVE SecurityInv
  OBVIOUS
<1>1. ReviewsTyped /\ ExecutionsFit
  BY NoReviewTyped DEF SecurityInit, ReviewsTyped, ExecutionsFit
<1>2. SecurityGate
  BY GateIs DEF SecurityInit
<1>3. QED
  BY <1>1, <1>2, SecurityReleaseInit DEF SecurityInv

LEMMA SecurityNextInv == SecurityInv /\ [SecurityNext]_securityVars => SecurityInv'
<1> SUFFICES ASSUME SecurityInv, [SecurityNext]_securityVars PROVE SecurityInv'
  OBVIOUS
<1>1. SecurityReleaseInv'
  BY SecurityReleaseNext DEF SecurityInv
<1>2. ReleaseTyped /\ VersionsLinked /\ VersionsApart
  BY DEF SecurityInv, SecurityReleaseInv, ReleaseInv
<1>3. CASE SecurityNext
  <2>1. SecurityStep
    BY <1>3, NextIsSecurityStep
  <2>2. QED
    BY <1>1, <1>2, <2>1, SecurityStepKeeps, SecurityStepGate DEF SecurityInv
<1>4. CASE UNCHANGED securityVars
  <2>1. versions' = versions /\ template' = template /\ mustReview' = mustReview
        /\ reviews' = reviews
    BY <1>4 DEF securityVars, reviewVars, vars
  <2>2. ReviewsTyped' /\ ExecutionsFit'
    BY <2>1 DEF SecurityInv, ReviewsTyped, ExecutionsFit
  <2>3. SecurityGate'
    BY <2>1, SameReviewsGate DEF SecurityInv, NoNewDecided
  <2>4. QED
    BY <1>1, <2>2, <2>3 DEF SecurityInv
<1>5. QED
  BY <1>3, <1>4

(* The inductive invariant of the reviews, on top of ReleaseWorkflow's.         *)
THEOREM SecurityInvariant == SecuritySpec => []SecurityInv
  BY SecurityInitInv, SecurityNextInv, PTL DEF SecuritySpec

(* Rows of reviews, like all others, are of their types.                        *)
THEOREM SecurityTyping == SecuritySpec => []SecurityTypeOK
<1>1. SecurityInv => SecurityTypeOK
  BY ReleaseParts DEF SecurityInv, SecurityReleaseInv, ReleaseInv, RetestInv, ReviewsTyped,
     SecurityTypeOK
<1>2. QED
  BY <1>1, SecurityInvariant, PTL

(* No version whose request must be reviewed gets to the decision without a     *)
(* completed review that has evidence and no finding.                           *)
THEOREM SecurityGateHolds == SecuritySpec => []SecurityGate
<1>1. SecurityInv => SecurityGate
  BY DEF SecurityInv
<1>2. QED
  BY <1>1, SecurityInvariant, PTL

(* A developer has one security execution to fix exactly while the review       *)
(* waits for the developer.                                                     *)
THEOREM OneOpenExecutionHolds == SecuritySpec => []OneOpenExecution
<1>1. SecurityInv => OneOpenExecution
  <2> SUFFICES ASSUME SecurityInv, NEW q \in Requests
               PROVE  Cardinality({n \in DOMAIN reviews[q].executions :
                                      reviews[q].executions[n] = "ASSIGNED_TO_DEVELOPER"})
                          = IF reviews[q].status = "DEVELOPER_FIX" THEN 1 ELSE 0
    BY DEF OneOpenExecution
  <2>1. IF reviews[q].status = "DEVELOPER_FIX" THEN \E n : OpenAt(reviews[q]) = {n}
        ELSE OpenAt(reviews[q]) = {}
    BY DEF SecurityInv, ExecutionsFit, Fits
  <2>2. Cardinality(OpenAt(reviews[q])) = IF reviews[q].status = "DEVELOPER_FIX" THEN 1 ELSE 0
    BY <2>1, FS_EmptySet, FS_Singleton
  <2>3. QED
    BY <2>2 DEF OpenAt
<1>2. QED
  BY <1>1, SecurityInvariant, PTL

-------------------------------------------------------------------------------
(* A version that waits for a review which is completed already: a second      *)
(* verdict asked for a security test, and the request's review is kept.        *)
Stuck(v) ==
    /\ versions[v].status = "SECURITY_REVIEW"
    /\ reviews[versions[v].primary].status = "COMPLETED"

ReviewWaits ==
    \A v \in Version : versions[v].status = "SECURITY_REVIEW" =>
        /\ versions'[v].status = "SECURITY_REVIEW"
        /\ versions'[v].primary = versions[v].primary

LEMMA SetVersionWaits ==
    ASSUME ReleaseTyped, NEW v \in Version, NEW row, SetVersion(v, row),
           \/ versions[v].status # "SECURITY_REVIEW"
           \/ row.status = versions[v].status /\ row.primary = versions[v].primary
    PROVE  ReviewWaits
  BY DEF SetVersion, ReviewWaits, ReleaseTyped

(* Nothing but its own review takes a version out of the security review.      *)
LEMMA OtherStepWaits == ReleaseTyped /\ RerunReachesQA /\ OtherStep => ReviewWaits
<1> SUFFICES ASSUME ReleaseTyped, RerunReachesQA, OtherStep PROVE ReviewWaits
  OBVIOUS
<1>1. UNCHANGED versions => ReviewWaits
  BY DEF ReviewWaits
<1>2. CASE RequestStep \/ RetestStep
  BY <1>1, <1>2, RequestStepLinks, RetestStepLinks
<1>3. CASE LinkingStep \/ RunStep
  BY <1>3, LinkingStepKeeps, RunStepKeeps DEF ReviewWaits
<1>4. CASE LockingStep
  BY <1>4, LockingRows, SetVersionWaits DEF LockAndReflect
<1>5. ASSUME NEW v \in Version, SubmitForQAReview(v) \/ EmergencyPublish(v)
      PROVE  ReviewWaits
  <2>1. [versions[v] EXCEPT !.risk = TRUE].status = versions[v].status
        /\ [versions[v] EXCEPT !.risk = TRUE].primary = versions[v].primary
    BY DEF ReleaseTyped, VersionRow
  <2>2. QED
    BY <1>5, <2>1, SetVersionWaits DEF SubmitForQAReview, EmergencyPublish
<1>6. QED
  BY <1>2, <1>3, <1>4, <1>5 DEF OtherStep

LEMMA VerdictWaits ==
    ASSUME ReleaseTyped, ReviewsTyped, VerdictStep
    PROVE  /\ ReviewWaits
           /\ \A q \in Requests : reviews[q].status = "COMPLETED" => reviews'[q] = reviews[q]
<1>1. ASSUME NEW v \in Version, AskForRerun(v)
      PROVE  ReviewWaits /\ UNCHANGED reviews
  BY <1>1, SetVersionWaits DEF AskForRerun, RequestRerun, MayJudge
<1>2. ASSUME NEW v \in Version, NEW quality \in Qualities,
             NEW security \in {FALSE, Calls("security")}, GiveVerdict(v, quality, security)
      PROVE  /\ ReviewWaits
             /\ \A q \in Requests : reviews[q].status = "COMPLETED" => reviews'[q] = reviews[q]
  <2>1. ReviewWaits
    BY <1>2, SetVersionWaits DEF GiveVerdict, SetQAQuality, MayJudge
  <2>2. reviews' \in {reviews, [reviews EXCEPT ![versions[v].primary] = Ensured(versions[v].primary)]}
    BY <1>2 DEF GiveVerdict
  <2>3. QED
    BY <2>1, <2>2 DEF ReviewsTyped, Ensured
<1>3. QED
  BY <1>1, <1>2 DEF VerdictStep

LEMMA ReviewStepWaits ==
    ASSUME ReleaseTyped, ReviewsTyped, NEW q \in Requests, ReviewMethods(q),
           NEW v \in Version, Stuck(v), versions[v].primary \in Requests
    PROVE  Stuck(v)'
<1>1. CASE Complete(q)
  <2>1. reviews' = [reviews EXCEPT ![q] = Moved(q, "COMPLETED")] /\ q # versions[v].primary
    BY <1>1, ReviewStatuses DEF Complete, CanComplete, Stuck
  <2>2. reviews'[versions[v].primary] = reviews[versions[v].primary]
    BY <2>1 DEF ReviewsTyped
  <2>3. versions'[v] = versions[v]
    <3>1. ASSUME NEW w \in AwaitingReview(q), ToDecision(w) PROVE versions'[v] = versions[v]
      BY <2>1, <3>1 DEF AwaitingReview, ToDecision, SetVersion, ReleaseTyped
    <3>2. QED
      BY <1>1, <3>1 DEF Complete, vars
  <2>4. QED
    BY <2>2, <2>3 DEF Stuck
<1>2. ASSUME UNCHANGED vars, NEW row, reviews[q].status # "COMPLETED",
             reviews' = [reviews EXCEPT ![q] = row]
      PROVE  Stuck(v)'
  BY <1>2 DEF Stuck, ReviewsTyped, vars
<1>3. QED
  BY <1>1, <1>2, ReviewStepIs

(* What ReviewedVersionsMoveOn's violation amounts to: no step of anyone takes *)
(* such a version, or its review, anywhere again.                              *)
THEOREM StuckVersionsStay ==
    SecuritySpec => [][\A v \in Version : Stuck(v) => Stuck(v)']_securityVars
<1> DEFINE Stays == \A v \in Version : Stuck(v) => Stuck(v)'
<1>1. ASSUME SecurityInv, SecurityNext, NEW v \in Version, Stuck(v) PROVE Stuck(v)'
  <2>1. ReleaseTyped /\ RerunReachesQA /\ ReviewsTyped /\ versions[v].primary \in Requests
    BY <1>1, ReleaseStatuses
       DEF SecurityInv, SecurityReleaseInv, ReleaseInv, VersionsLinked, Live, Stuck
  <2>2. CASE OtherStep /\ UNCHANGED reviewVars
    BY <1>1, <2>1, <2>2, OtherStepWaits DEF ReviewWaits, Stuck, reviewVars
  <2>3. CASE VerdictStep
    BY <1>1, <2>1, <2>3, VerdictWaits DEF ReviewWaits, Stuck
  <2>4. CASE ReviewStep
    BY <1>1, <2>1, <2>4, ReviewStepWaits DEF ReviewStep
  <2>5. CASE TemplateStep
    BY <1>1, <2>5 DEF TemplateStep, ChangeTemplate, vars, Stuck
  <2>6. QED
    BY <1>1, <2>2, <2>3, <2>4, <2>5, NextIsSecurityStep DEF SecurityStep
<1>2. SecurityInv /\ [SecurityNext]_securityVars => [Stays]_securityVars
  BY <1>1
<1>3. QED
  BY <1>2, SecurityInvariant, PTL DEF SecuritySpec

(* The evidence of reviewed versions keeps what RetestFlow promises.           *)
THEOREM ReviewedEvidenceStays == SecuritySpec => LockedEvidenceStays
  BY SecurityRefinesRelease, ReleaseKeepsEvidence, PTL DEF ReleaseSpec

(* The reviews do not touch the rows of the evidence: one run carries a task   *)
(* and nothing dangles, as long as no caller sends a start key of its own.     *)
THEOREM ReviewedRowsWhole ==
    ASSUME ~FreshKeys PROVE SecuritySpec => [](OneRunPerTask /\ NothingDangles)
  BY SecurityRefinesRelease, ReleaseOneRun, ReleaseNothingDangles, PTL DEF ReleaseSpec

(* And the ledger: a review moves versions, but covers, decides and seals nothing. *)
THEOREM ReviewedLedger == SecuritySpec => LedgerSpec
  BY SecurityRefinesRelease, ReleaseKeepsLedger, PTL DEF ReleaseSpec
===============================================================================
