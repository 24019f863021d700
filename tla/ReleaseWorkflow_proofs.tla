------------------------- MODULE ReleaseWorkflow_proofs -------------------------
(***************************************************************************)
(* Proofs about ReleaseWorkflow, for every number of rows and versions,    *)
(* set of requests, verdicts and decisions, and whichever methods Methods  *)
(* lets the callers use.  What happens to runs, bugs, tasks and issues is  *)
(* taken from RetestFlow_proofs.                                           *)
(***************************************************************************)
EXTENDS ReleaseWorkflow, RetestFlow_proofs, FiniteSetTheorems

-------------------------------------------------------------------------------
(* The steps, by what they do to the evidence: steps of requests and versions  *)
(* that leave it alone, those that lock it, and the methods of RetestFlow.     *)
RequestStep ==
    \E q \in Requests :
        \/ CreateRequest(q)
        \/ SubmitRequest(q)
        \/ \E verdict \in {"ACCEPTED", "REJECTED"} : ReviewRequest(q, verdict)
        \/ AssignRequest(q)
        \/ CancelRequest(q)
        \/ RequirementsChange(q)

LinkingStep ==
    \/ \E q \in Requests : \E related \in SUBSET (Requests \ {q}) : CreateVersion(q, related)
    \/ \E saved \in BOOLEAN : ListVersions(saved)

VersionStep ==
    \E v \in Version :
        \/ SubmitForQAReview(v)
        \/ EmergencyPublish(v)
        \/ RequestRerun(v)
        \/ \E quality \in Qualities, security \in {FALSE, Calls("security")} :
              SetQAQuality(v, quality, security)
        \/ SecurityReviewDone(v)

LockingStep ==
    \E v \in Version :
        \/ \E decision \in Decisions : Decide(v, decision)
        \/ Publish(v)

RunStep == \E r \in Run : RegisterRun(r)

ReleaseStep ==
    RequestStep \/ LinkingStep \/ VersionStep \/ LockingStep \/ RunStep \/ RetestStep

LEMMA NextIsStep == Next => ReleaseStep
<1>2. QualityMethods => VersionStep
  BY Zenon DEF QualityMethods, VersionStep
<1>3. VersionMethods => VersionStep \/ LinkingStep \/ LockingStep
  BY DEF VersionMethods, VersionStep, LinkingStep, LockingStep
<1>4. RequestMethods => RequestStep
  BY DEF RequestMethods, RequestStep
<1>5. QED
  BY <1>2, <1>3, <1>4 DEF Next, OtherMethods, ReleaseStep, RunStep

-------------------------------------------------------------------------------
(* The methods of RetestFlow that lock nothing *)
RunChange ==
    \/ \E q \in Requests : CreateRun(q)
    \/ \E r \in Run, q \in Requests, s \in RunStatus \cup Absent :
           s \in RunInputs \cup {runs[r].status} /\ UpdateRun(r, q, s)
    \/ \E r \in Run, s \in RunInputs : UpdateRunStatus(r, s)
    \/ \E r \in Run : UnlockRun(r)
    \/ \E r \in Run : DeleteRun(r)

Ordinary == RunChange \/ BugAction \/ TaskAction \/ IssueAction

LEMMA OrdinaryIsAction == Ordinary => RetestAction
  BY DEF Ordinary, RunChange, RetestAction, RunAction

LEMMA BugMethodsAre == RetestTypeOK /\ BugMethods => BugAction
<1> SUFFICES ASSUME RetestTypeOK, BugMethods PROVE BugAction
  OBVIOUS
<1>1. \A b \in Bug : BugInputs \cup {bugs[b].status} \subseteq BugStatus \cup Absent
  BY RetestAssumption DEF RetestTypeOK, BugRow
<1>2. QED
  BY <1>1 DEF BugMethods, BugAction

LEMMA RunStepIsOrdinary == RetestTypeOK /\ RunStep => RunChange
<1> SUFFICES ASSUME RetestTypeOK, NEW r \in Run, RegisterRun(r) PROVE RunChange
  BY DEF RunStep
<1>1. RunInputs \cup {runs[r].status} \subseteq RunStatus \cup Absent
  BY RetestAssumption DEF RetestTypeOK, RunRow
<1>2. QED
  BY <1>1 DEF RegisterRun, RunChange

LEMMA RetestStepIsOrdinary == RetestTypeOK /\ RetestStep => Ordinary
<1> SUFFICES ASSUME RetestTypeOK, RetestStep PROVE Ordinary
  OBVIOUS
<1>1. TaskMethods => TaskAction
  BY DEF TaskMethods, TaskAction
<1>2. OtherRunMethods => Ordinary
  BY <1>1 DEF OtherRunMethods, Ordinary, RunChange
<1>3. IssueMethods => IssueAction
  BY DEF IssueMethods, IssueAction
<1>4. QED
  BY <1>2, <1>3, BugMethodsAre DEF RetestStep, Ordinary

LEMMA LeaveEvidenceKeeps ==
    RequestStep \/ LinkingStep \/ VersionStep => UNCHANGED retestVars
<1>1. RequestStep => UNCHANGED retestVars
  BY DEF RequestStep, CreateRequest, SubmitRequest, ReviewRequest, AssignRequest, CancelRequest,
         MoveRequest, RequirementsChange
<1>2. LinkingStep => UNCHANGED retestVars
  BY DEF LinkingStep, CreateVersion, ListVersions, LeaveEvidence
<1>3. VersionStep => UNCHANGED retestVars
  BY DEF VersionStep, SubmitForQAReview, EmergencyPublish, RequestRerun, SetQAQuality,
         SecurityReviewDone, ToDecision, LeaveEvidence
<1>4. QED
  BY <1>1, <1>2, <1>3

-------------------------------------------------------------------------------
(* The types of the release rows.  A version of another request than its own   *)
(* primary one would be reflected on a row that is not there, so the links of  *)
(* a version that exists are requests that exist; and the versions share none. *)
ReleaseTyped ==
    /\ requests \in [Requests -> RequestRow]
    /\ versions \in [Version -> VersionRow]
    /\ incomplete \subseteq Requests
    /\ newer \subseteq Run \X Run

VersionsLinked ==
    \A v \in Version : Live(versions, v) =>
        /\ versions[v].primary \in Requests
        /\ \A q \in Linked(v) : q \in Requests /\ Live(requests, q)

VersionsApart ==
    \A v, w \in Version :
        Live(versions, v) /\ Live(versions, w) /\ v # w => Linked(v) \cap Linked(w) = {}

LEMMA ReleaseParts == ReleaseTypeOK <=> RetestTypeOK /\ ReleaseTyped
  BY DEF ReleaseTypeOK, ReleaseTyped

LEMMA ReleasePartsNext == ReleaseTypeOK' <=> RetestTypeOK' /\ ReleaseTyped'
  BY DEF ReleaseTypeOK, ReleaseTyped

LEMMA ReleaseStatuses ==
    /\ RequestStatus \cap Absent = {} /\ VersionStatus \cap Absent = {}
    /\ Quality \cap {None} = {}
    /\ "UNUSED" \in Absent
    /\ NoRequest \in RequestRow /\ NoVersion \in VersionRow
    /\ {"DRAFT", "SUBMITTED", "ACCEPTED", "REJECTED", "IN_PROGRESS", "COMPLETED", "CANCELLED"}
          \subseteq RequestStatus
    /\ {"DRAFT", "QA_REVIEW", "SECURITY_REVIEW", "PENDING_DECISION", "APPROVED", "CONDITIONAL",
        "REJECTED", "PUBLISHED"} \subseteq VersionStatus
    /\ {"RETEST_REQUIRED", "IN_PROGRESS"} \subseteq Quality
  BY ReleaseAssumption, RetestAssumption
     DEF RequestStatus, VersionStatus, Absent, Quality, NoRequest, NoVersion,
     RequestRow, VersionRow

(* What the rows' typing says of a single changed row. *)
LEMMA RequestRows ==
    ASSUME NEW row \in RequestRow
    PROVE  /\ row.status \in RequestStatus \cup Absent
           /\ row.quality \in Quality \cup {None}
           /\ \A s \in RequestStatus \cup Absent : [row EXCEPT !.status = s] \in RequestRow
           /\ \A x \in Quality \cup {None} : [row EXCEPT !.quality = x] \in RequestRow
           /\ \A s \in RequestStatus : [row EXCEPT !.status = s, !.assigned = TRUE] \in RequestRow
           /\ \A s \in RequestStatus, x \in Quality :
                 [row EXCEPT !.status = s, !.quality = x] \in RequestRow
  BY DEF RequestRow

LEMMA VersionRows ==
    ASSUME NEW row \in VersionRow
    PROVE  /\ row.status \in VersionStatus \cup Absent
           /\ row.quality \in Quality \cup {None}
           /\ row.decision \in Decision \cup {None}
           /\ row.primary \in Requests \cup {None}
           /\ \A s \in VersionStatus : [row EXCEPT !.status = s] \in VersionRow
           /\ \A s \in VersionStatus, x \in Quality :
                 [row EXCEPT !.quality = x, !.status = s] \in VersionRow
           /\ \A s \in VersionStatus, d \in Decision :
                 [row EXCEPT !.decision = d, !.status = s] \in VersionRow
           /\ [row EXCEPT !.risk = TRUE] \in VersionRow
  BY DEF VersionRow

LEMMA FinalRunsBounded ==
    ASSUME RetestTypeOK, NEW rs, NEW v \in Version
    PROVE  FinalRunCount(rs, v) \in 0..MaxRuns
<1> DEFINE S == {r \in Run : rs[r].request \in Linked(v) /\ rs[r].status \in Final}
<1>1. S \subseteq 1..MaxRuns
  BY DEF Run
<1>2. IsFiniteSet(1..MaxRuns) /\ Cardinality(1..MaxRuns) = MaxRuns
  BY RetestAssumption, FS_Interval
<1>3. Cardinality(S) \in Nat /\ Cardinality(S) <= MaxRuns
  BY <1>1, <1>2, FS_Subset, FS_CardinalityType
<1>4. QED
  BY <1>3, RetestAssumption DEF FinalRunCount

LEMMA ReflectedTyped ==
    ASSUME NEW rs \in [Requests -> RequestRow], NEW row \in VersionRow
    PROVE  /\ Reflected(rs, row) \in [Requests -> RequestRow]
           /\ \A q \in Requests :
                 /\ q # row.primary => Reflected(rs, row)[q] = rs[q]
                 /\ q = row.primary => Reflected(rs, row)[q].quality = row.quality
                 /\ Reflected(rs, row)[q].status \in {rs[q].status, "COMPLETED"}
<1> DEFINE s == IF row.decision \in {"APPROVED", "CONDITIONAL"}
                THEN "COMPLETED" ELSE rs[row.primary].status
<1>1. CASE row.primary \in Requests
  <2>1. rs[row.primary] \in RequestRow
    BY <1>1
  <2>2. s \in RequestStatus \cup Absent /\ row.quality \in Quality \cup {None}
    BY <2>1, RequestRows, VersionRows, ReleaseStatuses
  <2>3. [rs[row.primary] EXCEPT !.quality = row.quality] \in RequestRow
    BY <2>1, <2>2, RequestRows
  <2>4. [[rs[row.primary] EXCEPT !.quality = row.quality] EXCEPT !.status = s] \in RequestRow
    BY <2>2, <2>3, RequestRows
  <2>5. Reflected(rs, row) = [rs EXCEPT ![row.primary] =
            [[rs[row.primary] EXCEPT !.quality = row.quality] EXCEPT !.status = s]]
    BY <1>1, <2>1 DEF Reflected, RequestRow
  <2>6. QED
    BY <1>1, <2>1, <2>4, <2>5 DEF RequestRow
<1>2. CASE row.primary \notin Requests
  <2>1. Reflected(rs, row) = rs
    BY <1>2 DEF Reflected
  <2>2. QED
    BY <1>2, <2>1
<1>3. QED
  BY <1>1, <1>2

-------------------------------------------------------------------------------
(* Every step keeps the types of the release rows. *)
LEMMA SetVersionTyped ==
    ASSUME ReleaseTyped, NEW v \in Version, NEW row \in VersionRow, SetVersion(v, row)
    PROVE  versions' \in [Version -> VersionRow]
  BY DEF ReleaseTyped, SetVersion

LEMMA RequestStepTyped == ReleaseTyped /\ RequestStep => ReleaseTyped'
<1> SUFFICES ASSUME ReleaseTyped, NEW q \in Requests,
                    \/ CreateRequest(q) \/ SubmitRequest(q)
                    \/ \E verdict \in {"ACCEPTED", "REJECTED"} : ReviewRequest(q, verdict)
                    \/ AssignRequest(q) \/ CancelRequest(q) \/ RequirementsChange(q)
             PROVE  ReleaseTyped'
  BY DEF RequestStep
<1>1. requests[q] \in RequestRow
  BY DEF ReleaseTyped
<1>2. ASSUME NEW from, NEW row \in RequestRow, MoveRequest(q, from, row) PROVE ReleaseTyped'
  BY <1>2 DEF MoveRequest, ReleaseTyped
<1>3. ASSUME RequirementsChange(q) PROVE ReleaseTyped'
  BY <1>3 DEF RequirementsChange, ReleaseTyped
<1>4. QED
  <2>1. CASE CreateRequest(q)
    BY <1>2, <2>1, RequestRows, ReleaseStatuses DEF CreateRequest
  <2>2. CASE SubmitRequest(q)
    BY <1>1, <1>2, <2>2, RequestRows, ReleaseStatuses DEF SubmitRequest
  <2>3. ASSUME NEW verdict \in {"ACCEPTED", "REJECTED"}, ReviewRequest(q, verdict)
        PROVE  ReleaseTyped'
    BY <1>1, <1>2, <2>3, RequestRows, ReleaseStatuses DEF ReviewRequest
  <2>4. CASE AssignRequest(q)
    BY <1>1, <1>2, <2>4, RequestRows, ReleaseStatuses DEF AssignRequest
  <2>5. CASE CancelRequest(q)
    BY <1>1, <1>2, <2>5, RequestRows, ReleaseStatuses DEF CancelRequest
  <2>6. QED
    BY <1>3, <2>1, <2>2, <2>3, <2>4, <2>5

(* What a list read does to one version: it is promoted, or it is the new one *)
(* of a group, or it stays.                                                   *)
MadeOf(v, g, id, primary) ==
    /\ g \in ReadyGroups /\ id[g] = v
    /\ versions'[v] = [NoVersion EXCEPT !.status = "QA_REVIEW", !.primary = primary[g],
                           !.related = {q \in Unlinked : GroupOf[q] = g} \ {primary[g]}]

LEMMA ListedVersions ==
    ASSUME NEW saved \in BOOLEAN, ListVersions(saved)
    PROVE  \E id \in Injection(ReadyGroups, NewVersions(Cardinality(ReadyGroups))),
              primary \in [ReadyGroups -> Unlinked] :
              /\ \A g \in ReadyGroups : GroupOf[primary[g]] = g
              /\ SyncVersions(id, primary, saved)
              /\ \A v \in Version :
                    \/ v \in Promoted /\ versions'[v] = [versions[v] EXCEPT !.status = "QA_REVIEW"]
                    \/ v \notin Promoted /\ \E g \in ReadyGroups : MadeOf(v, g, id, primary)
                    \/ versions'[v] = versions[v]
<1>1. PICK id \in Injection(ReadyGroups, NewVersions(Cardinality(ReadyGroups))),
           primary \in [ReadyGroups -> Unlinked] :
           /\ \A g \in ReadyGroups : GroupOf[primary[g]] = g
           /\ SyncVersions(id, primary, saved)
  BY DEF ListVersions
<1>2. ASSUME NEW v \in Version, v \notin Promoted, NEW h \in ReadyGroups, id[h] = v
      PROVE  \E g \in ReadyGroups : MadeOf(v, g, id, primary)
  <2> DEFINE g == CHOOSE x \in ReadyGroups : id[x] = v
  <2>1. g \in ReadyGroups /\ id[g] = v
    BY <1>2
  <2>2. MadeOf(v, g, id, primary)
    BY <1>1, <1>2, <2>1 DEF SyncVersions, MadeOf
  <2>3. QED
    BY <2>1, <2>2
<1>3. ASSUME NEW v \in Version, v \in Promoted
      PROVE  versions'[v] = [versions[v] EXCEPT !.status = "QA_REVIEW"]
  BY <1>1, <1>3 DEF SyncVersions
<1>4. ASSUME NEW v \in Version, v \notin Promoted, \A g \in ReadyGroups : id[g] # v
      PROVE  versions'[v] = versions[v]
  BY <1>1, <1>4 DEF SyncVersions
<1>5. QED
  BY <1>1, <1>2, <1>3, <1>4

LEMMA LinkingStepTyped == ReleaseTyped /\ LinkingStep => ReleaseTyped'
<1> SUFFICES ASSUME ReleaseTyped, LinkingStep PROVE ReleaseTyped'
  OBVIOUS
<1>1. ASSUME NEW q \in Requests, NEW related \in SUBSET (Requests \ {q}), CreateVersion(q, related)
      PROVE  ReleaseTyped'
  <2>1. [NoVersion EXCEPT !.status = "DRAFT", !.primary = q, !.related = related] \in VersionRow
    BY ReleaseStatuses DEF VersionRow
  <2>2. QED
    BY <1>1, <2>1 DEF CreateVersion, SetVersion, LeaveEvidence, ReleaseTyped
<1>2. ASSUME NEW saved \in BOOLEAN, ListVersions(saved) PROVE ReleaseTyped'
  <2>1. PICK id \in Injection(ReadyGroups, NewVersions(Cardinality(ReadyGroups))),
             primary \in [ReadyGroups -> Unlinked] :
             /\ SyncVersions(id, primary, saved)
             /\ \A v \in Version :
                   \/ v \in Promoted /\ versions'[v] = [versions[v] EXCEPT !.status = "QA_REVIEW"]
                   \/ v \notin Promoted /\ \E g \in ReadyGroups : MadeOf(v, g, id, primary)
                   \/ versions'[v] = versions[v]
    BY <1>2, ListedVersions
  <2>2. ASSUME NEW v \in Version, NEW g \in ReadyGroups, MadeOf(v, g, id, primary)
        PROVE  versions'[v] \in VersionRow
    <3>1. primary[g] \in Requests /\ Unlinked \subseteq Requests
      BY <2>1 DEF Unlinked
    <3> DEFINE related == {q \in Unlinked : GroupOf[q] = g} \ {primary[g]}
    <3>2. related \in SUBSET Requests
      BY <3>1
    <3>3. versions'[v] = [NoVersion EXCEPT !.status = "QA_REVIEW", !.primary = primary[g],
                              !.related = related]
      BY <2>2 DEF MadeOf
    <3> HIDE DEF related
    <3>4. QED
      BY <3>1, <3>2, <3>3, ReleaseStatuses DEF VersionRow
  <2>3. ASSUME NEW v \in Version PROVE versions'[v] \in VersionRow
    <3>1. versions[v] \in VersionRow
      BY DEF ReleaseTyped
    <3>2. [versions[v] EXCEPT !.status = "QA_REVIEW"] \in VersionRow
      BY <3>1, VersionRows, ReleaseStatuses
    <3>3. QED
      BY <2>1, <2>2, <3>1, <3>2
  <2>4. \A q \in Requests : [requests[q] EXCEPT !.status = "COMPLETED"] \in RequestRow
    BY RequestRows, ReleaseStatuses DEF ReleaseTyped
  <2>5. requests' \in [Requests -> RequestRow]
    BY <2>1, <2>4 DEF SyncVersions, ReleaseTyped
  <2>6. versions' \in [Version -> VersionRow]
    BY <2>1, <2>3 DEF SyncVersions
  <2>7. QED
    BY <1>2, <2>5, <2>6 DEF ListVersions, LeaveEvidence, ReleaseTyped
<1>3. QED
  BY <1>1, <1>2 DEF LinkingStep

(* The rows of a version and of its requests that the methods write *)
LEMMA ReturnedTyped ==
    ASSUME ReleaseTyped, NEW v \in Version
    PROVE  /\ Returned(v) \in [Requests -> RequestRow]
           /\ \A q \in Requests :
                 /\ q \notin Linked(v) => Returned(v)[q] = requests[q]
                 /\ q \in Linked(v) => /\ Returned(v)[q].quality = "RETEST_REQUIRED"
                                       /\ Returned(v)[q].status = "IN_PROGRESS"
<1>1. \A q \in Requests :
         [requests[q] EXCEPT !.status = "IN_PROGRESS", !.quality = "RETEST_REQUIRED"] \in RequestRow
  BY RequestRows, ReleaseStatuses DEF ReleaseTyped
<1>2. QED
  BY <1>1 DEF Returned, ReleaseTyped, RequestRow

LEMMA VersionStepTyped == RetestTypeOK /\ ReleaseTyped /\ VersionStep => ReleaseTyped'
<1> SUFFICES ASSUME RetestTypeOK, ReleaseTyped, NEW v \in Version,
                    \/ SubmitForQAReview(v)
                    \/ EmergencyPublish(v)
                    \/ RequestRerun(v)
                    \/ \E quality \in Qualities, security \in {FALSE, Calls("security")} :
                          SetQAQuality(v, quality, security)
                    \/ SecurityReviewDone(v)
             PROVE  ReleaseTyped'
  BY DEF VersionStep
<1>1. versions[v] \in VersionRow
  BY DEF ReleaseTyped
<1>2. ASSUME NEW row \in VersionRow, SetVersion(v, row), LeaveEvidence,
             requests' \in [Requests -> RequestRow]
      PROVE  ReleaseTyped'
  BY <1>2, SetVersionTyped DEF LeaveEvidence, ReleaseTyped
<1>3. CASE SubmitForQAReview(v)
  BY <1>1, <1>2, <1>3, VersionRows, ReleaseStatuses DEF SubmitForQAReview, ReleaseTyped
<1>4. CASE EmergencyPublish(v)
  BY <1>1, <1>2, <1>4, VersionRows DEF EmergencyPublish, ReleaseTyped
<1>5. CASE RequestRerun(v)
  <2> DEFINE row == [Judged(v, "RETEST_REQUIRED", "QA_REVIEW") EXCEPT
                        !.baseline = FinalRunCount(runs, v)]
  <2>1. Judged(v, "RETEST_REQUIRED", "QA_REVIEW") \in VersionRow
    BY <1>1, VersionRows, ReleaseStatuses DEF Judged
  <2>2. row \in VersionRow
    BY <2>1, FinalRunsBounded DEF VersionRow
  <2>3. SetVersion(v, row) /\ requests' = Reflected(Returned(v), row) /\ LeaveEvidence
    BY <1>5 DEF RequestRerun
  <2> HIDE DEF row
  <2>4. QED
    BY <1>2, <2>2, <2>3, ReturnedTyped, ReflectedTyped
<1>6. ASSUME NEW quality \in Qualities, NEW security, SetQAQuality(v, quality, security)
      PROVE  ReleaseTyped'
  <2> DEFINE row == Judged(v, quality,
                           IF security THEN "SECURITY_REVIEW" ELSE "PENDING_DECISION")
  <2>1. row \in VersionRow
    BY <1>1, VersionRows, ReleaseStatuses, ReleaseAssumption DEF Judged
  <2>2. SetVersion(v, row) /\ requests' = Reflected(requests, row) /\ LeaveEvidence
    BY <1>6 DEF SetQAQuality
  <2> HIDE DEF row
  <2>3. QED
    BY <1>2, <2>1, <2>2, ReflectedTyped DEF ReleaseTyped
<1>7. CASE SecurityReviewDone(v)
  <2> DEFINE row == [versions[v] EXCEPT !.status = "PENDING_DECISION"]
  <2>1. row \in VersionRow
    BY <1>1, VersionRows, ReleaseStatuses
  <2>2. SetVersion(v, row) /\ requests' = Reflected(requests, row) /\ LeaveEvidence
    BY <1>7 DEF SecurityReviewDone, ToDecision
  <2> HIDE DEF row
  <2>3. QED
    BY <1>2, <2>1, <2>2, ReflectedTyped DEF ReleaseTyped
<1>8. QED
  BY <1>3, <1>4, <1>5, <1>6, <1>7

(* A decision and a publication write one row of their version. *)
DecidedRow(v, decision) ==
    [versions[v] EXCEPT !.decision = decision,
                        !.status = IF decision = "BLOCKED" THEN "DRAFT" ELSE decision]

LEMMA LockingRows ==
    ASSUME ReleaseTyped, LockingStep
    PROVE  \E v \in Version, row \in VersionRow :
              /\ LockAndReflect(v, row)
              /\ row.primary = versions[v].primary /\ row.related = versions[v].related
              /\ row.quality = versions[v].quality /\ row.risk = versions[v].risk
              /\ \/ /\ versions[v].status = "PENDING_DECISION"
                    /\ row.status \in {"DRAFT", "APPROVED", "CONDITIONAL", "REJECTED"}
                    /\ row.status \in {"APPROVED", "CONDITIONAL"} /\ ~row.risk
                          => OpenCritical(Linked(v)) = {}
                 \/ /\ versions[v].status \in {"APPROVED", "CONDITIONAL"}
                    /\ row.status = "PUBLISHED"
<1>1. \A v \in Version : versions[v] \in VersionRow
  BY DEF ReleaseTyped
<1>2. ASSUME NEW v \in Version, NEW decision \in Decisions, Decide(v, decision)
      PROVE  /\ LockAndReflect(v, DecidedRow(v, decision))
             /\ DecidedRow(v, decision) \in VersionRow
             /\ DecidedRow(v, decision).primary = versions[v].primary
             /\ DecidedRow(v, decision).related = versions[v].related
             /\ DecidedRow(v, decision).quality = versions[v].quality
             /\ DecidedRow(v, decision).risk = versions[v].risk
             /\ versions[v].status = "PENDING_DECISION"
             /\ DecidedRow(v, decision).status \in {"DRAFT", "APPROVED", "CONDITIONAL", "REJECTED"}
             /\ DecidedRow(v, decision).status \in {"APPROVED", "CONDITIONAL"}
                   /\ ~DecidedRow(v, decision).risk => OpenCritical(Linked(v)) = {}
  <2>1. decision \in {"APPROVED", "CONDITIONAL", "REJECTED", "BLOCKED"}
    BY ReleaseAssumption DEF Decision
  <2>2. (IF decision = "BLOCKED" THEN "DRAFT" ELSE decision) \in VersionStatus
    BY <2>1, ReleaseStatuses
  <2>3. DecidedRow(v, decision) \in VersionRow
    BY <1>1, <2>1, <2>2, VersionRows DEF DecidedRow, Decision
  <2>4. LockAndReflect(v, DecidedRow(v, decision)) /\ versions[v].status = "PENDING_DECISION"
    BY <1>2 DEF Decide, DecidedRow
  <2>5. DecidedRow(v, decision).status = IF decision = "BLOCKED" THEN "DRAFT" ELSE decision
    BY <1>1 DEF DecidedRow, VersionRow
  <2>6. /\ DecidedRow(v, decision).primary = versions[v].primary
        /\ DecidedRow(v, decision).related = versions[v].related
        /\ DecidedRow(v, decision).quality = versions[v].quality
        /\ DecidedRow(v, decision).risk = versions[v].risk
    BY <1>1 DEF DecidedRow, VersionRow
  <2>7. decision \in {"APPROVED", "CONDITIONAL"} /\ ~versions[v].risk
           => OpenCritical(Linked(v)) = {}
    BY <1>2 DEF Decide, Emergency
  <2>8. QED
    BY <2>1, <2>3, <2>4, <2>5, <2>6, <2>7
<1>3. ASSUME NEW v \in Version, Publish(v)
      PROVE  LET row == [versions[v] EXCEPT !.status = "PUBLISHED"]
             IN  /\ LockAndReflect(v, row) /\ row \in VersionRow
                 /\ row.primary = versions[v].primary /\ row.related = versions[v].related
                 /\ row.quality = versions[v].quality /\ row.risk = versions[v].risk
                 /\ versions[v].status \in {"APPROVED", "CONDITIONAL"}
                 /\ row.status = "PUBLISHED"
  <2>1. LockAndReflect(v, [versions[v] EXCEPT !.status = "PUBLISHED"])
           /\ versions[v].status \in {"APPROVED", "CONDITIONAL"}
    BY <1>3 DEF Publish
  <2>2. QED
    BY <1>1, <2>1, VersionRows, ReleaseStatuses DEF VersionRow
<1>4. QED
  BY <1>2, <1>3 DEF LockingStep

LEMMA LockingStepTyped == ReleaseTyped /\ LockingStep => ReleaseTyped'
<1> SUFFICES ASSUME ReleaseTyped, LockingStep PROVE ReleaseTyped'
  OBVIOUS
<1>1. PICK v \in Version, row \in VersionRow : LockAndReflect(v, row)
  BY LockingRows
<1>2. versions' \in [Version -> VersionRow]
  BY <1>1, SetVersionTyped DEF LockAndReflect
<1>3. requests' \in [Requests -> RequestRow]
  BY <1>1, ReflectedTyped DEF LockAndReflect, ReleaseTyped
<1>4. QED
  BY <1>1, <1>2, <1>3 DEF LockAndReflect, Restamp, ReleaseTyped

LEMMA RunStepTyped == ReleaseTyped /\ RunStep => ReleaseTyped'
<1> SUFFICES ASSUME ReleaseTyped, NEW r \in Run, RegisterRun(r) PROVE ReleaseTyped'
  BY DEF RunStep
<1>1. MarkQaRetestExecutionRegistered(r) /\ UNCHANGED incomplete /\ newer' \subseteq Run \X Run
  BY DEF RegisterRun, Restamp
<1>2. \A v \in Version :
         [versions[v] EXCEPT !.quality = "IN_PROGRESS", !.status = "QA_REVIEW"] \in VersionRow
  BY VersionRows, ReleaseStatuses DEF ReleaseTyped
<1>3. versions' \in [Version -> VersionRow]
  BY <1>1, <1>2 DEF MarkQaRetestExecutionRegistered, ReleaseTyped
<1>4. \A q \in Requests : [requests[q] EXCEPT !.quality = "IN_PROGRESS"] \in RequestRow
  BY RequestRows, ReleaseStatuses DEF ReleaseTyped
<1>5. requests' \in [Requests -> RequestRow]
  BY <1>1, <1>4 DEF MarkQaRetestExecutionRegistered, ReleaseTyped
<1>6. QED
  BY <1>1, <1>3, <1>5 DEF ReleaseTyped

LEMMA RetestStepTyped == ReleaseTyped /\ RetestStep => ReleaseTyped'
<1> SUFFICES ASSUME ReleaseTyped, RetestStep PROVE ReleaseTyped'
  OBVIOUS
<1>1. newer' \subseteq Run \X Run
  BY DEF RetestStep, OtherRunMethods, Restamp, ReleaseTyped
<1>2. QED
  BY <1>1 DEF RetestStep, releaseRows, ReleaseTyped

LEMMA StepTyped == RetestTypeOK /\ ReleaseTyped /\ ReleaseStep => ReleaseTyped'
  BY RequestStepTyped, LinkingStepTyped, VersionStepTyped, LockingStepTyped, RunStepTyped,
     RetestStepTyped DEF ReleaseStep

-------------------------------------------------------------------------------
(* What a step is for the evidence *)
LEMMA LockingIsAction ==
    ASSUME ReleaseTyped, VersionsLinked, LockingStep PROVE RetestAction
<1>1. PICK v \in Version, row \in VersionRow :
         LockAndReflect(v, row) /\ versions[v].status \in VersionStatus
  BY LockingRows, ReleaseStatuses
<1>2. Linked(v) \in SUBSET Requests
  BY <1>1, ReleaseStatuses DEF VersionsLinked, Live
<1>3. LockEvidence(Linked(v)) /\ UNCHANGED <<tasks, issues>> /\ Plain
  BY <1>1 DEF LockAndReflect
<1>4. QED
  BY <1>2, <1>3 DEF RetestAction, RunAction

LEMMA StepOfRetest ==
    ASSUME RetestTypeOK, ReleaseTyped, VersionsLinked, ReleaseStep
    PROVE  RetestAction \/ UNCHANGED retestVars
<1>1. RunStep \/ RetestStep => Ordinary
  BY RunStepIsOrdinary, RetestStepIsOrdinary DEF Ordinary
<1>2. QED
  BY <1>1, OrdinaryIsAction, LockingIsAction, LeaveEvidenceKeeps DEF ReleaseStep

-------------------------------------------------------------------------------
(* The links of the versions *)
SameLinks ==
    \A v \in Version : /\ versions'[v].primary = versions[v].primary
                       /\ versions'[v].related = versions[v].related
                       /\ Live(versions', v) <=> Live(versions, v)
RequestsRemain == \A q \in Requests : Live(requests, q) => Live(requests', q)

LEMMA KeepsLinks ==
    ASSUME VersionsLinked, VersionsApart, SameLinks, RequestsRemain
    PROVE  VersionsLinked' /\ VersionsApart'
<1>1. \A v \in Version : Linked(v)' = Linked(v)
  BY DEF SameLinks, Linked
<1>2. VersionsLinked'
  BY <1>1 DEF VersionsLinked, SameLinks, RequestsRemain, Live
<1>3. VersionsApart'
  BY <1>1 DEF VersionsApart, SameLinks, Live
<1>4. QED
  BY <1>2, <1>3

LEMMA SetVersionLinks ==
    ASSUME ReleaseTyped, NEW v \in Version, NEW row, SetVersion(v, row),
           row.primary = versions[v].primary, row.related = versions[v].related,
           row.status \in VersionStatus, versions[v].status \in VersionStatus
    PROVE  SameLinks
  BY ReleaseStatuses DEF SetVersion, SameLinks, Live, ReleaseTyped

LEMMA ReflectedRemain ==
    ASSUME ReleaseTyped, NEW rs \in [Requests -> RequestRow], NEW row \in VersionRow,
           \A q \in Requests : Live(requests, q) => Live(rs, q),
           requests' = Reflected(rs, row)
    PROVE  RequestsRemain
<1>1. \A q \in Requests : requests'[q].status \in {rs[q].status, "COMPLETED"}
  BY ReflectedTyped
<1>2. QED
  BY <1>1, ReleaseStatuses DEF RequestsRemain, Live

LEMMA RequestStepLinks ==
    ReleaseTyped /\ RequestStep => UNCHANGED versions /\ RequestsRemain
<1> SUFFICES ASSUME ReleaseTyped, NEW q \in Requests,
                    \/ CreateRequest(q) \/ SubmitRequest(q)
                    \/ \E verdict \in {"ACCEPTED", "REJECTED"} : ReviewRequest(q, verdict)
                    \/ AssignRequest(q) \/ CancelRequest(q) \/ RequirementsChange(q)
             PROVE  UNCHANGED versions /\ RequestsRemain
  BY DEF RequestStep
<1>1. requests[q] \in RequestRow
  BY DEF ReleaseTyped
<1>2. ASSUME NEW from, NEW row, MoveRequest(q, from, row), row.status \in RequestStatus
      PROVE  UNCHANGED versions /\ RequestsRemain
  BY <1>2, ReleaseStatuses DEF MoveRequest, ReleaseTyped, RequestsRemain, Live
<1>3. ASSUME RequirementsChange(q) PROVE UNCHANGED versions /\ RequestsRemain
  BY <1>3 DEF RequirementsChange, RequestsRemain, Live
<1>4. QED
  <2>1. CASE CreateRequest(q)
    BY <1>2, <2>1, ReleaseStatuses DEF CreateRequest, NoRequest
  <2>2. CASE SubmitRequest(q)
    BY <1>1, <1>2, <2>2, ReleaseStatuses DEF SubmitRequest, RequestRow
  <2>3. ASSUME NEW verdict \in {"ACCEPTED", "REJECTED"}, ReviewRequest(q, verdict)
        PROVE  UNCHANGED versions /\ RequestsRemain
    BY <1>1, <1>2, <2>3, ReleaseStatuses DEF ReviewRequest, RequestRow
  <2>4. CASE AssignRequest(q)
    <3>1. [requests[q] EXCEPT !.status = "IN_PROGRESS", !.assigned = TRUE].status = "IN_PROGRESS"
      BY <1>1 DEF RequestRow
    <3>2. QED
      BY <1>2, <2>4, <3>1, ReleaseStatuses DEF AssignRequest
  <2>5. CASE CancelRequest(q)
    BY <1>1, <1>2, <2>5, ReleaseStatuses DEF CancelRequest, RequestRow
  <2>6. QED
    BY <1>3, <2>1, <2>2, <2>3, <2>4, <2>5

(* A method on one version that exists leaves its links and moves it within  *)
(* the statuses; its quality is that of its primary request afterwards.      *)
LEMMA VersionStepLinks ==
    RetestTypeOK /\ ReleaseTyped /\ VersionStep => SameLinks /\ RequestsRemain
<1> SUFFICES ASSUME RetestTypeOK, ReleaseTyped, NEW v \in Version,
                    \/ SubmitForQAReview(v)
                    \/ EmergencyPublish(v)
                    \/ RequestRerun(v)
                    \/ \E quality \in Qualities, security \in {FALSE, Calls("security")} :
                          SetQAQuality(v, quality, security)
                    \/ SecurityReviewDone(v)
             PROVE  SameLinks /\ RequestsRemain
  BY DEF VersionStep
<1>1. versions[v] \in VersionRow /\ requests \in [Requests -> RequestRow]
  BY DEF ReleaseTyped
<1>2. \A q \in Requests : Live(requests, q) => Live(requests, q)
  OBVIOUS
<1>3. ASSUME UNCHANGED requests PROVE RequestsRemain
  BY <1>3 DEF RequestsRemain, Live
<1>4. CASE SubmitForQAReview(v)
  BY <1>1, <1>3, <1>4, SetVersionLinks, ReleaseStatuses DEF SubmitForQAReview, VersionRow
<1>5. CASE EmergencyPublish(v)
  <2>1. versions[v].status \in VersionStatus
    BY <1>1, <1>5, VersionRows DEF EmergencyPublish, Live
  <2>2. QED
    BY <1>1, <1>3, <1>5, <2>1, SetVersionLinks DEF EmergencyPublish, VersionRow
<1>6. CASE RequestRerun(v)
  <2> DEFINE row == [Judged(v, "RETEST_REQUIRED", "QA_REVIEW") EXCEPT
                        !.baseline = FinalRunCount(runs, v)]
  <2>1. Judged(v, "RETEST_REQUIRED", "QA_REVIEW") \in VersionRow
    BY <1>1, VersionRows, ReleaseStatuses DEF Judged
  <2>2. row \in VersionRow
    BY <2>1, FinalRunsBounded DEF VersionRow
  <2>3. row.primary = versions[v].primary /\ row.related = versions[v].related
           /\ row.status = "QA_REVIEW"
    BY <1>1 DEF Judged, VersionRow
  <2>4. SetVersion(v, row) /\ requests' = Reflected(Returned(v), row)
           /\ versions[v].status \in {"QA_REVIEW", "DRAFT"}
    BY <1>6 DEF RequestRerun, MayJudge
  <2> HIDE DEF row
  <2>5. SameLinks
    BY <2>3, <2>4, SetVersionLinks, ReleaseStatuses
  <2>6. \A q \in Requests : Live(requests, q) => Live(Returned(v), q)
    BY ReturnedTyped, ReleaseStatuses DEF Live
  <2>7. QED
    BY <2>2, <2>4, <2>5, <2>6, ReturnedTyped, ReflectedRemain
<1>7. ASSUME NEW quality \in Qualities, NEW security, SetQAQuality(v, quality, security)
      PROVE  SameLinks /\ RequestsRemain
  <2> DEFINE row == Judged(v, quality,
                           IF security THEN "SECURITY_REVIEW" ELSE "PENDING_DECISION")
  <2>1. row \in VersionRow
    BY <1>1, VersionRows, ReleaseStatuses, ReleaseAssumption DEF Judged
  <2>2. row.primary = versions[v].primary /\ row.related = versions[v].related
           /\ row.status \in VersionStatus
    BY <1>1, ReleaseStatuses DEF Judged, VersionRow
  <2>3. SetVersion(v, row) /\ requests' = Reflected(requests, row)
           /\ versions[v].status \in {"QA_REVIEW", "DRAFT"}
    BY <1>7 DEF SetQAQuality, MayJudge
  <2> HIDE DEF row
  <2>4. SameLinks
    BY <2>2, <2>3, SetVersionLinks, ReleaseStatuses
  <2>5. QED
    BY <1>1, <1>2, <2>1, <2>3, <2>4, ReflectedRemain
<1>8. CASE SecurityReviewDone(v)
  <2> DEFINE row == [versions[v] EXCEPT !.status = "PENDING_DECISION"]
  <2>1. row \in VersionRow
    BY <1>1, VersionRows, ReleaseStatuses
  <2>2. row.primary = versions[v].primary /\ row.related = versions[v].related
           /\ row.status \in VersionStatus
    BY <1>1, ReleaseStatuses DEF VersionRow
  <2>3. SetVersion(v, row) /\ requests' = Reflected(requests, row)
           /\ versions[v].status = "SECURITY_REVIEW"
    BY <1>8 DEF SecurityReviewDone, ToDecision
  <2> HIDE DEF row
  <2>4. SameLinks
    BY <2>2, <2>3, SetVersionLinks, ReleaseStatuses
  <2>5. QED
    BY <1>1, <1>2, <2>1, <2>3, <2>4, ReflectedRemain
<1>9. QED
  BY <1>4, <1>5, <1>6, <1>7, <1>8

LEMMA LockingStepLinks == ReleaseTyped /\ LockingStep => SameLinks /\ RequestsRemain
<1> SUFFICES ASSUME ReleaseTyped, LockingStep PROVE SameLinks /\ RequestsRemain
  OBVIOUS
<1>1. PICK v \in Version, row \in VersionRow :
         /\ LockAndReflect(v, row)
         /\ row.primary = versions[v].primary /\ row.related = versions[v].related
         /\ row.status \in VersionStatus /\ versions[v].status \in VersionStatus
  BY LockingRows, ReleaseStatuses
<1>2. SameLinks
  BY <1>1, SetVersionLinks DEF LockAndReflect
<1>3. RequestsRemain
  BY <1>1, ReflectedRemain DEF LockAndReflect, ReleaseTyped
<1>4. QED
  BY <1>2, <1>3

LEMMA RunStepLinks == ReleaseTyped /\ RunStep => SameLinks /\ RequestsRemain
<1> SUFFICES ASSUME ReleaseTyped, NEW r \in Run, RegisterRun(r) PROVE SameLinks /\ RequestsRemain
  BY DEF RunStep
<1>1. MarkQaRetestExecutionRegistered(r)
  BY DEF RegisterRun
<1>2. \A v \in RerunRegistered(r) : Live(versions, v)
  BY DEF RerunRegistered, AwaitingRerun, VersionsOf
<1>3. ASSUME NEW v \in Version
      PROVE  /\ versions'[v].primary = versions[v].primary
             /\ versions'[v].related = versions[v].related
             /\ Live(versions', v) <=> Live(versions, v)
  <2>1. versions[v] \in VersionRow
    BY DEF ReleaseTyped
  <2>2. CASE v \in RerunRegistered(r)
    <3>1. versions'[v] = [versions[v] EXCEPT !.quality = "IN_PROGRESS", !.status = "QA_REVIEW"]
      BY <1>1, <2>2 DEF MarkQaRetestExecutionRegistered
    <3>2. QED
      BY <1>2, <2>1, <2>2, <3>1, ReleaseStatuses DEF VersionRow, Live
  <2>3. CASE v \notin RerunRegistered(r)
    BY <1>1, <2>3 DEF MarkQaRetestExecutionRegistered, Live
  <2>4. QED
    BY <2>2, <2>3
<1>4. \A q \in Requests : requests'[q].status = requests[q].status
  BY <1>1 DEF MarkQaRetestExecutionRegistered, ReleaseTyped, RequestRow
<1>5. QED
  BY <1>3, <1>4 DEF SameLinks, RequestsRemain, Live

LEMMA RetestStepLinks == RetestStep => UNCHANGED <<requests, versions>>
  BY DEF RetestStep, releaseRows

LEMMA CreateVersionLinks ==
    ASSUME ReleaseTyped, VersionsLinked, VersionsApart,
           NEW q \in Requests, NEW related \in SUBSET (Requests \ {q}), CreateVersion(q, related)
    PROVE  VersionsLinked' /\ VersionsApart'
<1>1. PICK v \in Version :
         /\ versions[v].status = "UNUSED"
         /\ versions' = [versions EXCEPT ![v] =
               [NoVersion EXCEPT !.status = "DRAFT", !.primary = q, !.related = related]]
  BY DEF CreateVersion, SetVersion, IsNext
<1>2. UNCHANGED requests
  BY DEF CreateVersion
<1>3. \A p \in {q} \cup related : p \in Requests /\ VersionsOf(p) = {} /\ Live(requests, p)
  BY DEF CreateVersion, Linkable
<1>4. /\ Linked(v)' = {q} \cup related
      /\ versions'[v].primary = q
  BY <1>1 DEF Linked, ReleaseTyped, NoVersion
<1>5. \A w \in Version \ {v} : versions'[w] = versions[w] /\ Linked(w)' = Linked(w)
  BY <1>1 DEF Linked, ReleaseTyped
<1>6. \A w \in Version : Live(versions, w) => Linked(w) \cap ({q} \cup related) = {}
  BY <1>3 DEF VersionsOf
<1>7. VersionsLinked'
  BY <1>2, <1>3, <1>4, <1>5 DEF VersionsLinked, Live
<1>8. VersionsApart'
  <2> SUFFICES ASSUME NEW x \in Version, NEW w \in Version, Live(versions, x)', Live(versions, w)',
                      x # w
               PROVE  Linked(x)' \cap Linked(w)' = {}
    BY DEF VersionsApart
  <2>1. CASE x # v /\ w # v
    BY <1>5, <2>1 DEF VersionsApart, Live
  <2>2. CASE x = v
    BY <1>4, <1>5, <1>6, <2>2 DEF Live
  <2>3. CASE w = v
    BY <1>4, <1>5, <1>6, <2>3 DEF Live
  <2>4. QED
    BY <2>1, <2>2, <2>3
<1>9. QED
  BY <1>7, <1>8

LEMMA ListVersionsLinks ==
    ASSUME ReleaseTyped, VersionsLinked, VersionsApart, NEW saved \in BOOLEAN, ListVersions(saved)
    PROVE  VersionsLinked' /\ VersionsApart' /\ RequestsRemain
<1> DEFINE Members(g) == {q \in Unlinked : GroupOf[q] = g}
<1>1. PICK id \in Injection(ReadyGroups, NewVersions(Cardinality(ReadyGroups))),
           primary \in [ReadyGroups -> Unlinked] :
           /\ \A g \in ReadyGroups : GroupOf[primary[g]] = g
           /\ SyncVersions(id, primary, saved)
           /\ \A v \in Version :
                 \/ v \in Promoted /\ versions'[v] = [versions[v] EXCEPT !.status = "QA_REVIEW"]
                 \/ v \notin Promoted /\ \E g \in ReadyGroups : MadeOf(v, g, id, primary)
                 \/ versions'[v] = versions[v]
  BY ListedVersions
<1>2. \A q \in Unlinked : q \in Requests /\ VersionsOf(q) = {} /\ Live(requests, q)
  BY ReleaseStatuses DEF Unlinked, ReadyForQualityQueue, Testable, Live, Absent
<1>3. RequestsRemain
  <2>1. \A q \in Requests : [requests[q] EXCEPT !.status = "COMPLETED"].status = "COMPLETED"
    BY DEF ReleaseTyped, RequestRow
  <2>2. \A q \in Requests : requests'[q].status \in {requests[q].status, "COMPLETED"}
    BY <1>1, <2>1 DEF SyncVersions
  <2>3. QED
    BY <2>2, ReleaseStatuses DEF RequestsRemain, Live
<1> DEFINE Made(v) == \E g \in ReadyGroups : MadeOf(v, g, id, primary)
<1>4. ASSUME NEW v \in Version, NEW g \in ReadyGroups, MadeOf(v, g, id, primary)
      PROVE  versions'[v].primary \in Requests /\ Linked(v)' \subseteq Members(g) /\ id[g] = v
  <2>1. primary[g] \in Unlinked /\ GroupOf[primary[g]] = g
    BY <1>1
  <2>2. versions'[v].primary = primary[g] /\ versions'[v].related = Members(g) \ {primary[g]}
    BY <1>4 DEF MadeOf, NoVersion
  <2>3. QED
    BY <1>2, <1>4, <2>1, <2>2 DEF Linked, MadeOf
<1>5. ASSUME NEW v \in Version, ~Made(v)
      PROVE  /\ Linked(v)' = Linked(v) /\ versions'[v].primary = versions[v].primary
             /\ Live(versions, v)' <=> Live(versions, v)
  <2>1. versions[v] \in VersionRow
    BY DEF ReleaseTyped
  <2>2. CASE v \in Promoted /\ versions'[v] = [versions[v] EXCEPT !.status = "QA_REVIEW"]
    BY <2>1, <2>2, ReleaseStatuses DEF Promoted, Linked, Live, VersionRow
  <2>3. CASE versions'[v] = versions[v]
    BY <2>3 DEF Linked, Live
  <2>4. QED
    BY <1>1, <1>5, <2>2, <2>3
<1> HIDE DEF Made
<1>6. \A w \in Version, q \in Unlinked : Live(versions, w) => q \notin Linked(w)
  BY <1>2 DEF VersionsOf
<1>7. VersionsLinked'
  <2> SUFFICES ASSUME NEW v \in Version, Live(versions, v)'
               PROVE  /\ versions'[v].primary \in Requests
                      /\ \A q \in Linked(v)' : q \in Requests /\ Live(requests', q)
    BY DEF VersionsLinked, Live
  <2>1. CASE Made(v)
    BY <1>2, <1>3, <1>4, <2>1 DEF Made, RequestsRemain
  <2>2. CASE ~Made(v)
    BY <1>3, <1>5, <2>2 DEF VersionsLinked, RequestsRemain
  <2>3. QED
    BY <2>1, <2>2
<1>8. VersionsApart'
  <2> SUFFICES ASSUME NEW v \in Version, NEW w \in Version, Live(versions, v)', Live(versions, w)',
                      v # w, NEW q \in Linked(v)', q \in Linked(w)'
               PROVE  FALSE
    BY DEF VersionsApart
  <2>1. CASE Made(v) /\ Made(w)
    BY <1>4, <2>1 DEF Made
  <2>2. CASE Made(v) /\ ~Made(w)
    BY <1>4, <1>5, <1>6, <2>2 DEF Made
  <2>3. CASE ~Made(v) /\ Made(w)
    BY <1>4, <1>5, <1>6, <2>3 DEF Made
  <2>4. CASE ~Made(v) /\ ~Made(w)
    BY <1>5, <2>4 DEF VersionsApart
  <2>5. QED
    BY <2>1, <2>2, <2>3, <2>4
<1>9. QED
  BY <1>3, <1>7, <1>8

LEMMA StepLinks ==
    ASSUME RetestTypeOK, ReleaseTyped, VersionsLinked, VersionsApart, ReleaseStep
    PROVE  VersionsLinked' /\ VersionsApart'
<1>1. ASSUME UNCHANGED versions PROVE SameLinks
  BY <1>1 DEF SameLinks, Live
<1>2. ASSUME UNCHANGED requests PROVE RequestsRemain
  BY <1>2 DEF RequestsRemain, Live
<1>3. CASE LinkingStep
  BY <1>3, CreateVersionLinks, ListVersionsLinks DEF LinkingStep
<1>4. CASE ~LinkingStep
  <2>1. SameLinks /\ RequestsRemain
    BY <1>1, <1>2, <1>4, RequestStepLinks, VersionStepLinks, LockingStepLinks, RunStepLinks,
       RetestStepLinks DEF ReleaseStep
  <2>2. QED
    BY <2>1, KeepsLinks
<1>5. QED
  BY <1>3, <1>4

-------------------------------------------------------------------------------
(* The re-run verdict.  A step that changes no version's quality to             *)
(* RETEST_REQUIRED and no linked request's quality keeps RerunReachesQA.        *)
LEMMA OtherVersionsApart ==
    ASSUME VersionsLinked, VersionsApart, NEW v \in Version, NEW w \in Version, v # w,
           Live(versions, v), Live(versions, w)
    PROVE  \A q \in Linked(w) : q \notin Linked(v) /\ q \in Requests
  BY DEF VersionsApart, VersionsLinked

LEMMA RerunIsLive ==
    ASSUME RerunReachesQA
    PROVE  \A v \in Version : versions[v].quality = "RETEST_REQUIRED"
              => Live(versions, v) /\ versions[v].status = "QA_REVIEW"
  BY ReleaseStatuses DEF RerunReachesQA, Live

(* A step that writes the row of one version and reflects it on its primary. *)
LEMMA OneVersionRerun ==
    ASSUME ReleaseTyped, VersionsLinked, VersionsApart, RerunReachesQA,
           NEW v \in Version, Live(versions, v), NEW row \in VersionRow, SetVersion(v, row),
           row.primary = versions[v].primary, row.related = versions[v].related,
           \A q \in Requests \ Linked(v) : requests'[q] = requests[q],
           row.quality = "RETEST_REQUIRED" => /\ row.status = "QA_REVIEW"
                                              /\ \A q \in Linked(v) :
                                                    requests'[q].quality = "RETEST_REQUIRED"
    PROVE  RerunReachesQA'
<1> SUFFICES ASSUME NEW w \in Version, versions'[w].quality = "RETEST_REQUIRED"
             PROVE  /\ versions'[w].status = "QA_REVIEW"
                    /\ \A q \in Linked(w)' : requests'[q].quality = "RETEST_REQUIRED"
  BY DEF RerunReachesQA
<1>1. CASE w = v
  <2>1. versions'[v] = row /\ Linked(v)' = Linked(v)
    BY DEF SetVersion, ReleaseTyped, Linked
  <2>2. QED
    BY <1>1, <2>1
<1>2. CASE w # v
  <2>1. versions'[w] = versions[w] /\ Linked(w)' = Linked(w)
    BY <1>2 DEF SetVersion, ReleaseTyped, Linked
  <2>2. Live(versions, w)
    BY <2>1, RerunIsLive
  <2>3. \A q \in Linked(w) : requests'[q] = requests[q]
    BY <1>2, <2>2, OtherVersionsApart
  <2>4. QED
    BY <2>1, <2>3 DEF RerunReachesQA
<1>3. QED
  BY <1>1, <1>2

LEMMA RequestStepRerun ==
    ASSUME ReleaseTyped, VersionsLinked, RerunReachesQA, RequestStep
    PROVE  RerunReachesQA'
<1> SUFFICES ASSUME NEW q \in Requests,
                    \/ CreateRequest(q) \/ SubmitRequest(q)
                    \/ \E verdict \in {"ACCEPTED", "REJECTED"} : ReviewRequest(q, verdict)
                    \/ AssignRequest(q) \/ CancelRequest(q) \/ RequirementsChange(q)
             PROVE  RerunReachesQA'
  BY DEF RequestStep
<1>1. requests[q] \in RequestRow
  BY DEF ReleaseTyped
<1>2. ASSUME NEW from, NEW row, MoveRequest(q, from, row),
             row.quality = requests[q].quality \/ ~Live(requests, q)
      PROVE  RerunReachesQA'
  <2>1. versions' = versions /\ \A v \in Version : Linked(v)' = Linked(v)
    BY <1>2 DEF MoveRequest, Linked
  <2>2. \A p \in Requests : requests'[p].quality = requests[p].quality \/ ~Live(requests, p)
    BY <1>2 DEF MoveRequest, ReleaseTyped
  <2>3. \A v \in Version : versions[v].quality = "RETEST_REQUIRED" =>
           \A p \in Linked(v) : p \in Requests /\ Live(requests, p)
    BY RerunIsLive DEF VersionsLinked
  <2>4. QED
    BY <2>1, <2>2, <2>3 DEF RerunReachesQA
<1>3. CASE RequirementsChange(q)
  BY <1>3 DEF RequirementsChange, RerunReachesQA, Linked
<1>4. CASE CreateRequest(q)
  BY <1>2, <1>4, ReleaseStatuses DEF CreateRequest, MoveRequest, Live
<1>5. CASE SubmitRequest(q)
  BY <1>1, <1>2, <1>5 DEF SubmitRequest, RequestRow
<1>6. ASSUME NEW verdict \in {"ACCEPTED", "REJECTED"}, ReviewRequest(q, verdict)
      PROVE  RerunReachesQA'
  BY <1>1, <1>2, <1>6 DEF ReviewRequest, RequestRow
<1>7. CASE AssignRequest(q)
  <2>1. [requests[q] EXCEPT !.status = "IN_PROGRESS", !.assigned = TRUE].quality
           = requests[q].quality
    BY <1>1 DEF RequestRow
  <2>2. QED
    BY <1>2, <1>7, <2>1 DEF AssignRequest
<1>8. CASE CancelRequest(q)
  BY <1>1, <1>2, <1>8 DEF CancelRequest, RequestRow
<1>9. QED
  BY <1>3, <1>4, <1>5, <1>6, <1>7, <1>8

LEMMA LinkingStepRerun ==
    ASSUME ReleaseTyped, VersionsLinked, RerunReachesQA, LinkingStep
    PROVE  RerunReachesQA'
<1>1. ASSUME NEW q \in Requests, NEW related \in SUBSET (Requests \ {q}), CreateVersion(q, related)
      PROVE  RerunReachesQA'
  <2>1. PICK v \in Version :
           versions' = [versions EXCEPT ![v] =
               [NoVersion EXCEPT !.status = "DRAFT", !.primary = q, !.related = related]]
    BY <1>1 DEF CreateVersion, SetVersion
  <2>2. [NoVersion EXCEPT !.status = "DRAFT", !.primary = q, !.related = related].quality
           # "RETEST_REQUIRED"
    BY ReleaseStatuses DEF NoVersion
  <2>3. UNCHANGED requests
    BY <1>1 DEF CreateVersion
  <2>4. QED
    BY <2>1, <2>2, <2>3 DEF RerunReachesQA, Linked, ReleaseTyped
<1>2. ASSUME NEW saved \in BOOLEAN, ListVersions(saved) PROVE RerunReachesQA'
  <2>1. PICK id \in Injection(ReadyGroups, NewVersions(Cardinality(ReadyGroups))),
             primary \in [ReadyGroups -> Unlinked] :
             /\ SyncVersions(id, primary, saved)
             /\ \A v \in Version :
                   \/ v \in Promoted /\ versions'[v] = [versions[v] EXCEPT !.status = "QA_REVIEW"]
                   \/ v \notin Promoted /\ \E g \in ReadyGroups : MadeOf(v, g, id, primary)
                   \/ versions'[v] = versions[v]
    BY <1>2, ListedVersions
  <2>2. \A q \in Requests : [requests[q] EXCEPT !.status = "COMPLETED"].quality
                              = requests[q].quality
    BY DEF ReleaseTyped, RequestRow
  <2>3. \A q \in Requests : requests'[q].quality = requests[q].quality
    BY <2>1, <2>2 DEF SyncVersions
  <2>4. ASSUME NEW v \in Version, versions'[v].quality = "RETEST_REQUIRED"
        PROVE  /\ versions'[v].status = "QA_REVIEW"
               /\ \A q \in Linked(v)' : requests'[q].quality = "RETEST_REQUIRED"
    <3>1. versions[v] \in VersionRow
      BY DEF ReleaseTyped
    <3>2. CASE v \in Promoted /\ versions'[v] = [versions[v] EXCEPT !.status = "QA_REVIEW"]
      BY <2>4, <3>1, <3>2, RerunIsLive DEF Promoted, VersionRow
    <3>3. ASSUME NEW g \in ReadyGroups, MadeOf(v, g, id, primary) PROVE FALSE
      BY <2>4, <3>3, ReleaseStatuses DEF MadeOf, NoVersion
    <3>4. CASE versions'[v] = versions[v]
      <4>1. Live(versions, v) /\ Linked(v)' = Linked(v)
        BY <2>4, <3>4, RerunIsLive DEF Linked
      <4>2. QED
        BY <2>3, <2>4, <3>4, <4>1 DEF RerunReachesQA, VersionsLinked
    <3>5. QED
      BY <2>1, <3>2, <3>3, <3>4
  <2>5. QED
    BY <2>4 DEF RerunReachesQA
<1>3. QED
  BY <1>1, <1>2 DEF LinkingStep

LEMMA VersionStepRerun ==
    ASSUME RetestTypeOK, ReleaseTyped, VersionsLinked, VersionsApart, RerunReachesQA, VersionStep
    PROVE  RerunReachesQA'
<1> SUFFICES ASSUME NEW v \in Version,
                    \/ SubmitForQAReview(v)
                    \/ EmergencyPublish(v)
                    \/ RequestRerun(v)
                    \/ \E quality \in Qualities, security \in {FALSE, Calls("security")} :
                          SetQAQuality(v, quality, security)
                    \/ SecurityReviewDone(v)
             PROVE  RerunReachesQA'
  BY DEF VersionStep
<1>1. versions[v] \in VersionRow /\ requests \in [Requests -> RequestRow]
  BY DEF ReleaseTyped
<1>2. ASSUME versions[v].status \in VersionStatus
      PROVE  Live(versions, v) /\ versions[v].primary \in Linked(v) /\ versions[v].primary \in Requests
  BY <1>2, ReleaseStatuses DEF Live, Linked, VersionsLinked
<1>3. CASE SubmitForQAReview(v)
  <2> DEFINE row == [versions[v] EXCEPT !.status = "QA_REVIEW"]
  <2>1. row \in VersionRow /\ Live(versions, v)
    BY <1>1, <1>2, <1>3, VersionRows, ReleaseStatuses DEF SubmitForQAReview
  <2>2. row.primary = versions[v].primary /\ row.related = versions[v].related
           /\ row.quality = versions[v].quality
    BY <1>1 DEF VersionRow
  <2>3. SetVersion(v, row) /\ UNCHANGED requests /\ versions[v].status = "DRAFT"
    BY <1>3 DEF SubmitForQAReview
  <2>4. row.quality # "RETEST_REQUIRED"
    BY <2>2, <2>3, RerunIsLive
  <2> HIDE DEF row
  <2>5. QED
    BY <2>1, <2>2, <2>3, <2>4, OneVersionRerun
<1>4. CASE EmergencyPublish(v)
  <2> DEFINE row == [versions[v] EXCEPT !.risk = TRUE]
  <2>1. row \in VersionRow /\ Live(versions, v)
    BY <1>1, <1>4, VersionRows DEF EmergencyPublish
  <2>2. row.primary = versions[v].primary /\ row.related = versions[v].related
           /\ row.quality = versions[v].quality /\ row.status = versions[v].status
    BY <1>1 DEF VersionRow
  <2>3. SetVersion(v, row) /\ UNCHANGED requests
    BY <1>4 DEF EmergencyPublish
  <2>4. row.quality = "RETEST_REQUIRED" =>
           /\ row.status = "QA_REVIEW"
           /\ \A q \in Linked(v) : requests'[q].quality = "RETEST_REQUIRED"
    BY <2>2, <2>3 DEF RerunReachesQA
  <2> HIDE DEF row
  <2>5. QED
    BY <2>1, <2>2, <2>3, <2>4, OneVersionRerun
<1>5. CASE RequestRerun(v)
  <2> DEFINE row == [Judged(v, "RETEST_REQUIRED", "QA_REVIEW") EXCEPT
                        !.baseline = FinalRunCount(runs, v)]
  <2>1. Judged(v, "RETEST_REQUIRED", "QA_REVIEW") \in VersionRow
    BY <1>1, VersionRows, ReleaseStatuses DEF Judged
  <2>2. row \in VersionRow
    BY <2>1, FinalRunsBounded DEF VersionRow
  <2>3. row.primary = versions[v].primary /\ row.related = versions[v].related
           /\ row.status = "QA_REVIEW" /\ row.quality = "RETEST_REQUIRED"
    BY <1>1 DEF Judged, VersionRow
  <2>4. SetVersion(v, row) /\ requests' = Reflected(Returned(v), row)
           /\ versions[v].status \in {"QA_REVIEW", "DRAFT"}
    BY <1>5 DEF RequestRerun, MayJudge
  <2> HIDE DEF row
  <2>5. Live(versions, v) /\ versions[v].primary \in Linked(v)
    BY <1>2, <2>4, ReleaseStatuses
  <2>6. \A q \in Requests \ Linked(v) : requests'[q] = requests[q]
    BY <2>2, <2>3, <2>4, <2>5, ReturnedTyped, ReflectedTyped
  <2>7. \A q \in Linked(v) : q \in Requests
    BY <2>5 DEF VersionsLinked
  <2>8. \A q \in Linked(v) : requests'[q].quality = "RETEST_REQUIRED"
    BY <2>2, <2>3, <2>4, <2>7, ReturnedTyped, ReflectedTyped
  <2>9. QED
    BY <2>2, <2>3, <2>4, <2>5, <2>6, <2>8, OneVersionRerun
<1>6. ASSUME NEW quality \in Qualities, NEW security, SetQAQuality(v, quality, security)
      PROVE  RerunReachesQA'
  <2> DEFINE row == Judged(v, quality,
                           IF security THEN "SECURITY_REVIEW" ELSE "PENDING_DECISION")
  <2>1. row \in VersionRow
    BY <1>1, VersionRows, ReleaseStatuses, ReleaseAssumption DEF Judged
  <2>2. row.primary = versions[v].primary /\ row.related = versions[v].related
           /\ row.quality = quality
    BY <1>1 DEF Judged, VersionRow
  <2>3. SetVersion(v, row) /\ requests' = Reflected(requests, row) /\ quality # "RETEST_REQUIRED"
           /\ versions[v].status \in {"QA_REVIEW", "DRAFT"}
    BY <1>6 DEF SetQAQuality, MayJudge
  <2> HIDE DEF row
  <2>4. Live(versions, v) /\ versions[v].primary \in Linked(v)
    BY <1>2, <2>3, ReleaseStatuses
  <2>5. \A q \in Requests \ Linked(v) : requests'[q] = requests[q]
    BY <1>1, <2>1, <2>2, <2>3, <2>4, ReflectedTyped
  <2>6. QED
    BY <2>1, <2>2, <2>3, <2>4, <2>5, OneVersionRerun
<1>7. CASE SecurityReviewDone(v)
  <2> DEFINE row == [versions[v] EXCEPT !.status = "PENDING_DECISION"]
  <2>1. row \in VersionRow
    BY <1>1, VersionRows, ReleaseStatuses
  <2>2. row.primary = versions[v].primary /\ row.related = versions[v].related
           /\ row.quality = versions[v].quality
    BY <1>1 DEF VersionRow
  <2>3. SetVersion(v, row) /\ requests' = Reflected(requests, row)
           /\ versions[v].status = "SECURITY_REVIEW"
    BY <1>7 DEF SecurityReviewDone, ToDecision
  <2>4. row.quality # "RETEST_REQUIRED"
    BY <2>2, <2>3, RerunIsLive
  <2> HIDE DEF row
  <2>5. Live(versions, v) /\ versions[v].primary \in Linked(v)
    BY <1>2, <2>3, ReleaseStatuses
  <2>6. \A q \in Requests \ Linked(v) : requests'[q] = requests[q]
    BY <1>1, <2>1, <2>2, <2>3, <2>5, ReflectedTyped
  <2>7. QED
    BY <2>1, <2>2, <2>3, <2>4, <2>5, <2>6, OneVersionRerun
<1>8. QED
  BY <1>3, <1>4, <1>5, <1>6, <1>7

LEMMA LockingStepRerun ==
    ASSUME ReleaseTyped, VersionsLinked, VersionsApart, RerunReachesQA, LockingStep
    PROVE  RerunReachesQA'
<1>1. PICK v \in Version, row \in VersionRow :
         /\ LockAndReflect(v, row)
         /\ row.primary = versions[v].primary /\ row.related = versions[v].related
         /\ row.quality = versions[v].quality
         /\ versions[v].status \in VersionStatus \ {"QA_REVIEW"}
  BY LockingRows, ReleaseStatuses
<1>2. Live(versions, v) /\ versions[v].primary \in Linked(v)
  BY <1>1, ReleaseStatuses DEF Live, Linked
<1>3. row.quality # "RETEST_REQUIRED"
  BY <1>1, RerunIsLive
<1>4. SetVersion(v, row) /\ requests' = Reflected(requests, row)
  BY <1>1 DEF LockAndReflect
<1>5. \A q \in Requests \ Linked(v) : requests'[q] = requests[q]
  BY <1>1, <1>2, <1>4, ReflectedTyped DEF ReleaseTyped
<1>6. QED
  BY <1>1, <1>2, <1>3, <1>4, <1>5, OneVersionRerun

LEMMA RunStepRerun ==
    ASSUME ReleaseTyped, VersionsLinked, VersionsApart, RerunReachesQA, RunStep
    PROVE  RerunReachesQA'
<1> SUFFICES ASSUME NEW r \in Run, RegisterRun(r), NEW v \in Version,
                    versions'[v].quality = "RETEST_REQUIRED"
             PROVE  /\ versions'[v].status = "QA_REVIEW"
                    /\ \A q \in Linked(v)' : requests'[q].quality = "RETEST_REQUIRED"
  BY DEF RunStep, RerunReachesQA
<1>1. MarkQaRetestExecutionRegistered(r)
  BY DEF RegisterRun
<1>2. v \notin RerunRegistered(r)
  <2>1. ASSUME v \in RerunRegistered(r) PROVE FALSE
    <3>1. versions'[v] = [versions[v] EXCEPT !.quality = "IN_PROGRESS", !.status = "QA_REVIEW"]
      BY <1>1, <2>1 DEF MarkQaRetestExecutionRegistered
    <3>2. versions'[v].quality = "IN_PROGRESS"
      BY <3>1 DEF ReleaseTyped, VersionRow
    <3>3. QED
      BY <3>2
  <2>2. QED
    BY <2>1
<1>3. versions'[v] = versions[v] /\ Linked(v)' = Linked(v)
  BY <1>1, <1>2 DEF MarkQaRetestExecutionRegistered, Linked
<1>4. Live(versions, v) /\ versions[v].status = "QA_REVIEW"
  BY <1>3, RerunIsLive
<1>5. ASSUME NEW q \in Linked(v) PROVE requests'[q].quality = requests[q].quality
  <2>1. CASE RerunRegistered(r) = {}
    BY <1>1, <2>1 DEF MarkQaRetestExecutionRegistered
  <2>2. ASSUME NEW w \in RerunRegistered(r) PROVE requests'[q].quality = requests[q].quality
    <3>1. w \in Version /\ Live(versions, w) /\ runs'[r].request \in Linked(w) /\ w # v
      BY <1>2 DEF RerunRegistered, AwaitingRerun, VersionsOf
    <3>2. q # runs'[r].request
      BY <1>4, <3>1, OtherVersionsApart
    <3>3. requests' = [requests EXCEPT ![runs'[r].request].quality = "IN_PROGRESS"]
      BY <1>1, <2>2 DEF MarkQaRetestExecutionRegistered
    <3>4. QED
      BY <1>4, <3>2, <3>3 DEF ReleaseTyped, VersionsLinked
  <2>3. QED
    BY <2>1, <2>2
<1>6. QED
  BY <1>3, <1>4, <1>5 DEF RerunReachesQA

LEMMA StepRerun ==
    ASSUME RetestTypeOK, ReleaseTyped, VersionsLinked, VersionsApart, RerunReachesQA, ReleaseStep
    PROVE  RerunReachesQA'
<1>1. ASSUME UNCHANGED <<requests, versions>> PROVE RerunReachesQA'
  BY <1>1 DEF RerunReachesQA, Linked
<1>2. QED
  BY <1>1, RequestStepRerun, LinkingStepRerun, VersionStepRerun, LockingStepRerun, RunStepRerun,
     RetestStepLinks DEF ReleaseStep

-------------------------------------------------------------------------------
(* Locked evidence.  A locked bug belongs to a run that a decision holds; such a *)
(* run keeps its request, and a bug is only locked by a decision, so that no     *)
(* method of RetestFlow makes a locked critical bug for a decided version.       *)
HeldBugs == \A b \in Bug : bugs[b].locked => bugs[b].run \in Run /\ runs[bugs[b].run].held

HeldRunsKept == \A r \in Run : runs[r].held => runs'[r].held /\ runs'[r].request = runs[r].request
LockedBugsKept ==
    \A b \in Bug : bugs'[b].locked => /\ bugs[b].locked
                                      /\ bugs'[b].status = bugs[b].status
                                      /\ bugs'[b].run = bugs[b].run
                                      /\ bugs'[b].critical = bugs[b].critical

LEMMA UnchangedKept ==
    /\ UNCHANGED runs => HeldRunsKept
    /\ UNCHANGED bugs => LockedBugsKept
  BY DEF HeldRunsKept, LockedBugsKept

LEMMA OneRunKept ==
    ASSUME RetestTypeOK, NEW r \in Run, NEW row, runs' = [runs EXCEPT ![r] = row],
           runs[r].held => row.held /\ row.request = runs[r].request
    PROVE  HeldRunsKept
  BY DEF HeldRunsKept, RetestTypeOK

LEMMA OneBugKept ==
    ASSUME RetestTypeOK, NEW b \in Bug, NEW row, SetBug(b, row),
           row.locked => /\ bugs[b].locked /\ row.status = bugs[b].status
                         /\ row.run = bugs[b].run /\ row.critical = bugs[b].critical
    PROVE  LockedBugsKept
  BY DEF LockedBugsKept, SetBug, RetestTypeOK

LEMMA RunChangeKept ==
    ASSUME RetestInv, RunChange PROVE HeldRunsKept /\ LockedBugsKept
<1>0. RetestTypeOK /\ \A r \in Run : runs[r] \in RunRow
  BY DEF RetestInv, RetestTypeOK
<1>1. ASSUME NEW q \in Requests, CreateRun(q) PROVE HeldRunsKept /\ LockedBugsKept
  <2>1. PICK r \in Run : /\ runs[r].status = "UNUSED"
                         /\ \E row : runs' = [runs EXCEPT ![r] = row]
    BY <1>1 DEF CreateRun, IsNext
  <2>2. ~runs[r].held
    BY <2>1, LiveWhenLocked, Statuses DEF Live
  <2>3. UNCHANGED bugs
    BY <1>1 DEF CreateRun
  <2>4. QED
    BY <1>0, <2>1, <2>2, <2>3, OneRunKept, UnchangedKept
<1>2. ASSUME NEW r \in Run, NEW q \in Requests, NEW s, UpdateRun(r, q, s)
      PROVE  HeldRunsKept /\ LockedBugsKept
  <2>1. ~runs[r].held /\ UNCHANGED bugs /\ \E row : runs' = [runs EXCEPT ![r] = row]
    BY <1>2 DEF UpdateRun
  <2>2. QED
    BY <1>0, <2>1, OneRunKept, UnchangedKept
<1>3. ASSUME NEW r \in Run, NEW s \in RunInputs, UpdateRunStatus(r, s)
      PROVE  HeldRunsKept /\ LockedBugsKept
  <2> DEFINE row == [runs[r] EXCEPT !.status = s]
  <2>1. runs' = [runs EXCEPT ![r] = row] /\ UNCHANGED bugs
    BY <1>3 DEF UpdateRunStatus
  <2>2. row.held = runs[r].held /\ row.request = runs[r].request
    BY <1>0 DEF RunRow
  <2> HIDE DEF row
  <2>3. QED
    BY <1>0, <2>1, <2>2, OneRunKept, UnchangedKept
<1>4. ASSUME NEW r \in Run, UnlockRun(r) PROVE HeldRunsKept /\ LockedBugsKept
  <2> DEFINE row == [runs[r] EXCEPT !.locked = FALSE]
  <2>1. (UNCHANGED runs \/ runs' = [runs EXCEPT ![r] = row]) /\ UNCHANGED bugs
    BY <1>4 DEF UnlockRun
  <2>2. row.held = runs[r].held /\ row.request = runs[r].request
    BY <1>0 DEF RunRow
  <2> HIDE DEF row
  <2>3. QED
    BY <1>0, <2>1, <2>2, OneRunKept, UnchangedKept
<1>5. ASSUME NEW r \in Run, DeleteRun(r) PROVE HeldRunsKept /\ LockedBugsKept
  <2>1. ~runs[r].held /\ runs' = [runs EXCEPT ![r] = AbsentRun("DELETED")]
    BY <1>5 DEF DeleteRun, CanDeleteRunCascade
  <2>2. bugs' = [b \in Bug |-> IF b \in BugsOf(r) THEN AbsentBug("DELETED") ELSE bugs[b]]
    BY <1>5 DEF DeleteRun
  <2>3. LockedBugsKept
    BY <2>2, Statuses DEF LockedBugsKept
  <2>4. QED
    BY <1>0, <2>1, <2>3, OneRunKept
<1>6. QED
  BY <1>1, <1>2, <1>3, <1>4, <1>5 DEF RunChange

LEMMA BugActionKept ==
    ASSUME RetestInv, BugAction PROVE HeldRunsKept /\ LockedBugsKept
<1>0. RetestTypeOK /\ \A b \in Bug : bugs[b] \in BugRow
  BY DEF RetestInv, RetestTypeOK
<1>1. ASSUME UNCHANGED runs, NEW b \in Bug, NEW row, SetBug(b, row), ~row.locked
      PROVE  HeldRunsKept /\ LockedBugsKept
  BY <1>0, <1>1, OneBugKept, UnchangedKept
<1>2. \A b \in Bug : \A s : ~bugs[b].locked => ~[bugs[b] EXCEPT !.status = s].locked
  BY <1>0 DEF BugRow
<1>3. ASSUME NEW r \in Run, NEW a \in BOOLEAN, NEW v \in Severities, CreateBug(r, a, v)
      PROVE  HeldRunsKept /\ LockedBugsKept
  <2>1. PICK b \in Bug :
           SetBug(b, [AbsentBug(IF a THEN "ASSIGNED" ELSE "NEW") EXCEPT !.run = r, !.critical = v])
    BY <1>3 DEF CreateBug
  <2>2. ~[AbsentBug(IF a THEN "ASSIGNED" ELSE "NEW") EXCEPT !.run = r, !.critical = v].locked
    BY DEF AbsentBug
  <2>3. QED
    BY <1>1, <1>3, <2>1, <2>2 DEF CreateBug
<1>4. ASSUME NEW b \in Bug, NEW s, NEW p, MoveBug(b, s, p) PROVE HeldRunsKept /\ LockedBugsKept
  <2>1. ~[bugs[b] EXCEPT !.status = s, !.previous = p].locked
    BY <1>0, <1>4 DEF MoveBug, BugRow
  <2>2. QED
    BY <1>1, <1>4, <2>1 DEF MoveBug
<1>5. ASSUME NEW b \in Bug, NEW r \in Run, NEW a \in BOOLEAN, NEW v \in Severities, NEW s,
             UpdateBug(b, r, s, a, v)
      PROVE  HeldRunsKept /\ LockedBugsKept
  <2> DEFINE row == [bugs[b] EXCEPT !.run = r, !.critical = v,
                        !.status = IF a THEN IF @ = "NEW" THEN "ASSIGNED" ELSE @ ELSE s]
  <2>1. ~row.locked
    BY <1>0, <1>5 DEF UpdateBug, BugRow
  <2>2. SetBug(b, row) /\ UNCHANGED runs
    BY <1>5 DEF UpdateBug
  <2> HIDE DEF row
  <2>3. QED
    BY <1>1, <2>1, <2>2
<1>6. ASSUME NEW b \in Bug, DeleteBug(b) PROVE HeldRunsKept /\ LockedBugsKept
  BY <1>1, <1>6, Statuses DEF DeleteBug
<1>7. ASSUME NEW b \in Bug, AssignBug(b) \/ SetFixedVersion(b) \/ CloseBug(b) \/ RestorePreviousStatus(b)
      PROVE  HeldRunsKept /\ LockedBugsKept
  BY <1>4, <1>7 DEF AssignBug, SetFixedVersion, CloseBug, RestorePreviousStatus
<1>8. ASSUME NEW b \in Bug, NEW s \in BugInputs, UpdateBugStatus(b, s)
      PROVE  HeldRunsKept /\ LockedBugsKept
  BY <1>4, <1>8 DEF UpdateBugStatus
<1>9. ASSUME NEW b \in Bug, MarkReadyForRetest(b) PROVE HeldRunsKept /\ LockedBugsKept
  <2>1. UNCHANGED runs
    BY <1>9 DEF MarkReadyForRetest
  <2>2. UNCHANGED bugs \/ (/\ ~bugs[b].locked
                           /\ SetBug(b, [bugs[b] EXCEPT !.status = "RETEST_READY"]))
    BY <1>9 DEF MarkReadyForRetest
  <2>3. QED
    BY <1>1, <1>2, <2>1, <2>2, UnchangedKept
<1>10. ASSUME NEW b \in Bug, NEW passed \in BOOLEAN, Retest(b, passed)
       PROVE  HeldRunsKept /\ LockedBugsKept
  <2>1. /\ UNCHANGED runs /\ ~bugs[b].locked
        /\ \E s : SetBug(b, [bugs[b] EXCEPT !.status = s])
    BY <1>10 DEF Retest
  <2>2. QED
    BY <1>1, <1>2, <2>1
<1>11. ASSUME NEW b \in Bug, UnlockBug(b) PROVE HeldRunsKept /\ LockedBugsKept
  <2>1. ~[bugs[b] EXCEPT !.locked = FALSE].locked
    BY <1>0 DEF BugRow
  <2>2. UNCHANGED runs /\ (UNCHANGED bugs \/ SetBug(b, [bugs[b] EXCEPT !.locked = FALSE]))
    BY <1>11 DEF UnlockBug
  <2>3. QED
    BY <1>1, <2>1, <2>2, UnchangedKept
<1>12. QED
  BY <1>3, <1>5, <1>6, <1>7, <1>8, <1>9, <1>10, <1>11 DEF BugAction

LEMMA TaskActionLeavesBugs == TaskAction => UNCHANGED bugs
  BY DEF TaskAction, EnsureForBug, StartTask, FinishStart, FailStart, CompleteTask, rows

LEMMA TaskActionKept ==
    ASSUME RetestInv, TaskAction PROVE HeldRunsKept /\ LockedBugsKept
<1>0. RetestTypeOK
  BY DEF RetestInv
<1>1. UNCHANGED bugs
  BY TaskActionLeavesBugs
<1>2. UNCHANGED runs \/ \E r \in Run : /\ runs[r].status = "UNUSED"
                                       /\ \E row : runs' = [runs EXCEPT ![r] = row]
  <2>1. ASSUME NEW c \in Callers, FinishStart(c)
        PROVE  UNCHANGED runs \/ \E r \in Run : /\ runs[r].status = "UNUSED"
                                                /\ \E row : runs' = [runs EXCEPT ![r] = row]
    BY <2>1 DEF FinishStart, IsNext
  <2>2. QED
    BY <2>1 DEF TaskAction, EnsureForBug, StartTask, FailStart, CompleteTask, rows
<1>3. ASSUME NEW r \in Run, runs[r].status = "UNUSED", NEW row, runs' = [runs EXCEPT ![r] = row]
      PROVE  HeldRunsKept
  BY <1>0, <1>3, LiveWhenLocked, Statuses, OneRunKept DEF Live
<1>4. QED
  BY <1>1, <1>2, <1>3, UnchangedKept

LEMMA OrdinaryKept ==
    ASSUME RetestInv, Ordinary PROVE HeldRunsKept /\ LockedBugsKept
<1>1. IssueAction => UNCHANGED <<runs, bugs>>
  BY DEF IssueAction, CreateIssue, ResolveIssue
<1>2. QED
  BY <1>1, RunChangeKept, BugActionKept, TaskActionKept, UnchangedKept DEF Ordinary

-------------------------------------------------------------------------------
Approved(v) == versions[v].status \in {"APPROVED", "CONDITIONAL"} /\ ~versions[v].risk

(* No version is approved by the step, and the links of those that are stay. *)
NoNewApproval == \A v \in Version : Approved(v)' => Approved(v) /\ Linked(v)' = Linked(v)

LEMMA CriticalBugs ==
    \A qs, b : b \in OpenCritical(qs) <=>
        /\ b \in Bug /\ Live(bugs, b) /\ bugs[b].critical /\ bugs[b].status \notin ClosedBug
        /\ bugs[b].run \in Run /\ Live(runs, bugs[b].run) /\ runs[bugs[b].run].request \in qs
  BY DEF OpenCritical, BugsOfRequests, RunsOf

LEMMA KeptClean ==
    ASSUME RetestInv, HeldBugs, LockedEvidenceIsClean, HeldRunsKept, LockedBugsKept, NoNewApproval
    PROVE  HeldBugs' /\ LockedEvidenceIsClean'
<1>1. HeldBugs'
  BY DEF HeldBugs, HeldRunsKept, LockedBugsKept
<1>2. ASSUME NEW v \in Version, Approved(v)', NEW b \in OpenCritical(Linked(v))', bugs'[b].locked
      PROVE  FALSE
  <2>1. /\ b \in Bug /\ bugs'[b].critical /\ bugs'[b].status \notin ClosedBug
        /\ runs'[bugs'[b].run].request \in Linked(v)'
    BY <1>2 DEF OpenCritical, BugsOfRequests, RunsOf
  <2>2. /\ bugs[b].locked /\ bugs'[b].status = bugs[b].status
        /\ bugs'[b].run = bugs[b].run /\ bugs'[b].critical = bugs[b].critical
    BY <1>2, <2>1 DEF LockedBugsKept
  <2>3. /\ bugs[b].run \in Run /\ runs[bugs[b].run].held
        /\ runs'[bugs[b].run].request = runs[bugs[b].run].request
    BY <2>1, <2>2 DEF HeldBugs, HeldRunsKept
  <2>4. Live(bugs, b) /\ Live(runs, bugs[b].run)
    BY <2>1, <2>2, <2>3, LiveWhenLocked
  <2>5. Approved(v) /\ Linked(v)' = Linked(v)
    BY <1>2 DEF NoNewApproval
  <2>6. b \in OpenCritical(Linked(v))
    BY <2>1, <2>2, <2>3, <2>4, <2>5, CriticalBugs
  <2>7. QED
    BY <2>2, <2>5, <2>6 DEF LockedEvidenceIsClean, Approved
<1>3. LockedEvidenceIsClean'
  BY <1>2 DEF LockedEvidenceIsClean, Approved
<1>4. QED
  BY <1>1, <1>3

LEMMA LockingStepClean ==
    ASSUME RetestInv, ReleaseTyped, VersionsLinked, VersionsApart, HeldBugs, LockedEvidenceIsClean,
           LockingStep
    PROVE  HeldBugs' /\ LockedEvidenceIsClean'
<1>1. PICK v \in Version, row \in VersionRow :
         /\ LockAndReflect(v, row)
         /\ row.primary = versions[v].primary /\ row.related = versions[v].related
         /\ \/ /\ versions[v].status = "PENDING_DECISION"
               /\ row.status \in {"APPROVED", "CONDITIONAL"} /\ ~row.risk
                     => OpenCritical(Linked(v)) = {}
            \/ /\ versions[v].status \in {"APPROVED", "CONDITIONAL"}
               /\ row.status = "PUBLISHED"
  BY LockingRows
<1>2. LockEvidence(Linked(v)) /\ versions' = [versions EXCEPT ![v] = row]
  BY <1>1 DEF LockAndReflect, SetVersion
<1>3. Live(versions, v)
  BY <1>1, ReleaseStatuses DEF Live
<1>4. \A w \in Version : Linked(w)' = Linked(w)
  BY <1>1, <1>2 DEF Linked, ReleaseTyped
<1>5. \A r \in Run : /\ runs'[r].status = runs[r].status /\ runs'[r].request = runs[r].request
                     /\ runs[r].held => runs'[r].held
                     /\ r \in RunsOf(Linked(v)) => runs'[r].held
  BY <1>2 DEF LockEvidence, RetestInv, RetestTypeOK, RunRow
<1>6. \A b \in Bug : /\ bugs'[b].status = bugs[b].status /\ bugs'[b].run = bugs[b].run
                     /\ bugs'[b].critical = bugs[b].critical
                     /\ bugs[b].run \notin RunsOf(Linked(v)) => bugs'[b].locked = bugs[b].locked
  BY <1>2 DEF LockEvidence, RetestInv, RetestTypeOK, BugRow
<1>7. HeldBugs'
  <2>1. RunsOf(Linked(v)) \subseteq Run
    BY DEF RunsOf
  <2>2. QED
    BY <1>5, <1>6, <2>1 DEF HeldBugs
<1>8. ASSUME NEW w \in Version, Approved(w)', NEW b \in OpenCritical(Linked(w))', bugs'[b].locked
      PROVE  FALSE
  <2>1. /\ b \in Bug /\ Live(bugs', b) /\ bugs'[b].critical /\ bugs'[b].status \notin ClosedBug
        /\ bugs'[b].run \in Run /\ Live(runs', bugs'[b].run)
        /\ runs'[bugs'[b].run].request \in Linked(w)'
    BY <1>8 DEF OpenCritical, BugsOfRequests, RunsOf
  <2>2. b \in OpenCritical(Linked(w))
    BY <1>4, <1>5, <1>6, <2>1, CriticalBugs DEF Live
  <2>3. CASE w = v
    <3>1. row.status \in {"APPROVED", "CONDITIONAL"} /\ ~row.risk
      BY <1>2, <1>8, <2>3 DEF Approved, ReleaseTyped
    <3>2. QED
      BY <1>1, <2>2, <2>3, <3>1
  <2>4. CASE w # v
    <3>1. Approved(w)
      BY <1>2, <1>8, <2>4 DEF Approved, ReleaseTyped
    <3>2. ~bugs[b].locked /\ Live(versions, w)
      BY <2>2, <3>1, ReleaseStatuses DEF Approved, LockedEvidenceIsClean, Live
    <3>3. bugs[b].run \in RunsOf(Linked(v))
      BY <1>6, <1>8, <2>1, <3>2
    <3>4. runs[bugs[b].run].request \in Linked(v) \cap Linked(w)
      BY <2>2, <3>3, CriticalBugs DEF RunsOf
    <3>5. QED
      BY <1>3, <2>4, <3>2, <3>4 DEF VersionsApart
  <2>5. QED
    BY <2>3, <2>4
<1>9. LockedEvidenceIsClean'
  BY <1>8 DEF LockedEvidenceIsClean, Approved
<1>10. QED
  BY <1>7, <1>9

LEMMA SetVersionApproves ==
    ASSUME ReleaseTyped, NEW v \in Version, NEW row, SetVersion(v, row),
           row.primary = versions[v].primary, row.related = versions[v].related,
           \/ row.status \notin {"APPROVED", "CONDITIONAL"}
           \/ row.status = versions[v].status /\ (row.risk \/ row.risk = versions[v].risk)
    PROVE  NoNewApproval
  BY DEF SetVersion, NoNewApproval, Approved, Linked, ReleaseTyped

LEMMA VersionStepApproves == RetestTypeOK /\ ReleaseTyped /\ VersionStep => NoNewApproval
<1> SUFFICES ASSUME RetestTypeOK, ReleaseTyped, NEW v \in Version,
                    \/ SubmitForQAReview(v)
                    \/ EmergencyPublish(v)
                    \/ RequestRerun(v)
                    \/ \E quality \in Qualities, security \in {FALSE, Calls("security")} :
                          SetQAQuality(v, quality, security)
                    \/ SecurityReviewDone(v)
             PROVE  NoNewApproval
  BY DEF VersionStep
<1>1. versions[v] \in VersionRow
  BY DEF ReleaseTyped
<1>2. \A s : LET row == [versions[v] EXCEPT !.status = s]
             IN  /\ row.primary = versions[v].primary /\ row.related = versions[v].related
                 /\ row.status = s
  BY <1>1 DEF VersionRow
<1>3. CASE SubmitForQAReview(v)
  BY <1>2, <1>3, SetVersionApproves DEF SubmitForQAReview
<1>4. CASE EmergencyPublish(v)
  <2> DEFINE row == [versions[v] EXCEPT !.risk = TRUE]
  <2>1. row.primary = versions[v].primary /\ row.related = versions[v].related
           /\ row.status = versions[v].status /\ row.risk
    BY <1>1 DEF VersionRow
  <2>2. SetVersion(v, row)
    BY <1>4 DEF EmergencyPublish
  <2> HIDE DEF row
  <2>3. QED
    BY <2>1, <2>2, SetVersionApproves
<1>5. CASE RequestRerun(v)
  <2> DEFINE row == [Judged(v, "RETEST_REQUIRED", "QA_REVIEW") EXCEPT
                        !.baseline = FinalRunCount(runs, v)]
  <2>1. row.primary = versions[v].primary /\ row.related = versions[v].related
           /\ row.status = "QA_REVIEW"
    BY <1>1 DEF Judged, VersionRow
  <2>2. SetVersion(v, row)
    BY <1>5 DEF RequestRerun
  <2> HIDE DEF row
  <2>3. QED
    BY <2>1, <2>2, SetVersionApproves
<1>6. ASSUME NEW quality \in Qualities, NEW security, SetQAQuality(v, quality, security)
      PROVE  NoNewApproval
  <2> DEFINE row == Judged(v, quality,
                           IF security THEN "SECURITY_REVIEW" ELSE "PENDING_DECISION")
  <2>1. row.primary = versions[v].primary /\ row.related = versions[v].related
           /\ row.status \in {"SECURITY_REVIEW", "PENDING_DECISION"}
    BY <1>1 DEF Judged, VersionRow
  <2>2. SetVersion(v, row)
    BY <1>6 DEF SetQAQuality
  <2> HIDE DEF row
  <2>3. QED
    BY <2>1, <2>2, SetVersionApproves
<1>7. CASE SecurityReviewDone(v)
  BY <1>2, <1>7, SetVersionApproves DEF SecurityReviewDone, ToDecision
<1>8. QED
  BY <1>3, <1>4, <1>5, <1>6, <1>7

LEMMA LinkingStepApproves == ReleaseTyped /\ LinkingStep => NoNewApproval
<1> SUFFICES ASSUME ReleaseTyped, LinkingStep PROVE NoNewApproval
  OBVIOUS
<1>1. ASSUME NEW q \in Requests, NEW related \in SUBSET (Requests \ {q}), CreateVersion(q, related)
      PROVE  NoNewApproval
  <2>1. PICK v \in Version :
           versions' = [versions EXCEPT ![v] =
               [NoVersion EXCEPT !.status = "DRAFT", !.primary = q, !.related = related]]
    BY <1>1 DEF CreateVersion, SetVersion
  <2>2. [NoVersion EXCEPT !.status = "DRAFT", !.primary = q, !.related = related].status = "DRAFT"
    BY DEF NoVersion
  <2>3. QED
    BY <2>1, <2>2 DEF NoNewApproval, Approved, Linked, ReleaseTyped
<1>2. ASSUME NEW saved \in BOOLEAN, ListVersions(saved), NEW v \in Version
      PROVE  versions'[v].status = "QA_REVIEW" \/ versions'[v] = versions[v]
  <2>1. PICK id \in Injection(ReadyGroups, NewVersions(Cardinality(ReadyGroups))),
             primary \in [ReadyGroups -> Unlinked] :
             \/ v \in Promoted /\ versions'[v] = [versions[v] EXCEPT !.status = "QA_REVIEW"]
             \/ v \notin Promoted /\ \E g \in ReadyGroups : MadeOf(v, g, id, primary)
             \/ versions'[v] = versions[v]
    BY <1>2, ListedVersions
  <2>2. [versions[v] EXCEPT !.status = "QA_REVIEW"].status = "QA_REVIEW"
    BY DEF ReleaseTyped, VersionRow
  <2>3. ASSUME NEW g \in ReadyGroups, MadeOf(v, g, id, primary)
        PROVE  versions'[v].status = "QA_REVIEW"
    BY <2>3 DEF MadeOf, NoVersion
  <2>4. QED
    BY <2>1, <2>2, <2>3
<1>3. QED
  BY <1>1, <1>2 DEF LinkingStep, NoNewApproval, Approved, Linked

LEMMA RunStepApproves == ReleaseTyped /\ RunStep => NoNewApproval
<1> SUFFICES ASSUME ReleaseTyped, NEW r \in Run, RegisterRun(r), NEW v \in Version, Approved(v)'
             PROVE  Approved(v) /\ Linked(v)' = Linked(v)
  BY DEF RunStep, NoNewApproval
<1>1. [versions[v] EXCEPT !.quality = "IN_PROGRESS", !.status = "QA_REVIEW"].status = "QA_REVIEW"
  BY DEF ReleaseTyped, VersionRow
<1>2. versions'[v].status = "QA_REVIEW" \/ versions'[v] = versions[v]
  BY <1>1 DEF RegisterRun, MarkQaRetestExecutionRegistered
<1>3. QED
  BY <1>2 DEF Approved, Linked

LEMMA StepClean ==
    ASSUME RetestInv, ReleaseTyped, VersionsLinked, VersionsApart, HeldBugs, LockedEvidenceIsClean,
           ReleaseStep
    PROVE  HeldBugs' /\ LockedEvidenceIsClean'
<1>0. RetestTypeOK
  BY DEF RetestInv
<1>1. CASE LockingStep
  BY <1>1, LockingStepClean
<1>2. CASE ~LockingStep
  <2>1. HeldRunsKept /\ LockedBugsKept
    <3>1. RequestStep \/ LinkingStep \/ VersionStep => UNCHANGED <<runs, bugs>>
      BY LeaveEvidenceKeeps DEF retestVars, rows
    <3>2. RunStep \/ RetestStep => Ordinary
      BY <1>0, RunStepIsOrdinary, RetestStepIsOrdinary DEF Ordinary
    <3>3. QED
      BY <1>2, <3>1, <3>2, OrdinaryKept, UnchangedKept DEF ReleaseStep
  <2>2. UNCHANGED versions => NoNewApproval
    BY DEF NoNewApproval, Approved, Linked
  <2>3. NoNewApproval
    BY <1>0, <1>2, <2>2, RequestStepLinks, LinkingStepApproves, VersionStepApproves,
       RunStepApproves, RetestStepLinks DEF ReleaseStep
  <2>4. QED
    BY <2>1, <2>3, KeptClean
<1>3. QED
  BY <1>1, <1>2

-------------------------------------------------------------------------------
(* Decisions *)
DecisionsStay ==
    \A v \in Version :
        /\ versions[v].status \in {"REJECTED", "PUBLISHED"} =>
               versions'[v].status = versions[v].status
        /\ versions[v].status \in {"APPROVED", "CONDITIONAL"} =>
               versions'[v].status \in {versions[v].status, "PUBLISHED"}

LEMMA SetVersionStays ==
    ASSUME ReleaseTyped, NEW v \in Version, NEW row, SetVersion(v, row),
           \/ versions[v].status \in {"DRAFT", "QA_REVIEW", "SECURITY_REVIEW", "PENDING_DECISION"}
           \/ row.status = versions[v].status
           \/ versions[v].status \in {"APPROVED", "CONDITIONAL"} /\ row.status = "PUBLISHED"
    PROVE  DecisionsStay
  BY DEF SetVersion, DecisionsStay, ReleaseTyped

LEMMA VersionStepStays == ReleaseTyped /\ VersionStep => DecisionsStay
<1> SUFFICES ASSUME ReleaseTyped, NEW v \in Version,
                    \/ SubmitForQAReview(v)
                    \/ EmergencyPublish(v)
                    \/ RequestRerun(v)
                    \/ \E quality \in Qualities, security \in {FALSE, Calls("security")} :
                          SetQAQuality(v, quality, security)
                    \/ SecurityReviewDone(v)
             PROVE  DecisionsStay
  BY DEF VersionStep
<1>1. CASE SubmitForQAReview(v)
  BY <1>1, SetVersionStays DEF SubmitForQAReview
<1>2. CASE EmergencyPublish(v)
  <2>1. [versions[v] EXCEPT !.risk = TRUE].status = versions[v].status
    BY DEF ReleaseTyped, VersionRow
  <2>2. QED
    BY <1>2, <2>1, SetVersionStays DEF EmergencyPublish
<1>3. CASE RequestRerun(v)
  BY <1>3, SetVersionStays DEF RequestRerun, MayJudge
<1>4. ASSUME NEW quality \in Qualities, NEW security, SetQAQuality(v, quality, security)
      PROVE  DecisionsStay
  BY <1>4, SetVersionStays DEF SetQAQuality, MayJudge
<1>5. CASE SecurityReviewDone(v)
  BY <1>5, SetVersionStays DEF SecurityReviewDone, ToDecision
<1>6. QED
  BY <1>1, <1>2, <1>3, <1>4, <1>5

LEMMA LinkingStepKeeps ==
    ASSUME ReleaseTyped, LinkingStep, NEW v \in Version, versions[v].status \notin {"UNUSED", "DRAFT"}
    PROVE  versions'[v] = versions[v]
<1>1. ASSUME NEW q \in Requests, NEW related \in SUBSET (Requests \ {q}), CreateVersion(q, related)
      PROVE  versions'[v] = versions[v]
  BY <1>1 DEF CreateVersion, SetVersion, IsNext, ReleaseTyped
<1>2. ASSUME NEW saved \in BOOLEAN, ListVersions(saved) PROVE versions'[v] = versions[v]
  <2>1. PICK id \in Injection(ReadyGroups, NewVersions(Cardinality(ReadyGroups))),
             primary \in [ReadyGroups -> Unlinked] :
             \/ v \in Promoted /\ versions'[v] = [versions[v] EXCEPT !.status = "QA_REVIEW"]
             \/ v \notin Promoted /\ \E g \in ReadyGroups : MadeOf(v, g, id, primary)
             \/ versions'[v] = versions[v]
    BY <1>2, ListedVersions
  <2>2. v \notin Promoted
    BY DEF Promoted
  <2>3. \A g \in ReadyGroups : id[g] \in NewVersions(Cardinality(ReadyGroups))
    BY <2>1 DEF Injection, IsInjective
  <2>4. \A g \in ReadyGroups : versions[id[g]].status = "UNUSED"
    BY <2>3 DEF NewVersions
  <2>5. QED
    BY <2>1, <2>2, <2>4 DEF MadeOf
<1>3. QED
  BY <1>1, <1>2 DEF LinkingStep

LEMMA LinkingStepMoves ==
    ASSUME ReleaseTyped, LinkingStep, NEW v \in Version
    PROVE  versions'[v].status \in {"DRAFT", "QA_REVIEW"} \/ versions'[v] = versions[v]
<1>1. ASSUME NEW q \in Requests, NEW related \in SUBSET (Requests \ {q}), CreateVersion(q, related)
      PROVE  versions'[v].status = "DRAFT" \/ versions'[v] = versions[v]
  <2>1. [NoVersion EXCEPT !.status = "DRAFT", !.primary = q, !.related = related].status = "DRAFT"
    BY DEF NoVersion
  <2>2. QED
    BY <1>1, <2>1 DEF CreateVersion, SetVersion, ReleaseTyped
<1>2. ASSUME NEW saved \in BOOLEAN, ListVersions(saved)
      PROVE  versions'[v].status = "QA_REVIEW" \/ versions'[v] = versions[v]
  <2>1. PICK id \in Injection(ReadyGroups, NewVersions(Cardinality(ReadyGroups))),
             primary \in [ReadyGroups -> Unlinked] :
             \/ v \in Promoted /\ versions'[v] = [versions[v] EXCEPT !.status = "QA_REVIEW"]
             \/ v \notin Promoted /\ \E g \in ReadyGroups : MadeOf(v, g, id, primary)
             \/ versions'[v] = versions[v]
    BY <1>2, ListedVersions
  <2>2. [versions[v] EXCEPT !.status = "QA_REVIEW"].status = "QA_REVIEW"
    BY DEF ReleaseTyped, VersionRow
  <2>3. ASSUME NEW g \in ReadyGroups, MadeOf(v, g, id, primary)
        PROVE  versions'[v].status = "QA_REVIEW"
    BY <2>3 DEF MadeOf, NoVersion
  <2>4. QED
    BY <2>1, <2>2, <2>3
<1>3. QED
  BY <1>1, <1>2 DEF LinkingStep

LEMMA LinkingStepStays == ReleaseTyped /\ LinkingStep => DecisionsStay
  BY LinkingStepKeeps DEF DecisionsStay

LEMMA LockingStepStays == ReleaseTyped /\ LockingStep => DecisionsStay
  BY LockingRows, SetVersionStays DEF LockAndReflect

LEMMA RunStepKeeps ==
    ASSUME ReleaseTyped, RerunReachesQA, RunStep, NEW v \in Version, versions[v].status # "QA_REVIEW"
    PROVE  versions'[v] = versions[v]
<1> SUFFICES ASSUME NEW r \in Run, RegisterRun(r) PROVE versions'[v] = versions[v]
  BY DEF RunStep
<1>1. v \notin RerunRegistered(r)
  BY DEF RerunRegistered, AwaitingRerun, RerunReachesQA
<1>2. QED
  BY <1>1 DEF RegisterRun, MarkQaRetestExecutionRegistered

LEMMA RunStepMoves ==
    ASSUME ReleaseTyped, RunStep, NEW v \in Version
    PROVE  versions'[v].status = "QA_REVIEW" \/ versions'[v] = versions[v]
<1>1. [versions[v] EXCEPT !.quality = "IN_PROGRESS", !.status = "QA_REVIEW"].status = "QA_REVIEW"
  BY DEF ReleaseTyped, VersionRow
<1>2. QED
  BY <1>1 DEF RunStep, RegisterRun, MarkQaRetestExecutionRegistered

LEMMA RunStepStays == ReleaseTyped /\ RerunReachesQA /\ RunStep => DecisionsStay
  BY RunStepKeeps DEF DecisionsStay

LEMMA StepStays == ReleaseTyped /\ RerunReachesQA /\ ReleaseStep => DecisionsStay
<1>1. UNCHANGED versions => DecisionsStay
  BY DEF DecisionsStay
<1>2. QED
  BY <1>1, RequestStepLinks, LinkingStepStays, VersionStepStays, LockingStepStays, RunStepStays,
     RetestStepLinks DEF ReleaseStep

-------------------------------------------------------------------------------
(* The inductive invariant.  RerunReachesQA and LockedEvidenceIsClean both need *)
(* that versions share no request; the latter also that held runs stay linked.  *)
ReleaseInv ==
    /\ RetestInv
    /\ ReleaseTyped
    /\ VersionsLinked
    /\ VersionsApart
    /\ RerunReachesQA
    /\ HeldBugs
    /\ LockedEvidenceIsClean

LEMMA ReleaseInitInv == Init => ReleaseInv
<1> SUFFICES ASSUME Init PROVE ReleaseInv
  OBVIOUS
<1>1. RetestInv
  BY InitInv DEF Init
<1>2. ReleaseTyped
  <2>1. [NoRequest EXCEPT !.status = "ACCEPTED"] \in RequestRow
    BY RequestRows, ReleaseStatuses
  <2>2. QED
    BY <2>1, ReleaseStatuses DEF Init, ReleaseTyped
<1>3. \A v \in Version : /\ ~Live(versions, v) /\ versions[v].status = "UNUSED"
                         /\ versions[v].quality # "RETEST_REQUIRED"
  BY ReleaseStatuses DEF Init, NoVersion, Live
<1>4. VersionsLinked /\ VersionsApart /\ RerunReachesQA /\ LockedEvidenceIsClean
  BY <1>3 DEF VersionsLinked, VersionsApart, RerunReachesQA, LockedEvidenceIsClean
<1>5. HeldBugs
  BY Statuses DEF Init, RetestInit, HeldBugs
<1>6. QED
  BY <1>1, <1>2, <1>4, <1>5 DEF ReleaseInv

LEMMA ReleaseNextInv == ReleaseInv /\ [Next]_vars => ReleaseInv'
<1>1. ASSUME ReleaseInv, Next PROVE ReleaseInv'
  <2>1. RetestTypeOK /\ ReleaseStep
    BY <1>1, NextIsStep DEF ReleaseInv, RetestInv
  <2>2. RetestInv'
    BY <1>1, <2>1, StepOfRetest, ActionKeepsInv, StutterKeepsInv DEF ReleaseInv
  <2>3. ReleaseTyped' /\ VersionsLinked' /\ VersionsApart'
    BY <1>1, <2>1, StepTyped, StepLinks DEF ReleaseInv
  <2>4. RerunReachesQA' /\ HeldBugs' /\ LockedEvidenceIsClean'
    BY <1>1, <2>1, StepRerun, StepClean DEF ReleaseInv
  <2>5. QED
    BY <2>2, <2>3, <2>4 DEF ReleaseInv
<1>2. ASSUME ReleaseInv, UNCHANGED vars PROVE ReleaseInv'
  <2>1. RetestInv'
    BY <1>2, StutterKeepsInv DEF ReleaseInv, vars
  <2>2. (ReleaseTyped /\ VersionsLinked /\ VersionsApart /\ RerunReachesQA)'
    BY <1>2 DEF ReleaseInv, vars, ReleaseTyped, VersionsLinked, VersionsApart, RerunReachesQA,
       Linked, Live
  <2>3. UNCHANGED <<runs, bugs, versions>>
    BY <1>2 DEF vars, retestVars, rows
  <2>4. NoNewApproval
    BY <2>3 DEF NoNewApproval, Approved, Linked
  <2>5. (HeldBugs /\ LockedEvidenceIsClean)'
    BY <1>2, <2>3, <2>4, UnchangedKept, KeptClean DEF ReleaseInv
  <2>6. QED
    BY <2>1, <2>2, <2>5 DEF ReleaseInv
<1>3. QED
  BY <1>1, <1>2

THEOREM ReleaseInvariant == Spec => []ReleaseInv
  BY ReleaseInitInv, ReleaseNextInv, PTL DEF Spec

(* The rows of requests and versions have their types in every reachable state. *)
THEOREM ReleaseTyping == Spec => []ReleaseTypeOK
<1>1. ReleaseInv => ReleaseTypeOK
  BY ReleaseParts DEF ReleaseInv, RetestInv
<1>2. QED
  BY <1>1, ReleaseInvariant, PTL

LEMMA AtMostOne ==
    ASSUME NEW S, NEW m \in Nat, S \subseteq 1..m, \A x, y \in S : x = y
    PROVE  Cardinality(S) <= 1
<1>1. CASE S = {}
  BY <1>1, FS_EmptySet
<1>2. ASSUME NEW x \in S PROVE Cardinality(S) <= 1
  <2>1. S = {x}
    OBVIOUS
  <2>2. QED
    BY <2>1, FS_Singleton
<1>3. QED
  BY <1>1, <1>2

(* Whether a caller creates a version or a list read makes it for a group of    *)
(* ready requests, no request is ever linked to two.                            *)
THEOREM OneVersionHolds == Spec => []OneVersionPerRequest
<1>1. ASSUME VersionsApart PROVE OneVersionPerRequest
  <2> SUFFICES ASSUME NEW q \in Requests PROVE Cardinality(VersionsOf(q)) <= 1
    BY DEF OneVersionPerRequest
  <2>1. VersionsOf(q) \subseteq 1..MaxVersions /\ MaxVersions \in Nat
    BY ReleaseAssumption DEF VersionsOf, Version
  <2>2. \A x, y \in VersionsOf(q) : x = y
    BY <1>1 DEF VersionsApart, VersionsOf
  <2>3. QED
    BY <2>1, <2>2, AtMostOne
<1>2. ReleaseInv => OneVersionPerRequest
  BY <1>1 DEF ReleaseInv
<1>3. QED
  BY <1>2, ReleaseInvariant, PTL

(* A version whose QA lead asked for a re-run is at QA review, with every one   *)
(* of its requests asking for it, until a registered run answers the request.   *)
THEOREM RerunHolds == Spec => []RerunReachesQA
<1>1. ReleaseInv => RerunReachesQA
  BY DEF ReleaseInv
<1>2. QED
  BY <1>1, ReleaseInvariant, PTL

(* The evidence locked for an approved version without risk acceptance never    *)
(* comes to hold an open critical bug.                                          *)
THEOREM LockedEvidenceCleanHolds == Spec => []LockedEvidenceIsClean
<1>1. ReleaseInv => LockedEvidenceIsClean
  BY DEF ReleaseInv
<1>2. QED
  BY <1>1, ReleaseInvariant, PTL

(* No method takes a decided version back: a rejection and a publication are    *)
(* final, and an approval can only be followed by the publication.              *)
THEOREM DecisionsHold == Spec => DecisionsAreFinal
<1>1. ReleaseInv /\ [Next]_vars => [DecisionsStay]_vars
  BY NextIsStep, StepStays DEF ReleaseInv
<1>2. Spec => [][DecisionsStay]_vars
  BY <1>1, ReleaseInvariant, PTL DEF Spec
<1>3. [][DecisionsStay]_vars => DecisionsAreFinal
  BY PTL DEF DecisionsStay, DecisionsAreFinal
<1>4. QED
  BY <1>2, <1>3, PTL

-------------------------------------------------------------------------------
(* What RetestFlow promises of the evidence holds among requests and versions   *)
(* too: a step is one of its actions, or leaves the evidence alone.  Decisions  *)
(* and publications lock the runs of any number of requests here, not of one.   *)
LEMMA ReleaseStepOfRetest ==
    ReleaseInv /\ [Next]_vars => RetestAction \/ UNCHANGED retestVars
<1>1. ReleaseInv /\ Next => RetestAction \/ UNCHANGED retestVars
  BY NextIsStep, StepOfRetest DEF ReleaseInv, RetestInv
<1>2. UNCHANGED vars => UNCHANGED retestVars
  BY DEF vars
<1>3. QED
  BY <1>1, <1>2

(* Whatever is done with requests and versions, a run that was part of a        *)
(* decision stays, and what is locked keeps its status and its run.             *)
THEOREM ReleaseKeepsEvidence == Spec => LockedEvidenceStays
<1>1. ReleaseInv /\ [Next]_vars => [EvidenceStays]_retestVars
  BY ReleaseStepOfRetest, ActionKeepsEvidence DEF ReleaseInv
<1>2. Spec => [][EvidenceStays]_retestVars
  BY ReleaseInvariant, <1>1, PTL DEF Spec
<1>3. QED
  BY <1>2, PTL DEF LockedEvidenceStays, EvidenceStays, RunStays, BugStays

(* A version's re-run request and its decisions do not give a retest task a     *)
(* second run, as long as no caller sends a start key of its own.               *)
THEOREM ReleaseOneRun ==
    ASSUME ~FreshKeys PROVE Spec => []OneRunPerTask
<1>1. Init => OneRunInv
  BY OneRunInit DEF Init
<1>2. ReleaseInv /\ OneRunInv /\ [Next]_vars => OneRunInv'
  BY ReleaseStepOfRetest, ActionKeepsOneRun, StutterKeepsOneRun
<1>3. OneRunInv => OneRunPerTask
  BY RememberedOnce DEF OneRunInv
<1>4. QED
  BY ReleaseInvariant, <1>1, <1>2, <1>3, PTL DEF Spec

(* And nothing dangles: the evidence of a version is made of rows that exist.   *)
THEOREM ReleaseNothingDangles ==
    ASSUME ~FreshKeys PROVE Spec => []NothingDangles
<1>1. Init => WholeInv
  BY WholeInit DEF Init
<1>2. ReleaseInv /\ WholeInv /\ [Next]_vars => WholeInv'
  BY ReleaseStepOfRetest, ActionKeepsWhole, StutterKeepsWhole
<1>3. WholeInv => NothingDangles
  BY WholeIsNothingDangles DEF WholeInv
<1>4. QED
  BY ReleaseInvariant, <1>1, <1>2, <1>3, PTL DEF Spec

-------------------------------------------------------------------------------
(* The ledger.  Versions: which steps change what they cover and their outcome. *)
OutcomesStay ==
    \A v \in Version : \/ versions'[v].status = versions[v].status
                       \/ {versions[v].status, versions'[v].status} \cap Outcomes = {}

LEMMA SameOutcome == OutcomesStay => Outcome' = Outcome
  BY DEF OutcomesStay, Outcome

LEMMA SameCovers == SameLinks => Covers' = Covers
  BY DEF SameLinks, Covers, Linked

LEMMA SetVersionOutcome ==
    ASSUME ReleaseTyped, NEW v \in Version, NEW row, SetVersion(v, row),
           row.status = versions[v].status \/ {versions[v].status, row.status} \cap Outcomes = {}
    PROVE  OutcomesStay
  BY DEF SetVersion, OutcomesStay, ReleaseTyped

LEMMA VersionStepOutcome == ReleaseTyped /\ VersionStep => OutcomesStay
<1> SUFFICES ASSUME ReleaseTyped, NEW v \in Version,
                    \/ SubmitForQAReview(v)
                    \/ EmergencyPublish(v)
                    \/ RequestRerun(v)
                    \/ \E quality \in Qualities, security \in {FALSE, Calls("security")} :
                          SetQAQuality(v, quality, security)
                    \/ SecurityReviewDone(v)
             PROVE  OutcomesStay
  BY DEF VersionStep
<1>1. versions[v] \in VersionRow
  BY DEF ReleaseTyped
<1>2. \A s : [versions[v] EXCEPT !.status = s].status = s
  BY <1>1 DEF VersionRow
<1>3. \A x, s, n : /\ Judged(v, x, s).status = s
                   /\ [Judged(v, x, s) EXCEPT !.baseline = n].status = s
  BY <1>1 DEF Judged, VersionRow
<1>4. CASE SubmitForQAReview(v)
  BY <1>2, <1>4, SetVersionOutcome DEF SubmitForQAReview, Outcomes
<1>5. CASE EmergencyPublish(v)
  <2>1. [versions[v] EXCEPT !.risk = TRUE].status = versions[v].status
    BY <1>1 DEF VersionRow
  <2>2. QED
    BY <1>5, <2>1, SetVersionOutcome DEF EmergencyPublish
<1>6. CASE RequestRerun(v)
  <2> DEFINE row == [Judged(v, "RETEST_REQUIRED", "QA_REVIEW") EXCEPT
                        !.baseline = FinalRunCount(runs, v)]
  <2>1. SetVersion(v, row) /\ row.status = "QA_REVIEW"
    BY <1>3, <1>6 DEF RequestRerun
  <2>2. versions[v].status \in {"QA_REVIEW", "DRAFT"}
    BY <1>6 DEF RequestRerun, MayJudge
  <2> HIDE DEF row
  <2>3. QED
    BY <2>1, <2>2, SetVersionOutcome DEF Outcomes
<1>7. ASSUME NEW quality \in Qualities, NEW security, SetQAQuality(v, quality, security)
      PROVE  OutcomesStay
  <2>1. \E row : SetVersion(v, row) /\ row.status \in {"SECURITY_REVIEW", "PENDING_DECISION"}
    BY <1>3, <1>7 DEF SetQAQuality
  <2>2. versions[v].status \in {"QA_REVIEW", "DRAFT"}
    BY <1>7 DEF SetQAQuality, MayJudge
  <2>3. QED
    BY <2>1, <2>2, SetVersionOutcome DEF Outcomes
<1>8. CASE SecurityReviewDone(v)
  BY <1>2, <1>8, SetVersionOutcome DEF SecurityReviewDone, ToDecision, Outcomes
<1>9. QED
  BY <1>4, <1>5, <1>6, <1>7, <1>8

LEMMA StepOutcome ==
    ReleaseTyped /\ RerunReachesQA /\ (RequestStep \/ LinkingStep \/ VersionStep \/ RunStep \/ RetestStep)
        => OutcomesStay
<1>1. UNCHANGED versions => OutcomesStay
  BY DEF OutcomesStay
<1>2. ASSUME ReleaseTyped, RerunReachesQA, LinkingStep \/ RunStep, NEW v \in Version
      PROVE  \/ versions'[v].status = versions[v].status
             \/ {versions[v].status, versions'[v].status} \cap Outcomes = {}
  <2>1. versions'[v] = versions[v] \/ versions'[v].status \in {"DRAFT", "QA_REVIEW"}
    BY <1>2, LinkingStepMoves, RunStepMoves
  <2>2. versions[v].status \in Outcomes => versions'[v] = versions[v]
    BY <1>2, LinkingStepKeeps, RunStepKeeps DEF Outcomes
  <2>3. QED
    BY <2>1, <2>2 DEF Outcomes
<1>3. QED
  BY <1>1, <1>2, RequestStepLinks, VersionStepOutcome, RetestStepLinks DEF OutcomesStay

(* A version that exists keeps its requests when others are made. *)
LEMMA LinkingStepCovers ==
    ASSUME ReleaseTyped, LinkingStep, NEW v \in Version, Live(versions, v)
    PROVE  Live(versions', v) /\ Linked(v)' = Linked(v)
<1>1. versions[v].status # "UNUSED" /\ versions[v] \in VersionRow
  BY ReleaseStatuses DEF Live, ReleaseTyped
<1>2. ASSUME versions'[v] = versions[v] PROVE Live(versions', v) /\ Linked(v)' = Linked(v)
  BY <1>2 DEF Live, Linked
<1>3. ASSUME NEW q \in Requests, NEW related \in SUBSET (Requests \ {q}), CreateVersion(q, related)
      PROVE  versions'[v] = versions[v]
  BY <1>1, <1>3 DEF CreateVersion, SetVersion, IsNext, ReleaseTyped
<1>4. ASSUME NEW saved \in BOOLEAN, ListVersions(saved)
      PROVE  \/ versions'[v] = versions[v]
             \/ versions'[v] = [versions[v] EXCEPT !.status = "QA_REVIEW"]
  <2>1. PICK id \in Injection(ReadyGroups, NewVersions(Cardinality(ReadyGroups))),
             primary \in [ReadyGroups -> Unlinked] :
             \/ v \in Promoted /\ versions'[v] = [versions[v] EXCEPT !.status = "QA_REVIEW"]
             \/ v \notin Promoted /\ \E g \in ReadyGroups : MadeOf(v, g, id, primary)
             \/ versions'[v] = versions[v]
    BY <1>4, ListedVersions
  <2>2. \A g \in ReadyGroups : id[g] \in NewVersions(Cardinality(ReadyGroups))
    BY <2>1 DEF Injection, IsInjective
  <2>3. \A g \in ReadyGroups : versions[id[g]].status = "UNUSED"
    BY <2>2 DEF NewVersions
  <2>4. \A g \in ReadyGroups : ~MadeOf(v, g, id, primary)
    BY <1>1, <2>3 DEF MadeOf
  <2>5. QED
    BY <2>1, <2>4
<1>5. ASSUME versions'[v] = [versions[v] EXCEPT !.status = "QA_REVIEW"]
      PROVE  Live(versions', v) /\ Linked(v)' = Linked(v)
  BY <1>1, <1>5, ReleaseStatuses DEF Live, Linked, VersionRow
<1>6. QED
  BY <1>2, <1>3, <1>4, <1>5 DEF LinkingStep

LEMMA LinkingStepBundles ==
    ASSUME RetestTypeOK, ReleaseTyped, VersionsLinked, VersionsApart, LinkingStep
    PROVE  /\ Covers' \in [Version -> SUBSET Requests]
           /\ \A v \in Version : Covers[v] # {} => Covers'[v] = Covers[v]
           /\ \A v, w \in Version : v # w => Covers'[v] \cap Covers'[w] = {}
<1>1. VersionsLinked' /\ VersionsApart'
  BY StepLinks DEF ReleaseStep
<1>2. \A v \in Version : Covers'[v] = IF Live(versions', v) THEN Linked(v)' ELSE {}
  BY DEF Covers, Live
<1>3. \A v \in Version : Live(versions', v) => Linked(v)' \subseteq Requests
  BY <1>1 DEF VersionsLinked, Live
<1>4. Covers' \in [Version -> SUBSET Requests]
  <2>1. Covers' = [v \in Version |-> Covers'[v]]
    BY DEF Covers
  <2>2. QED
    BY <1>2, <1>3, <2>1
<1>5. \A v \in Version : Covers[v] # {} => Covers'[v] = Covers[v]
  BY <1>2, LinkingStepCovers DEF Covers
<1>6. \A v, w \in Version : v # w => Covers'[v] \cap Covers'[w] = {}
  BY <1>1, <1>2 DEF VersionsApart, Live
<1>7. QED
  BY <1>4, <1>5, <1>6

(* Runs: an ordinary step files at most one run elsewhere, and no held one.     *)
FilesOne ==
    /\ Sealed' = Sealed
    /\ \/ Filed' = Filed
       \/ \E r \in Run \ Sealed, q \in Requests \cup {None} : Filed' = [Filed EXCEPT ![r] = q]

LEMMA FiledOnce ==
    ASSUME RetestTypeOK, RetestTypeOK', NEW r \in Run, NEW row, runs' = [runs EXCEPT ![r] = row],
           row.held = runs[r].held,
           \/ ~runs[r].held
           \/ Live(runs, r) /\ row.status \notin Absent /\ row.request = runs[r].request
    PROVE  FilesOne
<1>1. runs'[r] = row /\ \A x \in Run : x # r => runs'[x] = runs[x]
  BY DEF RetestTypeOK
<1>2. Sealed' = Sealed
  BY <1>1 DEF Sealed
<1>3. Filed'[r] \in Requests \cup {None}
  BY DEF Filed, RetestTypeOK, RunRow
<1>4. Filed' = [Filed EXCEPT ![r] = Filed'[r]]
  <2>1. \A x \in Run : x # r => Filed'[x] = Filed[x]
    BY <1>1 DEF Filed, Live
  <2>2. Filed \in [Run -> {Filed[x] : x \in Run}] /\ Filed' \in [Run -> {Filed'[x] : x \in Run}]
    BY DEF Filed
  <2>3. QED
    BY <2>1, <2>2
<1>5. CASE ~runs[r].held
  BY <1>2, <1>3, <1>4, <1>5 DEF FilesOne, Sealed
<1>6. CASE Live(runs, r) /\ row.status \notin Absent /\ row.request = runs[r].request
  <2>1. Filed' = Filed
    BY <1>1, <1>6 DEF Filed, Live
  <2>2. QED
    BY <1>2, <2>1 DEF FilesOne
<1>7. QED
  BY <1>5, <1>6

LEMMA RunsUntouchedFile == UNCHANGED runs => FilesOne
  BY DEF FilesOne, Filed, Sealed, Live

LEMMA RunChangeFiles == ASSUME RetestInv, RetestTypeOK', RunChange PROVE FilesOne
<1>0. RetestTypeOK /\ \A r \in Run : runs[r] \in RunRow
  BY DEF RetestInv, RetestTypeOK
<1>1. ASSUME NEW q \in Requests, CreateRun(q) PROVE FilesOne
  <2> DEFINE row == [AbsentRun("PENDING") EXCEPT !.request = q]
  <2>1. PICK r \in Run : runs[r].status = "UNUSED" /\ runs' = [runs EXCEPT ![r] = row]
    BY <1>1 DEF CreateRun, IsNext
  <2>2. ~runs[r].held
    BY <2>1, LiveWhenLocked, Statuses DEF Live
  <2>3. ~row.held
    BY DEF AbsentRun
  <2>4. row.held = runs[r].held
    BY <1>0, <2>2, <2>3 DEF RunRow, AbsentRun
  <2> HIDE DEF row
  <2>5. QED
    BY <1>0, <2>1, <2>2, <2>4, FiledOnce
<1>2. ASSUME NEW r \in Run, NEW q \in Requests, NEW s, UpdateRun(r, q, s) PROVE FilesOne
  <2> DEFINE row == [runs[r] EXCEPT !.request = q, !.status = s]
  <2>1. ~runs[r].held /\ runs' = [runs EXCEPT ![r] = row]
    BY <1>0, <1>2 DEF UpdateRun, RetestTypeOK
  <2>2. row.held = runs[r].held
    BY <1>0 DEF RunRow
  <2> HIDE DEF row
  <2>3. QED
    BY <1>0, <2>1, <2>2, FiledOnce
<1>3. ASSUME NEW r \in Run, NEW s \in RunInputs, UpdateRunStatus(r, s) PROVE FilesOne
  <2> DEFINE row == [runs[r] EXCEPT !.status = s]
  <2>1. Live(runs, r) /\ runs' = [runs EXCEPT ![r] = row]
    BY <1>3 DEF UpdateRunStatus
  <2>2. row.held = runs[r].held /\ row.request = runs[r].request /\ row.status \notin Absent
    BY <1>0, RetestAssumption, Statuses DEF RunRow
  <2> HIDE DEF row
  <2>3. QED
    BY <1>0, <2>1, <2>2, FiledOnce
<1>4. ASSUME NEW r \in Run, UnlockRun(r) PROVE FilesOne
  <2> DEFINE row == [runs[r] EXCEPT !.locked = FALSE]
  <2>1. UNCHANGED runs \/ (Live(runs, r) /\ runs' = [runs EXCEPT ![r] = row])
    BY <1>4 DEF UnlockRun
  <2>2. row.held = runs[r].held /\ row.request = runs[r].request /\ row.status = runs[r].status
    BY <1>0 DEF RunRow
  <2> HIDE DEF row
  <2>3. QED
    BY <1>0, <2>1, <2>2, FiledOnce, RunsUntouchedFile DEF Live
<1>5. ASSUME NEW r \in Run, DeleteRun(r) PROVE FilesOne
  <2>1. ~runs[r].held /\ runs' = [runs EXCEPT ![r] = AbsentRun("DELETED")]
    BY <1>5 DEF DeleteRun, CanDeleteRunCascade
  <2>2. AbsentRun("DELETED").held = runs[r].held
    BY <1>0, <2>1 DEF AbsentRun, RunRow
  <2>3. QED
    BY <1>0, <2>1, <2>2, FiledOnce
<1>6. QED
  BY <1>1, <1>2, <1>3, <1>4, <1>5 DEF RunChange

LEMMA TaskActionFiles == ASSUME RetestInv, RetestTypeOK', TaskAction PROVE FilesOne
<1>0. RetestTypeOK /\ \A r \in Run : runs[r] \in RunRow
  BY DEF RetestInv, RetestTypeOK
<1>1. ASSUME NEW c \in Callers, FinishStart(c) PROVE FilesOne
  <2>1. UNCHANGED runs \/ \E r \in Run : \E row :
           runs[r].status = "UNUSED" /\ runs' = [runs EXCEPT ![r] = row] /\ row.held = FALSE
    <3> DEFINE row == [AbsentRun("PENDING") EXCEPT !.request = starting[c].request,
                                                   !.task = starting[c].task]
    <3>1. row.held = FALSE
      BY DEF AbsentRun
    <3>2. UNCHANGED runs \/ \E r \in Run : runs[r].status = "UNUSED" /\ runs' = [runs EXCEPT ![r] = row]
      BY <1>1 DEF FinishStart, IsNext
    <3> HIDE DEF row
    <3>3. QED
      BY <3>1, <3>2
  <2>2. ASSUME NEW r \in Run, runs[r].status = "UNUSED", NEW row,
               runs' = [runs EXCEPT ![r] = row], row.held = FALSE
        PROVE  FilesOne
    <3>1. runs[r].held = FALSE
      BY <1>0, <2>2, LiveWhenLocked, Statuses DEF Live, RunRow
    <3>2. QED
      BY <1>0, <2>2, <3>1, FiledOnce
  <2>3. QED
    BY <2>1, <2>2, RunsUntouchedFile
<1>2. QED
  BY <1>1, RunsUntouchedFile DEF TaskAction, EnsureForBug, StartTask, FailStart, CompleteTask, rows

LEMMA OrdinaryFiles == ASSUME RetestInv, RetestTypeOK', Ordinary PROVE FilesOne
<1>1. BugAction => UNCHANGED runs
  BY DEF BugAction, CreateBug, UpdateBug, DeleteBug, AssignBug, SetFixedVersion, CloseBug, MoveBug,
         UpdateBugStatus, RestorePreviousStatus, MarkReadyForRetest, Retest, UnlockBug
<1>2. IssueAction => UNCHANGED runs
  BY DEF IssueAction, CreateIssue, ResolveIssue
<1>3. QED
  BY <1>1, <1>2, RunChangeFiles, TaskActionFiles, RunsUntouchedFile DEF Ordinary

(* A decision or publication seals the runs of its version. *)
LEMMA LockingStepSeals ==
    ASSUME RetestTypeOK, ReleaseTyped, VersionsLinked, LockingStep
    PROVE  \E v \in Version : \/ \E o \in {"none", "APPROVED", "CONDITIONAL", "REJECTED"} :
                                    Ledger!Decide(v, o)
                              \/ Ledger!Publish(v)
<1>1. PICK v \in Version, row \in VersionRow :
         /\ LockAndReflect(v, row)
         /\ row.primary = versions[v].primary /\ row.related = versions[v].related
         /\ \/ /\ versions[v].status = "PENDING_DECISION"
               /\ row.status \in {"DRAFT", "APPROVED", "CONDITIONAL", "REJECTED"}
            \/ /\ versions[v].status \in {"APPROVED", "CONDITIONAL"}
               /\ row.status = "PUBLISHED"
  BY LockingRows
<1>2. versions' = [versions EXCEPT ![v] = row] /\ LockEvidence(Linked(v))
  BY <1>1 DEF LockAndReflect, SetVersion
<1>3. Live(versions, v) /\ Linked(v) \subseteq Requests /\ Covers[v] = Linked(v) /\ Covers[v] # {}
  BY <1>1, ReleaseStatuses DEF Live, VersionsLinked, Covers, Linked
<1>4. Covers' = Covers
  BY LockingStepLinks, SameCovers
<1>5. Filed' = Filed /\ Sealed' = Sealed \cup {r \in Run : Filed[r] \in Covers[v]}
  <2>1. ASSUME NEW r \in Run
        PROVE  /\ runs'[r].status = runs[r].status /\ runs'[r].request = runs[r].request
               /\ runs'[r].held <=> (runs[r].held \/ r \in RunsOf(Linked(v)))
    <3>1. runs[r] \in RunRow
      BY DEF RetestTypeOK
    <3>2. runs'[r] = IF r \in RunsOf(Linked(v))
                     THEN [runs[r] EXCEPT !.locked = TRUE, !.held = TRUE] ELSE runs[r]
      BY <1>2, Zenon DEF LockEvidence
    <3>3. CASE r \in RunsOf(Linked(v))
      BY <3>1, <3>2, <3>3 DEF RunRow
    <3>4. CASE r \notin RunsOf(Linked(v))
      BY <3>2, <3>4
    <3>5. QED
      BY <3>3, <3>4
  <2>2. Filed' = Filed
    BY <2>1 DEF Filed, Live
  <2>3. \A r \in Run : r \in RunsOf(Linked(v)) <=> Filed[r] \in Covers[v]
    BY <1>3, RetestAssumption DEF RunsOf, Filed
  <2>4. QED
    BY <2>1, <2>2, <2>3 DEF Sealed
<1>6. ASSUME NEW o, o = (IF row.status \in Outcomes THEN row.status ELSE "none")
      PROVE  Outcome' = [Outcome EXCEPT ![v] = o]
  BY <1>2, <1>6 DEF Outcome, ReleaseTyped
<1>7. CASE versions[v].status = "PENDING_DECISION"
  <2>1. Outcome[v] = "none"
    BY <1>7 DEF Outcome, Outcomes
  <2>2. PICK o \in {"none", "APPROVED", "CONDITIONAL", "REJECTED"} :
           o = (IF row.status \in Outcomes THEN row.status ELSE "none")
    BY <1>1, <1>7 DEF Outcomes
  <2>3. Ledger!Decide(v, o)
    BY <1>3, <1>4, <1>5, <1>6, <2>1, <2>2 DEF Ledger!Decide, Ledger!Seal
  <2>4. QED
    BY <2>3
<1>8. CASE versions[v].status \in {"APPROVED", "CONDITIONAL"} /\ row.status = "PUBLISHED"
  <2>1. Outcome[v] \in {"APPROVED", "CONDITIONAL"}
    BY <1>8 DEF Outcome, Outcomes
  <2>2. Outcome' = [Outcome EXCEPT ![v] = "PUBLISHED"]
    BY <1>6, <1>8 DEF Outcomes
  <2>3. Ledger!Publish(v)
    BY <1>4, <1>5, <2>1, <2>2 DEF Ledger!Publish, Ledger!Seal
  <2>4. QED
    BY <2>3
<1>9. QED
  BY <1>1, <1>7, <1>8

LEMMA StepKeepsLedger ==
    ReleaseInv /\ [Next]_vars => [Ledger!Next]_<<Covers, Outcome, Filed, Sealed>>
<1> SUFFICES ASSUME ReleaseInv, [Next]_vars
             PROVE  Ledger!Next \/ UNCHANGED <<Covers, Outcome, Filed, Sealed>>
  OBVIOUS
<1>1. /\ RetestInv /\ RetestTypeOK /\ ReleaseTyped /\ VersionsLinked /\ VersionsApart
      /\ RerunReachesQA /\ RetestTypeOK'
  BY ReleaseNextInv DEF ReleaseInv, RetestInv
<1>2. UNCHANGED versions => UNCHANGED <<Covers, Outcome>>
  BY DEF Covers, Outcome, Linked, Live
<1>3. UNCHANGED runs => UNCHANGED <<Filed, Sealed>>
  BY DEF Filed, Sealed, Live
<1>4. UNCHANGED retestVars => UNCHANGED runs
  BY DEF retestVars
<1>5. CASE UNCHANGED vars
  BY <1>2, <1>3, <1>4, <1>5 DEF vars
<1>6. CASE RequestStep
  BY <1>1, <1>2, <1>3, <1>4, <1>6, RequestStepLinks, LeaveEvidenceKeeps
<1>7. CASE VersionStep
  BY <1>1, <1>3, <1>4, <1>7, VersionStepLinks, SameCovers, VersionStepOutcome, SameOutcome,
     LeaveEvidenceKeeps
<1>8. CASE LinkingStep
  BY <1>1, <1>3, <1>4, <1>8, LinkingStepBundles, StepOutcome, SameOutcome, LeaveEvidenceKeeps
     DEF Ledger!Next, Ledger!Bundle
<1>9. CASE LockingStep
  BY <1>1, <1>9, LockingStepSeals DEF Ledger!Next
<1>10. CASE RunStep \/ RetestStep
  <2>1. UNCHANGED <<Covers, Outcome>>
    BY <1>1, <1>2, <1>10, RunStepLinks, SameCovers, StepOutcome, SameOutcome, RetestStepLinks
  <2>2. FilesOne
    BY <1>1, <1>10, RunStepIsOrdinary, RetestStepIsOrdinary, OrdinaryFiles DEF Ordinary
  <2>3. QED
    BY <2>1, <2>2 DEF FilesOne, Ledger!Next, Ledger!File
<1>11. QED
  BY <1>5, <1>6, <1>7, <1>8, <1>9, <1>10, NextIsStep DEF ReleaseStep

(* Every method keeps the ledger: requests stay with their version, outcomes    *)
(* stand, and the runs of a decision stay filed as they were, whatever else     *)
(* happens to the rows.                                                         *)
THEOREM ReleaseKeepsLedger == Spec => LedgerSpec
<1>1. Init => Ledger!Init
  <2> SUFFICES ASSUME Init PROVE Ledger!Init
    OBVIOUS
  <2>1. \A v \in Version : versions[v].status = "UNUSED"
    BY DEF Init, NoVersion
  <2>2. \A r \in Run : runs[r].status = "UNUSED" /\ ~runs[r].held
    BY DEF Init, RetestInit, AbsentRun
  <2>3. QED
    BY <2>1, <2>2, ReleaseStatuses
       DEF Ledger!Init, Covers, Outcome, Outcomes, Filed, Sealed, Live, Absent
<1>2. QED
  BY <1>1, ReleaseInvariant, StepKeepsLedger, PTL DEF Spec, LedgerSpec, Ledger!Spec, Ledger!ledger

-------------------------------------------------------------------------------
(* Where an open critical bug of an approved version can come from: as long as  *)
(* no administrator unlocks anything, what a decision held is locked, the bugs  *)
(* of a held run too, and no bug is added to it.                                *)
RunsSealed == \A r \in Run : runs[r].held => runs[r].locked
BugsSealed == \A b \in Bug : Live(bugs, b) /\ runs[bugs[b].run].held => bugs[b].locked

RunsStaySealed == \A r \in Run : runs'[r].held => runs[r].held /\ runs'[r].locked
BugsStaySealed ==
    \A b \in Bug : Live(bugs', b) =>
        \/ /\ Live(bugs, b) /\ bugs'[b].run = bugs[b].run
           /\ bugs[b].locked => bugs'[b].locked
        \/ ~runs[bugs'[b].run].held

LEMMA StaySealed ==
    ASSUME RetestInv', BugsSealed, RunsStaySealed, BugsStaySealed PROVE RunsSealed' /\ BugsSealed'
<1>1. \A b \in Bug : Live(bugs', b) => bugs'[b].run \in Run
  BY DEF RetestInv, RowsLinked, BugLinks, Live
<1>2. QED
  BY <1>1 DEF RunsSealed, BugsSealed, RunsStaySealed, BugsStaySealed, Live

LEMMA UntouchedStaySealed ==
    /\ UNCHANGED runs /\ RunsSealed => RunsStaySealed
    /\ UNCHANGED bugs => BugsStaySealed
  BY DEF RunsSealed, RunsStaySealed, BugsStaySealed, Live

LEMMA OneRunStaysSealed ==
    ASSUME RetestTypeOK, RunsSealed, NEW r \in Run, NEW row, runs' = [runs EXCEPT ![r] = row],
           row.held => runs[r].held /\ row.locked
    PROVE  RunsStaySealed
  BY DEF RunsSealed, RunsStaySealed, RetestTypeOK

LEMMA OneBugStaysSealed ==
    ASSUME RetestTypeOK, NEW b \in Bug, NEW row, SetBug(b, row),
           \/ row.status \in Absent
           \/ ~bugs[b].locked /\ Live(bugs, b) /\ row.run = bugs[b].run
           \/ ~runs[row.run].held
    PROVE  BugsStaySealed
  BY DEF BugsStaySealed, SetBug, RetestTypeOK, Live

(* The methods of runs and bugs without unlock *)
UnlockFreeRun ==
    \/ \E q \in Requests : CreateRun(q)
    \/ \E r \in Run, q \in Requests, s \in RunStatus \cup Absent : UpdateRun(r, q, s)
    \/ \E r \in Run, s \in RunInputs : UpdateRunStatus(r, s)
    \/ \E r \in Run : DeleteRun(r)

UnlockFreeBug ==
    \/ \E r \in Run, a \in BOOLEAN, v \in Severities : CreateBug(r, a, v)
    \/ \E b \in Bug, r \in Run, a \in BOOLEAN, v \in Severities, s \in BugStatus \cup Absent :
           UpdateBug(b, r, s, a, v)
    \/ \E b \in Bug : DeleteBug(b)
    \/ \E b \in Bug : \E s, p : MoveBug(b, s, p)
    \/ \E b \in Bug : MarkReadyForRetest(b)
    \/ \E b \in Bug, passed \in BOOLEAN : Retest(b, passed)

LEMMA UnlockFreeSteps ==
    ASSUME ~Calls("unlock"), RetestTypeOK, RunStep \/ RetestStep
    PROVE  UnlockFreeRun \/ UnlockFreeBug \/ TaskAction \/ IssueAction
<1>1. \A r \in Run : RunInputs \cup {runs[r].status} \subseteq RunStatus \cup Absent
  BY RetestAssumption DEF RetestTypeOK, RunRow
<1>2. \A b \in Bug : BugInputs \cup {bugs[b].status} \subseteq BugStatus \cup Absent
  BY RetestAssumption DEF RetestTypeOK, BugRow
<1>3. RunStep => UnlockFreeRun
  BY <1>1 DEF RunStep, RegisterRun, UnlockFreeRun
<1>4. OtherRunMethods => UnlockFreeRun \/ TaskAction
  BY DEF OtherRunMethods, UnlockFreeRun, TaskMethods, TaskAction
<1>5. BugMethods => UnlockFreeBug
  BY <1>2 DEF BugMethods, UnlockFreeBug, AssignBug, SetFixedVersion, CloseBug, UpdateBugStatus,
     RestorePreviousStatus
<1>6. IssueMethods => IssueAction
  BY DEF IssueMethods, IssueAction
<1>7. QED
  BY <1>3, <1>4, <1>5, <1>6 DEF RetestStep

LEMMA UnlockFreeRunSealed ==
    ASSUME RetestInv, RunsSealed, UnlockFreeRun PROVE RunsStaySealed /\ BugsStaySealed
<1>0. RetestTypeOK /\ \A r \in Run : runs[r] \in RunRow
  BY DEF RetestInv, RetestTypeOK
<1>1. ASSUME NEW q \in Requests, CreateRun(q) PROVE RunsStaySealed /\ BugsStaySealed
  <2> DEFINE row == [AbsentRun("PENDING") EXCEPT !.request = q]
  <2>1. PICK r \in Run : runs' = [runs EXCEPT ![r] = row]
    BY <1>1 DEF CreateRun
  <2>2. ~row.held /\ UNCHANGED bugs
    BY <1>1 DEF CreateRun, AbsentRun
  <2> HIDE DEF row
  <2>3. QED
    BY <1>0, <2>1, <2>2, OneRunStaysSealed, UntouchedStaySealed
<1>2. ASSUME NEW r \in Run, NEW row, UNCHANGED bugs, runs' = [runs EXCEPT ![r] = row],
             row.held = runs[r].held, row.locked = runs[r].locked
      PROVE  RunsStaySealed /\ BugsStaySealed
  BY <1>0, <1>2, OneRunStaysSealed, UntouchedStaySealed DEF RunsSealed
<1>3. ASSUME NEW r \in Run, NEW q \in Requests, NEW s, UpdateRun(r, q, s)
      PROVE  RunsStaySealed /\ BugsStaySealed
  <2> DEFINE row == [runs[r] EXCEPT !.request = q, !.status = s]
  <2>1. runs' = [runs EXCEPT ![r] = row] /\ UNCHANGED bugs
    BY <1>0, <1>3 DEF UpdateRun, RetestTypeOK
  <2>2. row.held = runs[r].held /\ row.locked = runs[r].locked
    BY <1>0 DEF RunRow
  <2> HIDE DEF row
  <2>3. QED
    BY <1>2, <2>1, <2>2
<1>4. ASSUME NEW r \in Run, NEW s \in RunInputs, UpdateRunStatus(r, s)
      PROVE  RunsStaySealed /\ BugsStaySealed
  <2> DEFINE row == [runs[r] EXCEPT !.status = s]
  <2>1. runs' = [runs EXCEPT ![r] = row] /\ UNCHANGED bugs
    BY <1>4 DEF UpdateRunStatus
  <2>2. row.held = runs[r].held /\ row.locked = runs[r].locked
    BY <1>0 DEF RunRow
  <2> HIDE DEF row
  <2>3. QED
    BY <1>2, <2>1, <2>2
<1>5. ASSUME NEW r \in Run, DeleteRun(r) PROVE RunsStaySealed /\ BugsStaySealed
  <2>1. runs' = [runs EXCEPT ![r] = AbsentRun("DELETED")] /\ ~AbsentRun("DELETED").held
    BY <1>5 DEF DeleteRun, AbsentRun
  <2>2. bugs' = [b \in Bug |-> IF b \in BugsOf(r) THEN AbsentBug("DELETED") ELSE bugs[b]]
    BY <1>5 DEF DeleteRun
  <2>3. BugsStaySealed
    BY <2>2, Statuses DEF BugsStaySealed, Live, AbsentBug, Absent
  <2>4. QED
    BY <1>0, <2>1, <2>3, OneRunStaysSealed
<1>6. QED
  BY <1>1, <1>3, <1>4, <1>5 DEF UnlockFreeRun

LEMMA UnlockFreeBugSealed ==
    ASSUME RetestInv, RunsSealed, UnlockFreeBug PROVE RunsStaySealed /\ BugsStaySealed
<1>0. RetestTypeOK /\ (\A b \in Bug : bugs[b] \in BugRow) /\ \A r \in Run : runs[r].held => runs[r].locked
  BY DEF RetestInv, RetestTypeOK, RunsSealed
<1>1. UNCHANGED runs
  BY DEF UnlockFreeBug, CreateBug, UpdateBug, DeleteBug, MoveBug, MarkReadyForRetest, Retest
<1>2. ASSUME NEW b \in Bug, NEW s, ~bugs[b].locked, Live(bugs, b), SetBug(b, [bugs[b] EXCEPT !.status = s])
      PROVE  BugsStaySealed
  <2>1. [bugs[b] EXCEPT !.status = s].run = bugs[b].run
    BY <1>0 DEF BugRow
  <2>2. QED
    BY <1>0, <1>2, <2>1, OneBugStaysSealed
<1>3. ASSUME NEW r \in Run, NEW a \in BOOLEAN, NEW v \in Severities, CreateBug(r, a, v)
      PROVE  BugsStaySealed
  <2> DEFINE row == [AbsentBug(IF a THEN "ASSIGNED" ELSE "NEW") EXCEPT !.run = r, !.critical = v]
  <2>1. row.run = r /\ ~runs[r].held
    BY <1>0, <1>3 DEF AbsentBug, CreateBug
  <2>2. \E b \in Bug : SetBug(b, row)
    BY <1>3 DEF CreateBug
  <2> HIDE DEF row
  <2>3. QED
    BY <1>0, <2>1, <2>2, OneBugStaysSealed
<1>4. ASSUME NEW b \in Bug, NEW r \in Run, NEW a \in BOOLEAN, NEW v \in Severities, NEW s,
             UpdateBug(b, r, s, a, v)
      PROVE  BugsStaySealed
  <2> DEFINE row == [bugs[b] EXCEPT !.run = r, !.critical = v,
                        !.status = IF a THEN IF @ = "NEW" THEN "ASSIGNED" ELSE @ ELSE s]
  <2>1. row.run = r /\ ~runs[r].held
    BY <1>0, <1>4 DEF UpdateBug, BugRow
  <2>2. SetBug(b, row)
    BY <1>4 DEF UpdateBug
  <2> HIDE DEF row
  <2>3. QED
    BY <1>0, <2>1, <2>2, OneBugStaysSealed
<1>5. ASSUME NEW b \in Bug, DeleteBug(b) PROVE BugsStaySealed
  BY <1>0, <1>5, Statuses, OneBugStaysSealed DEF DeleteBug
<1>6. ASSUME NEW b \in Bug, NEW s, NEW p, MoveBug(b, s, p) PROVE BugsStaySealed
  <2>1. [bugs[b] EXCEPT !.status = s, !.previous = p].run = bugs[b].run
    BY <1>0 DEF BugRow
  <2>2. QED
    BY <1>0, <1>6, <2>1, OneBugStaysSealed DEF MoveBug
<1>7. ASSUME NEW b \in Bug, MarkReadyForRetest(b) PROVE BugsStaySealed
  BY <1>2, <1>7, UntouchedStaySealed DEF MarkReadyForRetest
<1>8. ASSUME NEW b \in Bug, NEW passed \in BOOLEAN, Retest(b, passed) PROVE BugsStaySealed
  BY <1>2, <1>8 DEF Retest
<1>9. RunsStaySealed
  BY <1>1, UntouchedStaySealed
<1>10. QED
  BY <1>3, <1>4, <1>5, <1>6, <1>7, <1>8, <1>9 DEF UnlockFreeBug

LEMMA TaskActionSealed ==
    ASSUME RetestInv, RunsSealed, TaskAction PROVE RunsStaySealed /\ BugsStaySealed
<1>0. RetestTypeOK
  BY DEF RetestInv
<1>1. UNCHANGED bugs
  BY TaskActionLeavesBugs
<1>2. ASSUME NEW c \in Callers, FinishStart(c) PROVE RunsStaySealed
  <2> DEFINE row == [AbsentRun("PENDING") EXCEPT !.request = starting[c].request,
                                                 !.task = starting[c].task]
  <2>1. ~row.held
    BY DEF AbsentRun
  <2>2. UNCHANGED runs \/ \E r \in Run : runs' = [runs EXCEPT ![r] = row]
    BY <1>2 DEF FinishStart
  <2> HIDE DEF row
  <2>3. QED
    BY <1>0, <2>1, <2>2, OneRunStaysSealed, UntouchedStaySealed
<1>3. RunsStaySealed
  BY <1>2, UntouchedStaySealed
     DEF TaskAction, EnsureForBug, StartTask, FailStart, CompleteTask, rows
<1>4. QED
  BY <1>1, <1>3, UntouchedStaySealed

LEMMA LockingSealed ==
    ASSUME RetestInv, RunsSealed, BugsSealed, NEW qs \in SUBSET Requests, LockEvidence(qs)
    PROVE  RunsSealed' /\ BugsSealed'
<1>0. RetestTypeOK /\ \A b \in Bug : Live(bugs, b) => bugs[b].run \in Run
  BY DEF RetestInv, RowsLinked, BugLinks
<1>1. ASSUME NEW r \in Run
      PROVE  /\ runs'[r].held => runs'[r].locked
             /\ runs'[r].held => runs[r].held \/ r \in RunsOf(qs)
  <2>1. runs[r] \in RunRow
    BY <1>0 DEF RetestTypeOK
  <2>2. runs'[r] = IF r \in RunsOf(qs) THEN [runs[r] EXCEPT !.locked = TRUE, !.held = TRUE]
                   ELSE runs[r]
    BY Zenon DEF LockEvidence
  <2>3. CASE r \in RunsOf(qs)
    BY <2>1, <2>2, <2>3 DEF RunRow
  <2>4. CASE r \notin RunsOf(qs)
    BY <2>2, <2>4 DEF RunsSealed
  <2>5. QED
    BY <2>3, <2>4
<1>2. ASSUME NEW b \in Bug
      PROVE  /\ bugs'[b].run = bugs[b].run /\ bugs'[b].status = bugs[b].status
             /\ bugs[b].locked \/ bugs[b].run \in RunsOf(qs) => bugs'[b].locked
  <2>1. bugs[b] \in BugRow
    BY <1>0 DEF RetestTypeOK
  <2>2. bugs'[b] = IF bugs[b].run \in RunsOf(qs)
                   THEN [bugs[b] EXCEPT !.locked = TRUE, !.held = TRUE] ELSE bugs[b]
    BY Zenon DEF LockEvidence
  <2>3. CASE bugs[b].run \in RunsOf(qs)
    BY <2>1, <2>2, <2>3 DEF BugRow
  <2>4. CASE bugs[b].run \notin RunsOf(qs)
    BY <2>2, <2>4
  <2>5. QED
    BY <2>3, <2>4
<1>3. RunsSealed'
  BY <1>1 DEF RunsSealed
<1>4. BugsSealed'
  BY <1>0, <1>1, <1>2 DEF BugsSealed, Live
<1>5. QED
  BY <1>3, <1>4

OpenBugsAreUncovered ==
    \A v \in Version : Approved(v) =>
        \A b \in OpenCritical(Linked(v)) : ~runs[bugs[b].run].held

LEMMA SealedStep ==
    ASSUME ~Calls("unlock"), ReleaseInv, RunsSealed, BugsSealed, [Next]_vars
    PROVE  RunsSealed' /\ BugsSealed'
<1>1. /\ RetestInv /\ RetestInv' /\ RetestTypeOK /\ ReleaseTyped /\ VersionsLinked
  BY ReleaseNextInv DEF ReleaseInv, RetestInv
<1>2. UNCHANGED retestVars => RunsStaySealed /\ BugsStaySealed
  BY UntouchedStaySealed DEF retestVars
<1>3. IssueAction => RunsStaySealed /\ BugsStaySealed
  BY UntouchedStaySealed DEF IssueAction, CreateIssue, ResolveIssue
<1>4. CASE LockingStep
  <2>1. PICK v \in Version, row \in VersionRow :
           LockAndReflect(v, row) /\ versions[v].status \in VersionStatus
    BY <1>1, <1>4, LockingRows, ReleaseStatuses
  <2>2. Linked(v) \in SUBSET Requests
    BY <1>1, <2>1, ReleaseStatuses DEF VersionsLinked, Live
  <2>3. QED
    BY <1>1, <2>1, <2>2, LockingSealed DEF LockAndReflect
<1>5. CASE RunStep \/ RetestStep
  BY <1>1, <1>3, <1>5, UnlockFreeSteps, UnlockFreeRunSealed, UnlockFreeBugSealed, TaskActionSealed,
     StaySealed
<1>6. CASE RequestStep \/ LinkingStep \/ VersionStep \/ UNCHANGED vars
  <2>1. UNCHANGED retestVars
    BY <1>6, LeaveEvidenceKeeps DEF vars
  <2>2. QED
    BY <1>1, <1>2, <2>1, StaySealed
<1>7. QED
  BY <1>4, <1>5, <1>6, NextIsStep DEF ReleaseStep

(* What PublicationAcceptsRisk's violation amounts to: unless an administrator  *)
(* unlocks evidence, the open critical bugs of a version approved without risk  *)
(* are bugs of runs the decision did not hold, registered for its requests or   *)
(* moved to them afterwards.  No bug is added to what was decided on.           *)
THEOREM OpenBugsComeLater ==
    ASSUME ~Calls("unlock") PROVE Spec => []OpenBugsAreUncovered
<1>1. Init => RunsSealed /\ BugsSealed
  BY Statuses DEF Init, RetestInit, RunsSealed, BugsSealed, AbsentRun, AbsentBug, Live
<1>2. ReleaseInv /\ RunsSealed /\ BugsSealed /\ [Next]_vars => RunsSealed' /\ BugsSealed'
  BY SealedStep
<1>3. ReleaseInv /\ RunsSealed /\ BugsSealed => OpenBugsAreUncovered
  BY CriticalBugs DEF ReleaseInv, LockedEvidenceIsClean, BugsSealed, OpenBugsAreUncovered, Approved
<1>4. QED
  BY ReleaseInvariant, <1>1, <1>2, <1>3, PTL DEF Spec
===============================================================================
