--------------------------- MODULE ReleaseWorkflow ---------------------------
(***************************************************************************)
(* Test requests and version histories (releasePublishApi, testRequestApi  *)
(* of api.ts) on top of the runs, bugs and retest tasks of RetestFlow: how *)
(* a tested request becomes a version, the QA lead's quality verdict and   *)
(* re-run request, the release decision that locks the evidence, emergency *)
(* risk acceptance and publication.                                        *)
(*                                                                         *)
(* Each method is one step after its delay(), as in RetestFlow.  A request *)
(* has one ready test case here, and its version and build are its group.  *)
(***************************************************************************)
EXTENDS RetestFlow, Functions

CONSTANTS
    GroupOf,         \* GroupOf[q]: the application, version and build of q
    MaxVersions,     \* bound on the version histories ever created
    Qualities,       \* the verdicts the QA leads of this instance give
    Decisions,       \* the decisions taken in this instance
    ExistingRequests \* the requests an earlier session left accepted

Version == 1..MaxVersions
Final == {"PASSED", "FAILED", "BLOCKED", "SKIPPED"}
ClosedBug == {"CLOSED", "REJECTED", "RETEST_PASSED", "NO_ACTION_NEEDED"}
Quality == {"NOT_STARTED", "IN_PROGRESS", "READY", "CONDITIONAL", "NOT_READY", "RETEST_REQUIRED"}
Decision == {"APPROVED", "CONDITIONAL", "REJECTED", "BLOCKED"}
RequestStatus == {"DRAFT", "SUBMITTED", "ACCEPTED", "REJECTED", "IN_PROGRESS", "COMPLETED",
                  "CANCELLED"}
VersionStatus == {"DRAFT", "QA_REVIEW", "SECURITY_REVIEW", "PENDING_DECISION", "APPROVED",
                  "CONDITIONAL", "REJECTED", "PUBLISHED"}

ASSUME ReleaseAssumption ==
    /\ DOMAIN GroupOf = Requests
    /\ MaxVersions \in Nat
    /\ RunInputs \subseteq Final
    /\ Qualities \subseteq Quality
    /\ Decisions \subseteq Decision
    /\ ExistingRequests \subseteq Requests
    /\ None \notin Quality \cup Decision

VARIABLES
    requests,   \* requests[q]: the row of testRequests, or an absent one
    versions,   \* versions[v]: the row of releasePublishes
    incomplete, \* requests with a linked requirement not COMPLETED or APPROVED
    newer       \* <<x, y>>: run x has a later executedAt || updatedAt || createdAt than y

releaseRows == <<requests, versions, incomplete>>
vars == <<retestVars, requests, versions, incomplete, newer>>

RequestRow == [status : RequestStatus \cup Absent, quality : Quality \cup {None},
               assigned : BOOLEAN]
VersionRow == [status : VersionStatus \cup Absent, primary : Requests \cup {None},
               related : SUBSET Requests, quality : Quality \cup {None},
               baseline : 0..MaxRuns, decision : Decision \cup {None}, risk : BOOLEAN]

NoRequest == [status |-> "UNUSED", quality |-> None, assigned |-> FALSE]
NoVersion == [status |-> "UNUSED", primary |-> None, related |-> {}, quality |-> None,
              baseline |-> 0, decision |-> None, risk |-> FALSE]

ReleaseTypeOK ==
    /\ RetestTypeOK
    /\ requests \in [Requests -> RequestRow]
    /\ versions \in [Version -> VersionRow]
    /\ incomplete \subseteq Requests
    /\ newer \subseteq Run \X Run

Init ==
    /\ RetestInit
    /\ requests = [q \in Requests |->
                      IF q \in ExistingRequests THEN [NoRequest EXCEPT !.status = "ACCEPTED"]
                      ELSE NoRequest]
    /\ versions = [v \in Version |-> NoVersion]
    /\ incomplete = {}
    /\ newer = {}

-------------------------------------------------------------------------------
(* getVersionHistoryRequestIds, isRequestAlreadyLinkedToVersionHistory *)
Linked(v) == {versions[v].primary} \cup versions[v].related
VersionsOf(q) == {v \in Version : Live(versions, v) /\ q \in Linked(v)}

BugsOfRequests(qs) == {b \in Bug : Live(bugs, b) /\ bugs[b].run \in RunsOf(qs)}

OpenCritical(qs) == {b \in BugsOfRequests(qs) : bugs[b].critical /\ bugs[b].status \notin ClosedBug}

EmergencyByTag(v) == versions[v].risk
Emergency(v) == OpenCritical(Linked(v)) # {} \/ versions[v].risk

(* The final runs of v, with the runs as the caller has just left them. *)
FinalRunCount(rs, v) ==
    Cardinality({r \in Run : rs[r].request \in Linked(v) /\ rs[r].status \in Final})

(* isTestRequestReadyForQualityQueue *)
LatestRun(q) == {r \in RunsOf({q}) : \A o \in RunsOf({q}) \ {r} : <<r, o>> \in newer}
Testable(q) == requests[q].status \in {"ACCEPTED", "IN_PROGRESS", "COMPLETED"}

ReadyForQualityQueue(q) ==
    /\ Testable(q)
    /\ q \notin incomplete
    /\ \E r \in LatestRun(q) : runs[r].status = "PASSED"
    /\ \A b \in BugsOfRequests({q}) : bugs[b].status \in ClosedBug
    /\ \A i \in Issue : issues[i].run \in RunsOf({q}) => issues[i].status = "RESOLVED"
    /\ \A t \in Task : tasks[t].request = q => tasks[t].status \notin Open

VersionReady(v) == \A q \in Linked(v) : ReadyForQualityQueue(q)

(* reflectVersionHistoryOnPrimaryRequest, for the version row v is given *)
ReflectedDecision(rs, row) ==
    [rs EXCEPT ![row.primary].quality = row.quality,
               ![row.primary].status = IF row.decision \in {"APPROVED", "CONDITIONAL"}
                                       THEN row.decision ELSE @]
Reflected(rs, row) ==
    [rs EXCEPT ![row.primary].quality = row.quality,
               ![row.primary].status = IF row.decision \in {"APPROVED", "CONDITIONAL"}
                                       THEN "COMPLETED" ELSE @]

-------------------------------------------------------------------------------
(* testRequestApi *)

MoveRequest(q, from, row) ==
    /\ requests[q].status \in from
    /\ requests' = [requests EXCEPT ![q] = row]
    /\ UNCHANGED <<retestVars, versions, incomplete, newer>>

CreateRequest(q) == MoveRequest(q, {"UNUSED"}, [NoRequest EXCEPT !.status = "DRAFT"])
SubmitRequest(q) == MoveRequest(q, {"DRAFT"}, [requests[q] EXCEPT !.status = "SUBMITTED"])
ReviewRequest(q, verdict) ==
    MoveRequest(q, {"SUBMITTED"}, [requests[q] EXCEPT !.status = verdict])
AssignRequest(q) ==
    MoveRequest(q, {"ACCEPTED", "IN_PROGRESS"},
                [requests[q] EXCEPT !.status = "IN_PROGRESS", !.assigned = TRUE])
CancelRequest(q) ==
    MoveRequest(q, RequestStatus \ {"COMPLETED", "CANCELLED"},
                [requests[q] EXCEPT !.status = "CANCELLED"])

(* requirementApi: a requirement is linked, reopened, completed or approved. *)
RequirementsChange(q) ==
    /\ incomplete' = IF q \in incomplete THEN incomplete \ {q} ELSE incomplete \cup {q}
    /\ UNCHANGED <<retestVars, requests, versions, newer>>

-------------------------------------------------------------------------------
(* Runs: the methods of RetestFlow, with what they do to a version. *)

CreatedRuns == {r \in Run : runs[r].status = "UNUSED" /\ runs'[r].status # "UNUSED"}
Unexecuted(S) == {r \in S : runs[r].status \notin Final}

(* The runs in `touched' are the latest now; deleted ones are gone. *)
Restamp(touched) ==
    newer' = {p \in Run \X Run :
                 /\ Live(runs', p[1]) /\ Live(runs', p[2])
                 /\ IF p[1] \in touched
                    THEN p[2] \in touched => p[1] > p[2]
                    ELSE p[2] \notin touched /\ p \in newer}

(* markQaRetestExecutionRegistered, called by testRun.update and updateStatus *)
AwaitingRerun(q) == {v \in VersionsOf(q) : versions[v].quality = "RETEST_REQUIRED"}

RerunRegistered(r) ==
    {v \in AwaitingRerun(runs'[r].request) :
        /\ runs'[r].status = "PASSED"
        /\ requests[runs'[r].request].quality = "RETEST_REQUIRED"
        /\ FinalRunCount(runs', v) > versions[v].baseline}

MarkQaRetestExecutionRegistered(r) ==
    /\ versions' = [v \in Version |->
           IF v \in RerunRegistered(r)
           THEN [versions[v] EXCEPT !.quality = "IN_PROGRESS", !.status = "QA_REVIEW"]
           ELSE versions[v]]
    /\ requests' = IF RerunRegistered(r) # {}
                   THEN [requests EXCEPT ![runs'[r].request].quality = "IN_PROGRESS"]
                   ELSE requests

RegisterRun(r) ==
    /\ \/ /\ Calls("testRun.update")
          /\ \E q \in Requests, s \in RunInputs : UpdateRun(r, q, s) /\ Restamp({r})
       \/ /\ Calls("testRun.update")
          /\ \E q \in Requests : UpdateRun(r, q, runs[r].status) /\ Restamp(Unexecuted({r}))
       \/ \E s \in RunInputs : UpdateRunStatus(r, s) /\ Restamp({r})
    /\ MarkQaRetestExecutionRegistered(r)
    /\ UNCHANGED incomplete

(* testRun.create rejects a request it cannot find. *)
OtherRunMethods ==
    \/ \E q \in Requests : Live(requests, q) /\ CreateRun(q) /\ Restamp(CreatedRuns)
    \/ /\ Calls("unlock")
       /\ \E r \in Run : UnlockRun(r) /\ Restamp(IF runs' = runs THEN {} ELSE Unexecuted({r}))
    \/ Calls("testRun.delete") /\ \E r \in Run : DeleteRun(r) /\ Restamp({})
    \/ Calls("retest") /\ TaskMethods /\ Restamp(CreatedRuns)

RetestStep ==
    /\ \/ OtherRunMethods
       \/ BugMethods /\ UNCHANGED newer
       \/ Calls("runIssue") /\ IssueMethods /\ UNCHANGED newer
    /\ UNCHANGED releaseRows

-------------------------------------------------------------------------------
(* releasePublishApi *)

SetVersion(v, row) == versions' = [versions EXCEPT ![v] = row]
LeaveEvidence == UNCHANGED <<retestVars, incomplete, newer>>

LinkableToo(p, q) ==
    /\ p = q => VersionsOf(p) = {}
    /\ Live(requests, p)
    /\ GroupOf[p] = GroupOf[q]
Linkable(p, q) ==
    /\ VersionsOf(p) = {}
    /\ Live(requests, p)
    /\ GroupOf[p] = GroupOf[q]

CreateVersion(q, related) ==
    /\ \A p \in {q} \cup related : Linkable(p, q)
    /\ \E v \in Version :
          /\ IsNext(versions, v)
          /\ SetVersion(v, [NoVersion EXCEPT !.status = "DRAFT", !.primary = q,
                                             !.related = related])
    /\ UNCHANGED requests
    /\ LeaveEvidence

SubmitForQAReview(v) ==
    /\ versions[v].status = "DRAFT"
    /\ SetVersion(v, [versions[v] EXCEPT !.status = "QA_REVIEW"])
    /\ UNCHANGED requests
    /\ LeaveEvidence

(* syncAutomaticSuccessfulVersionHistories, run by the reads getAll,        *)
(* getPendingDecision and getPendingQAReview: it promotes the ready drafts  *)
(* and makes a version of each group of ready requests that has none.  It   *)
(* also completes the requests, which lasts only if the bridge saves them:  *)
(* getAll is one of its queries, so the next call reads the rows as before. *)
Promoted == {v \in Version : versions[v].status = "DRAFT" /\ VersionReady(v)}
Unlinked == {q \in Requests : VersionsOf(q) = {} /\ ReadyForQualityQueue(q)}
ReadyGroups == {GroupOf[q] : q \in Unlinked}

(* id gives each group its version, primary its oldest request *)
SyncVersions(id, primary, saved) ==
    /\ versions' = [v \in Version |->
           IF v \in Promoted THEN [versions[v] EXCEPT !.status = "QA_REVIEW"]
           ELSE IF \E g \in ReadyGroups : id[g] = v
           THEN LET g == CHOOSE g \in ReadyGroups : id[g] = v IN
                [NoVersion EXCEPT !.status = "QA_REVIEW", !.primary = primary[g],
                     !.related = {q \in Unlinked : GroupOf[q] = g} \ {primary[g]}]
           ELSE versions[v]]
    /\ requests' = [q \in Requests |->
           IF saved /\ q \in Unlinked \cup UNION {Linked(v) : v \in Promoted}
           THEN [requests[q] EXCEPT !.status = "COMPLETED"] ELSE requests[q]]

NewVersions(n) ==
    {v \in Version : /\ versions[v].status = "UNUSED"
                     /\ Cardinality({w \in Version : w < v /\ ~Live(versions, w)}) < n}

ListVersions(saved) ==
    /\ \E id \in Injection(ReadyGroups, NewVersions(Cardinality(ReadyGroups))),
          primary \in [ReadyGroups -> Unlinked] :
          /\ \A g \in ReadyGroups : GroupOf[primary[g]] = g
          /\ SyncVersions(id, primary, saved)
    /\ LeaveEvidence

(* setQAQuality's null answers: what the verdict needs of the evidence *)
MayJudgeAnyStatus(v, quality) ==
    /\ Live(versions, v)
    /\ quality # "NOT_STARTED" => FinalRunCount(runs, v) > 0
    /\ Linked(v) \cap incomplete = {}
MayJudge(v, quality) ==
    /\ versions[v].status \in {"QA_REVIEW", "DRAFT"}
    /\ quality # "NOT_STARTED" => FinalRunCount(runs, v) > 0
    /\ Linked(v) \cap incomplete = {}
    /\ versions[v].quality = "RETEST_REQUIRED" /\ quality # "RETEST_REQUIRED"
           => FinalRunCount(runs, v) > versions[v].baseline /\ VersionReady(v)
    /\ quality = "RETEST_REQUIRED" => VersionReady(v)

Judged(v, quality, status) ==
    [versions[v] EXCEPT !.quality = quality, !.status = status]

ReturnedPrimary(v) ==
    [requests EXCEPT ![versions[v].primary] =
        [@ EXCEPT !.status = "IN_PROGRESS", !.quality = "RETEST_REQUIRED"]]
Returned(v) ==
    [q \in Requests |->
        IF q \in Linked(v)
        THEN [requests[q] EXCEPT !.status = "IN_PROGRESS", !.quality = "RETEST_REQUIRED"]
        ELSE requests[q]]

RequestRerun(v) ==
    /\ MayJudge(v, "RETEST_REQUIRED")
    /\ LET row == [Judged(v, "RETEST_REQUIRED", "QA_REVIEW") EXCEPT
                       !.baseline = FinalRunCount(runs, v)]
       IN SetVersion(v, row) /\ requests' = Reflected(Returned(v), row)
    /\ LeaveEvidence

(* A security test needs a QA specialist on the primary and a ready test case. *)
SetQAQuality(v, quality, security) ==
    /\ quality # "RETEST_REQUIRED"
    /\ MayJudge(v, quality)
    /\ security => quality \in {"READY", "CONDITIONAL"} /\ requests[versions[v].primary].assigned
    /\ LET row == Judged(v, quality, IF security THEN "SECURITY_REVIEW" ELSE "PENDING_DECISION")
       IN SetVersion(v, row) /\ requests' = Reflected(requests, row)
    /\ LeaveEvidence

(* securityChecklistApi completes the primary's review without a failure. *)
ToDecision(v) ==
    LET row == [versions[v] EXCEPT !.status = "PENDING_DECISION"]
    IN SetVersion(v, row) /\ requests' = Reflected(requests, row) /\ LeaveEvidence

SecurityReviewDone(v) == versions[v].status = "SECURITY_REVIEW" /\ ToDecision(v)

(* lockRunsForVersionHistory and the reflection on the primary request *)
LockAndReflect(v, row) ==
    /\ SetVersion(v, row)
    /\ requests' = Reflected(requests, row)
    /\ LockEvidence(Linked(v))
    /\ Restamp(Unexecuted(RunsOf(Linked(v))))
    /\ Plain
    /\ UNCHANGED <<tasks, issues, incomplete>>

Decide(v, decision) ==
    /\ versions[v].status = "PENDING_DECISION"
    /\ versions[v].quality # None
    /\ Emergency(v) /\ decision \in {"APPROVED", "CONDITIONAL"} => versions[v].risk
    /\ LockAndReflect(v, [versions[v] EXCEPT
           !.decision = decision, !.status = IF decision = "BLOCKED" THEN "DRAFT" ELSE decision])

Publish(v) ==
    /\ versions[v].status \in {"APPROVED", "CONDITIONAL"}
    /\ LockAndReflect(v, [versions[v] EXCEPT !.status = "PUBLISHED"])

EmergencyPublish(v) ==
    /\ Live(versions, v)
    /\ Emergency(v)
    /\ SetVersion(v, [versions[v] EXCEPT !.risk = TRUE])
    /\ UNCHANGED requests
    /\ LeaveEvidence

-------------------------------------------------------------------------------
RequestMethods ==
    \E q \in Requests :
        \/ CreateRequest(q)
        \/ SubmitRequest(q)
        \/ \E verdict \in {"ACCEPTED", "REJECTED"} : ReviewRequest(q, verdict)
        \/ AssignRequest(q)
        \/ Calls("testRequest.cancel") /\ CancelRequest(q)
        \/ Calls("requirement") /\ RequirementsChange(q)

VersionMethods ==
    \/ Calls("releasePublish.create") /\
           \E q \in Requests : \E related \in SUBSET (Requests \ {q}) : CreateVersion(q, related)
    \/ \E saved \in BOOLEAN : ListVersions(saved)
    \/ \E v \in Version :
          \/ SubmitForQAReview(v)
          \/ \E decision \in Decisions : Decide(v, decision)
          \/ Publish(v)
          \/ EmergencyPublish(v)

(* The methods of requests, runs and versions that touch no security review *)
OtherMethods ==
    \/ RequestMethods
    \/ \E r \in Run : RegisterRun(r)
    \/ RetestStep
    \/ VersionMethods

QualityMethods ==
    \E v \in Version :
        \/ Calls("rerun") /\ RequestRerun(v)
        \/ \E quality \in Qualities, security \in {FALSE, Calls("security")} :
              SetQAQuality(v, quality, security)
        \/ Calls("security") /\ SecurityReviewDone(v)

Next == OtherMethods \/ QualityMethods

Spec == Init /\ [][Next]_vars

-------------------------------------------------------------------------------
(* A request belongs to at most one version history, although create, the   *)
(* automatic versions of the list reads and their groups all link requests. *)
OneVersionPerRequest == \A q \in Requests : Cardinality(VersionsOf(q)) <= 1

(* A version sent back for a re-run waits at QA review, and every request   *)
(* it links still asks for the re-run: so the run that answers it can be    *)
(* recognised by markQaRetestExecutionRegistered.                           *)
RerunReachesQA ==
    \A v \in Version :
        versions[v].quality = "RETEST_REQUIRED" =>
            /\ versions[v].status = "QA_REVIEW"
            /\ \A q \in Linked(v) : requests[q].quality = "RETEST_REQUIRED"

(* A decision is not undone: a rejected or published version stays so, and  *)
(* an approved one can only be published, whatever runs are registered,     *)
(* unlocked or executed again afterwards.                                   *)
DecisionsAreFinal ==
    [][\A v \in Version :
         /\ versions[v].status \in {"REJECTED", "PUBLISHED"} =>
                versions'[v].status = versions[v].status
         /\ versions[v].status \in {"APPROVED", "CONDITIONAL"} =>
                versions'[v].status \in {versions[v].status, "PUBLISHED"}]_vars

(* The ledger of an auditor: what the versions cover, what was decided on    *)
(* them, the runs filed under the requests and those a decision held.        *)
Covers == [v \in Version |-> IF Live(versions, v) THEN Linked(v) ELSE {}]
Outcomes == {"APPROVED", "CONDITIONAL", "REJECTED", "PUBLISHED"}
Outcome ==
    [v \in Version |-> IF versions[v].status \in Outcomes THEN versions[v].status ELSE "none"]
Filed == [r \in Run |-> IF Live(runs, r) THEN runs[r].request ELSE None]
Sealed == {r \in Run : runs[r].held}

Ledger == INSTANCE ReleaseLedger WITH
              Versions <- Version, Runs <- Run,
              covers <- Covers, outcome <- Outcome, filed <- Filed, sealed <- Sealed

(* The workflow keeps the ledger: however runs are moved, executed again,   *)
(* unlocked and deleted and versions judged, sent back, blocked and listed, *)
(* no request changes its version, no outcome is undone, and the runs of a  *)
(* decision stay filed as they were.                                        *)
LedgerSpec == Ledger!Spec

(* The evidence an approval locked holds no open critical bug unless the    *)
(* risk was accepted: none slips in by a severity change, a move of a bug   *)
(* or an unlock between the decision and the publication.                   *)
LockedEvidenceIsClean ==
    \A v \in Version :
        versions[v].status \in {"APPROVED", "CONDITIONAL"} /\ ~versions[v].risk =>
            \A b \in OpenCritical(Linked(v)) : ~bugs[b].locked

(* TheFinalPRD 5-4: an open critical bug makes risk acceptance a condition  *)
(* of publication.                                                          *)
PublicationAcceptsRisk ==
    [][\A v \in Version :
          versions[v].status # "PUBLISHED" /\ versions'[v].status = "PUBLISHED" =>
              OpenCritical(Linked(v)) = {} \/ versions[v].risk]_vars
===============================================================================
