------------------------------ MODULE RetestFlow ------------------------------
(***************************************************************************)
(* Test runs, bugs, retest tasks and run issues of the domain services     *)
(* (api.ts): the developer's hand-off of a fixed bug, the retest task QA   *)
(* starts and completes, the run it creates, the locks a release decision  *)
(* puts on the evidence, and the cascades of deletions.                    *)
(*                                                                         *)
(* Every method first awaits delay() (a timer) and then runs to its end    *)
(* without another await, so a method is one step; retestTask.start is the *)
(* exception: it checks the task, then awaits testRun.create, whose own    *)
(* delay() lets other methods run, and only then moves the task.           *)
(***************************************************************************)
EXTENDS Naturals, FiniteSets, FiniteSetsExt

CONSTANTS
    Requests,      \* test requests
    Callers,       \* concurrent callers of retestTask.start
    MaxRuns, MaxBugs, MaxTasks, MaxIssues, \* bounds on the rows ever created
    RunInputs,     \* the statuses callers give a run
    BugInputs,     \* the statuses callers give a bug through update and updateStatus
    Severities,    \* the severities callers report: TRUE is BLOCKER or CRITICAL
    Methods,       \* the methods the callers of this instance use
    FreshKeys,     \* whether start is also called with a key of the caller's own
    None           \* undefined

Run == 1..MaxRuns
Bug == 1..MaxBugs
Task == 1..MaxTasks
Issue == 1..MaxIssues

Absent == {"UNUSED", "DELETED"}
RunStatus == {"PENDING", "IN_PROGRESS", "PASSED", "FAILED", "BLOCKED", "SKIPPED"}
BugStatus == {"NEW", "ASSIGNED", "IN_PROGRESS", "FIXED", "RETEST_READY", "RETEST_PASSED",
              "RETEST_FAILED", "REOPENED", "CLOSED", "REJECTED", "NO_ACTION_NEEDED"}
Dismissed == {"REJECTED", "NO_ACTION_NEEDED"}
Open == {"QUEUED", "IN_PROGRESS"}

ASSUME RetestAssumption ==
    /\ MaxRuns \in Nat /\ MaxBugs \in Nat /\ MaxTasks \in Nat /\ MaxIssues \in Nat
    /\ RunInputs \subseteq RunStatus
    /\ BugInputs \subseteq BugStatus
    /\ Severities \subseteq BOOLEAN
    /\ FreshKeys \in BOOLEAN
    /\ None \notin Run \cup Bug \cup Task \cup Requests

VARIABLES
    runs,        \* runs[r]: the row of testRuns, or an absent one
    bugs,        \* bugs[b]: the row of bugs
    tasks,       \* tasks[t]: the row of retestTasks
    issues,      \* issues[i]: the row of runIssues
    remembered,  \* keys of commandResultCache, except testRun.create's
    createdFor,  \* createdFor[t]: testRun.create's cached run under t's default start key
    starting,    \* starting[c]: c's retestTask.start suspended in testRun.create
    reply        \* the default-key command just answered with its entity

rows == <<runs, bugs, tasks, issues>>
retestVars == <<runs, bugs, tasks, issues, remembered, createdFor, starting, reply>>

RunRow == [status : RunStatus \cup Absent, request : Requests \cup {None},
           locked : BOOLEAN, held : BOOLEAN, task : Task \cup {None}]
BugRow == [status : BugStatus \cup Absent, previous : BugStatus \cup {None},
           run : Run \cup {None}, critical : BOOLEAN, locked : BOOLEAN, held : BOOLEAN]
TaskRow == [status : Open \cup {"COMPLETED"} \cup Absent, bugs : SUBSET Bug,
            source : Run \cup {None}, request : Requests \cup {None}, created : Run \cup {None}]
IssueRow == [status : {"OPEN", "RESOLVED"} \cup Absent, run : Run \cup {None}]
Key == ({"ready", "ensure", "unlockBug"} \X Bug) \cup ({"start", "complete"} \X Task)
           \cup ({"unlockRun"} \X Run)
Start == [task : Task, request : Requests \cup {None}, fresh : BOOLEAN]

AbsentRun(s) == [status |-> s, request |-> None, locked |-> FALSE, held |-> FALSE, task |-> None]
AbsentBug(s) == [status |-> s, previous |-> None, run |-> None, critical |-> FALSE,
                 locked |-> FALSE, held |-> FALSE]
AbsentTask(s) == [status |-> s, bugs |-> {}, source |-> None, request |-> None, created |-> None]
AbsentIssue(s) == [status |-> s, run |-> None]

RetestTypeOK ==
    /\ runs \in [Run -> RunRow]
    /\ bugs \in [Bug -> BugRow]
    /\ tasks \in [Task -> TaskRow]
    /\ issues \in [Issue -> IssueRow]
    /\ remembered \subseteq Key
    /\ createdFor \in [Task -> Run \cup {None}]
    /\ starting \in [Callers -> Start \cup {None}]
    /\ reply \in Key \cup {None}

RetestInit ==
    /\ runs = [r \in Run |-> AbsentRun("UNUSED")]
    /\ bugs = [b \in Bug |-> AbsentBug("UNUSED")]
    /\ tasks = [t \in Task |-> AbsentTask("UNUSED")]
    /\ issues = [i \in Issue |-> AbsentIssue("UNUSED")]
    /\ remembered = {}
    /\ createdFor = [t \in Task |-> None]
    /\ starting = [c \in Callers |-> None]
    /\ reply = None

Live(f, x) == f[x].status \notin Absent

(* Rows are created with unshift: a larger identifier is a newer row. *)
IsNext(f, x) ==
    /\ f[x].status = "UNUSED"
    /\ \A y \in DOMAIN f : y < x => f[y].status # "UNUSED"

OpenTasksOf(b) == {t \in Task : b \in tasks[t].bugs /\ tasks[t].status \in Open}
BugsOf(r) == {b \in Bug : bugs[b].run = r}

(* Most methods touch neither the command cache nor a suspended start. *)
Plain == reply' = None /\ UNCHANGED <<remembered, createdFor, starting>>

Answer(key) ==
    /\ reply' = key
    /\ remembered' = remembered \cup {key}
    /\ UNCHANGED <<createdFor, starting>>

-------------------------------------------------------------------------------
(* testRunApi *)

CreateRun(q) ==
    /\ \E r \in Run :
          /\ IsNext(runs, r)
          /\ runs' = [runs EXCEPT ![r] = [AbsentRun("PENDING") EXCEPT !.request = q]]
    /\ UNCHANGED <<bugs, tasks, issues>>
    /\ Plain

UpdateRun(r, q, s) ==
    /\ Live(runs, r)
    /\ ~runs[r].locked /\ ~runs[r].held
    /\ runs' = [runs EXCEPT ![r].request = q, ![r].status = s]
    /\ UNCHANGED <<bugs, tasks, issues>>
    /\ Plain

UpdateRunStatus(r, s) ==
    /\ Live(runs, r)
    /\ ~runs[r].locked
    /\ runs' = [runs EXCEPT ![r].status = s]
    /\ UNCHANGED <<bugs, tasks, issues>>
    /\ Plain

UnlockRun(r) ==
    /\ \/ /\ <<"unlockRun", r>> \in remembered
          /\ UNCHANGED runs
       \/ /\ <<"unlockRun", r>> \notin remembered
          /\ Live(runs, r)
          /\ runs[r].locked
          /\ runs' = [runs EXCEPT ![r].locked = FALSE]
    /\ UNCHANGED <<bugs, tasks, issues>>
    /\ Answer(<<"unlockRun", r>>)

CanDeleteRunCascadeUnheld(r) ==
    /\ ~runs[r].locked
    /\ \A b \in BugsOf(r) : ~bugs[b].locked
CanDeleteRunCascade(r) ==
    /\ ~runs[r].locked /\ ~runs[r].held
    /\ \A b \in BugsOf(r) : ~bugs[b].locked /\ ~bugs[b].held

TasksOfRunBySource(r) == {t \in Task : tasks[t].source = r \/ tasks[t].created = r}
TasksOfRun(r) ==
    {t \in Task : tasks[t].source = r \/ tasks[t].created = r \/ tasks[t].bugs \cap BugsOf(r) # {}}

DeleteRun(r) ==
    /\ Live(runs, r)
    /\ CanDeleteRunCascade(r)
    /\ runs' = [runs EXCEPT ![r] = AbsentRun("DELETED")]
    /\ bugs' = [b \in Bug |-> IF b \in BugsOf(r) THEN AbsentBug("DELETED") ELSE bugs[b]]
    /\ tasks' = [t \in Task |-> IF t \in TasksOfRun(r) THEN AbsentTask("DELETED") ELSE tasks[t]]
    /\ issues' = [i \in Issue |-> IF issues[i].run = r THEN AbsentIssue("DELETED") ELSE issues[i]]
    /\ Plain

-------------------------------------------------------------------------------
(* bugApi *)

SetBug(b, row) == bugs' = [bugs EXCEPT ![b] = row]

CreateBug(r, assigned, critical) ==
    /\ Live(runs, r)
    /\ runs[r].status = "FAILED"
    /\ ~runs[r].locked
    /\ \E b \in Bug :
          /\ IsNext(bugs, b)
          /\ SetBug(b, [AbsentBug(IF assigned THEN "ASSIGNED" ELSE "NEW") EXCEPT
                            !.run = r, !.critical = critical])
    /\ UNCHANGED <<runs, tasks, issues>>
    /\ Plain

(* s is the status in the data; assigned: the data names an assignee and no status *)
UpdateBug(b, r, s, assigned, critical) ==
    /\ Live(bugs, b)
    /\ ~bugs[b].locked
    /\ Live(runs, r)
    /\ ~runs[r].locked /\ ~runs[r].held
    /\ SetBug(b, [bugs[b] EXCEPT
                      !.run = r, !.critical = critical,
                      !.status = IF assigned
                                 THEN IF @ = "NEW" THEN "ASSIGNED" ELSE @
                                 ELSE s])
    /\ UNCHANGED <<runs, tasks, issues>>
    /\ Plain

DeleteBug(b) ==
    /\ Live(bugs, b)
    /\ ~bugs[b].locked
    /\ LET r == bugs[b].run IN ~runs[r].locked /\ ~runs[r].held
    /\ SetBug(b, AbsentBug("DELETED"))
    /\ tasks' = [t \in Task |-> IF b \in tasks[t].bugs THEN AbsentTask("DELETED") ELSE tasks[t]]
    /\ UNCHANGED <<runs, issues>>
    /\ Plain

(* A method that only moves an unlocked bug to another status. *)
MoveBug(b, s, previous) ==
    /\ Live(bugs, b)
    /\ ~bugs[b].locked
    /\ SetBug(b, [bugs[b] EXCEPT !.status = s, !.previous = previous])
    /\ UNCHANGED <<runs, tasks, issues>>
    /\ Plain

AssignBug(b) == MoveBug(b, "ASSIGNED", bugs[b].previous)
SetFixedVersion(b) == MoveBug(b, "FIXED", bugs[b].previous)
CloseBug(b) == MoveBug(b, "CLOSED", bugs[b].previous)

UpdateBugStatus(b, s) ==
    MoveBug(b, s,
        CASE s \notin Dismissed -> None
          [] s \in Dismissed /\ bugs[b].status # s -> bugs[b].status
          [] OTHER -> bugs[b].previous)

RestoreUnchecked(b) ==
    /\ bugs[b].status \in Dismissed
    /\ MoveBug(b, bugs[b].previous, None)
RestorePreviousStatus(b) ==
    /\ bugs[b].status \in Dismissed
    /\ bugs[b].previous # None
    /\ MoveBug(b, bugs[b].previous, None)

(* ensureRetestTaskForBug, with the bugs as the caller has just left them. *)
RelatedBugs(bs, r) ==
    {b \in Bug : bs[b].run = r /\ bs[b].status \notin {"CLOSED"} \cup Dismissed}

AllReady(bs, r) ==
    /\ RelatedBugs(bs, r) # {}
    /\ \A b \in RelatedBugs(bs, r) : bs[b].status = "RETEST_READY"

OpenTasksFrom(r) == {t \in Task : tasks[t].source = r /\ tasks[t].status \in Open}

MergedTasks(t, r, bs) == [tasks EXCEPT ![t].bugs = @ \cup RelatedBugs(bs, r)]

EnsureRetestTask(b, bs) ==
    LET r == bs[b].run IN
    \/ /\ OpenTasksOf(b) # {} \/ ~AllReady(bs, r)
       /\ UNCHANGED tasks
    \/ /\ OpenTasksOf(b) = {} /\ AllReady(bs, r)
       /\ OpenTasksFrom(r) # {}
       /\ tasks' = MergedTasks(Max(OpenTasksFrom(r)), r, bs)
    \/ /\ OpenTasksOf(b) = {} /\ AllReady(bs, r)
       /\ OpenTasksFrom(r) = {}
       /\ \E t \in Task :
             /\ IsNext(tasks, t)
             /\ tasks' = [tasks EXCEPT ![t] =
                    [AbsentTask("QUEUED") EXCEPT !.bugs = RelatedBugs(bs, r), !.source = r,
                                                 !.request = runs[r].request]]

MarkReadyForRetest(b) ==
    /\ \/ /\ <<"ready", b>> \in remembered
          /\ UNCHANGED <<bugs, tasks>>
       \/ /\ <<"ready", b>> \notin remembered
          /\ Live(bugs, b)
          /\ ~bugs[b].locked
          /\ bugs[b].status \in {"FIXED", "RETEST_READY"}
          /\ SetBug(b, [bugs[b] EXCEPT !.status = "RETEST_READY"])
          /\ EnsureRetestTask(b, bugs')
    /\ UNCHANGED <<runs, issues>>
    /\ Answer(<<"ready", b>>)

CompletedBy(b, bs) ==
    {t \in OpenTasksOf(b) :
        /\ t = Max(OpenTasksOf(b))
        /\ \A x \in tasks[t].bugs : bs[x].status # "RETEST_READY"}

Retest(b, passed) ==
    /\ Live(bugs, b)
    /\ ~bugs[b].locked
    /\ bugs[b].status = "RETEST_READY"
    /\ SetBug(b, [bugs[b] EXCEPT !.status = IF passed THEN "RETEST_PASSED" ELSE "RETEST_FAILED"])
    /\ tasks' = [t \in Task |-> IF t \in CompletedBy(b, bugs')
                                THEN [tasks[t] EXCEPT !.status = "COMPLETED"] ELSE tasks[t]]
    /\ UNCHANGED <<runs, issues>>
    /\ Plain

UnlockBug(b) ==
    /\ \/ /\ <<"unlockBug", b>> \in remembered
          /\ UNCHANGED bugs
       \/ /\ <<"unlockBug", b>> \notin remembered
          /\ Live(bugs, b)
          /\ bugs[b].locked
          /\ SetBug(b, [bugs[b] EXCEPT !.locked = FALSE])
    /\ UNCHANGED <<runs, tasks, issues>>
    /\ Answer(<<"unlockBug", b>>)

-------------------------------------------------------------------------------
(* retestTaskApi *)

EnsureForBug(b) ==
    /\ <<"ensure", b>> \notin remembered
    /\ Live(bugs, b)
    /\ bugs[b].status = "RETEST_READY"
    /\ EnsureRetestTask(b, bugs)
    /\ reply' = None
    /\ remembered' = IF OpenTasksOf(b) # {} \/ AllReady(bugs, bugs[b].run)
                     THEN remembered \cup {<<"ensure", b>>} ELSE remembered
    /\ UNCHANGED <<runs, bugs, issues, createdFor, starting>>

RememberStart(t, fresh) ==
    remembered' = IF fresh THEN remembered ELSE remembered \cup {<<"start", t>>}

HasExistingRun(t) ==
    /\ tasks[t].status = "IN_PROGRESS"
    /\ tasks[t].created # None
    /\ Live(runs, tasks[t].created)

(* start, up to its call of testRun.create *)
StartTask(c, t, fresh) ==
    /\ starting[c] = None
    /\ fresh \/ <<"start", t>> \notin remembered
    /\ tasks[t].status \in Open
    /\ \/ /\ HasExistingRun(t)
          /\ RememberStart(t, fresh)
          /\ UNCHANGED starting
       \/ /\ ~HasExistingRun(t)
          /\ Live(runs, tasks[t].source)
          /\ starting' = [starting EXCEPT ![c] =
                 [task |-> t, request |-> tasks[t].request, fresh |-> fresh]]
          /\ UNCHANGED remembered
    /\ reply' = None
    /\ UNCHANGED <<rows, createdFor>>

(* A task filtered out of retestTasks meanwhile is changed where nobody sees it. *)
Started(t, r) ==
    tasks' = IF Live(tasks, t)
             THEN [tasks EXCEPT ![t].status = "IN_PROGRESS", ![t].created = r]
             ELSE tasks

(* What testRun.create remembers under the key start passes on to it. *)
CachedRunKeyless(t, fresh) == None
CachedRun(t, fresh) == IF fresh THEN None ELSE createdFor[t]

(* start, from testRun.create's delay() to its end *)
FinishStart(c) ==
    /\ starting[c] # None
    /\ LET t == starting[c].task
           fresh == starting[c].fresh
       IN /\ \/ /\ CachedRun(t, fresh) # None
                /\ Started(t, createdFor[t])
                /\ UNCHANGED <<runs, createdFor>>
             \/ /\ CachedRun(t, fresh) = None
                /\ \E r \in Run :
                      /\ IsNext(runs, r)
                      /\ runs' = [runs EXCEPT ![r] = [AbsentRun("PENDING") EXCEPT
                                                          !.request = starting[c].request, !.task = t]]
                      /\ Started(t, r)
                      /\ createdFor' = IF fresh THEN createdFor ELSE [createdFor EXCEPT ![t] = r]
          /\ RememberStart(t, fresh)
    /\ starting' = [starting EXCEPT ![c] = None]
    /\ reply' = None
    /\ UNCHANGED <<bugs, issues>>

(* testRun.create rejects: the test case is no longer ready, or out of scope *)
FailStart(c) ==
    /\ starting[c] # None
    /\ CachedRun(starting[c].task, starting[c].fresh) = None
    /\ starting' = [starting EXCEPT ![c] = None]
    /\ reply' = None
    /\ UNCHANGED <<rows, remembered, createdFor>>

CompleteTask(t) ==
    /\ <<"complete", t>> \notin remembered
    /\ tasks[t].status \in Open
    /\ tasks' = [tasks EXCEPT ![t].status = "COMPLETED"]
    /\ remembered' = remembered \cup {<<"complete", t>>}
    /\ reply' = None
    /\ UNCHANGED <<runs, bugs, issues, createdFor, starting>>

-------------------------------------------------------------------------------
(* runIssueApi *)

CreateIssue(r) ==
    /\ Live(runs, r)
    /\ \E i \in Issue :
          /\ IsNext(issues, i)
          /\ issues' = [issues EXCEPT ![i] = [status |-> "OPEN", run |-> r]]
    /\ UNCHANGED <<runs, bugs, tasks>>
    /\ Plain

ResolveIssue(i) ==
    /\ Live(issues, i)
    /\ issues' = [issues EXCEPT ![i].status = "RESOLVED"]
    /\ UNCHANGED <<runs, bugs, tasks>>
    /\ Plain

-------------------------------------------------------------------------------
(* lockRunsForVersionHistory, called by a release decision and by publish *)

RunsOf(qs) == {r \in Run : Live(runs, r) /\ runs[r].request \in qs}

LockEvidence(qs) ==
    /\ runs' = [r \in Run |-> IF r \in RunsOf(qs)
                              THEN [runs[r] EXCEPT !.locked = TRUE, !.held = TRUE] ELSE runs[r]]
    /\ bugs' = [b \in Bug |-> IF bugs[b].run \in RunsOf(qs)
                              THEN [bugs[b] EXCEPT !.locked = TRUE, !.held = TRUE] ELSE bugs[b]]

DecisionLocks(q) ==
    /\ LockEvidence({q})
    /\ UNCHANGED <<tasks, issues>>
    /\ Plain

-------------------------------------------------------------------------------
Calls(method) == method \in Methods

RunMethods ==
    \/ Calls("testRun.create") /\ \E q \in Requests : CreateRun(q)
    \/ Calls("testRun.update") /\ \E r \in Run, q \in Requests :
           \E s \in RunInputs \cup {runs[r].status} : UpdateRun(r, q, s)
    \/ Calls("testRun.updateStatus") /\ \E r \in Run, s \in RunInputs : UpdateRunStatus(r, s)
    \/ Calls("unlock") /\ \E r \in Run : UnlockRun(r)
    \/ Calls("testRun.delete") /\ \E r \in Run : DeleteRun(r)

BugMethods ==
    \/ Calls("bug.create") /\ \E r \in Run, a \in BOOLEAN, v \in Severities : CreateBug(r, a, v)
    \/ Calls("bug.update") /\ \E b \in Bug, r \in Run, a \in BOOLEAN, v \in Severities :
           \E s \in BugInputs \cup {bugs[b].status} : UpdateBug(b, r, s, a, v)
    \/ Calls("bug.delete") /\ \E b \in Bug : DeleteBug(b)
    \/ Calls("bug.assign") /\ \E b \in Bug : AssignBug(b)
    \/ Calls("bug.updateStatus") /\ \E b \in Bug, s \in BugInputs : UpdateBugStatus(b, s)
    \/ Calls("bug.updateStatus") /\ \E b \in Bug : RestorePreviousStatus(b)
    \/ Calls("bug.close") /\ \E b \in Bug : CloseBug(b)
    \/ \E b \in Bug : SetFixedVersion(b)
    \/ \E b \in Bug : MarkReadyForRetest(b)
    \/ \E b \in Bug, passed \in BOOLEAN : Retest(b, passed)
    \/ Calls("unlock") /\ \E b \in Bug : UnlockBug(b)

TaskMethods ==
    \/ Calls("retestTask.ensureForBug") /\ \E b \in Bug : EnsureForBug(b)
    \/ \E c \in Callers, t \in Task, fresh \in {FALSE, FreshKeys} : StartTask(c, t, fresh)
    \/ \E c \in Callers : FinishStart(c)
    \/ \E c \in Callers : FailStart(c)
    \/ Calls("retestTask.complete") /\ \E t \in Task : CompleteTask(t)

IssueMethods ==
    \/ \E r \in Run : CreateIssue(r)
    \/ \E i \in Issue : ResolveIssue(i)

RetestNext ==
    \/ RunMethods
    \/ BugMethods
    \/ TaskMethods
    \/ IssueMethods
    \/ Calls("decide") /\ \E q \in Requests : DecisionLocks(q)

RetestSpec == RetestInit /\ [][RetestNext]_retestVars

-------------------------------------------------------------------------------
(* However often and concurrently a retest task is started with its         *)
(* default key, one run carries it (CORRECTED_ANALYSIS_FIX_TRACKER: the     *)
(* existing run is reused).  The cache of testRun.create, not the check in  *)
(* start, makes this so: start awaits between the check and the update.     *)
OneRunPerTask ==
    \A r1, r2 \in Run :
        /\ Live(runs, r1) /\ Live(runs, r2)
        /\ runs[r1].task # None
        /\ runs[r1].task = runs[r2].task
        => r1 = r2

(* The cascades of testRun.delete and bug.delete leave nothing dangling: a  *)
(* retest task's source run, created run and bugs are rows, a bug's and a   *)
(* run issue's run is a row, although start may finish after a deletion.    *)
NothingDangles ==
    /\ \A t \in Task : Live(tasks, t) =>
          /\ Live(runs, tasks[t].source)
          /\ tasks[t].created # None => Live(runs, tasks[t].created)
          /\ \A b \in tasks[t].bugs : Live(bugs, b)
    /\ \A b \in Bug : Live(bugs, b) => Live(runs, bugs[b].run)
    /\ \A i \in Issue : Live(issues, i) => Live(runs, issues[i].run)

(* What a release decision locked stays as decided: a run the decision      *)
(* covered is never deleted, even once unlocked; a locked run or bug keeps  *)
(* its status, and a locked bug its run, until an administrator unlocks it. *)
LockedEvidenceStays ==
    [][/\ \A r \in Run :
             /\ runs[r].held => Live(runs', r) /\ runs'[r].held
             /\ runs[r].locked /\ runs'[r].locked => runs'[r].status = runs[r].status
       /\ \A b \in Bug :
             bugs[b].locked =>
                /\ Live(bugs', b)
                /\ bugs'[b].locked =>
                      bugs'[b].status = bugs[b].status /\ bugs'[b].run = bugs[b].run
      ]_retestVars

(* PHASE_5_BACKEND_CONTRACTS: ready-for-retest sets the bug to RETEST_READY. *)
(* A caller that gets the bug back relies on it (DeveloperBoardPage).        *)
ReadyMeansReady ==
    \A b \in Bug : reply = <<"ready", b>> => bugs[b].status = "RETEST_READY"
===============================================================================
