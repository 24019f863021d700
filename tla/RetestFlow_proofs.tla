-------------------------- MODULE RetestFlow_proofs --------------------------
(***************************************************************************)
(* Proofs about RetestFlow, for every number of rows, set of requests,     *)
(* callers, statuses given by callers and methods called.  They are about  *)
(* the actions themselves, whichever of them Methods lets the callers use, *)
(* so that they carry over to the modules that extend RetestFlow.          *)
(***************************************************************************)
EXTENDS RetestFlow, TLAPS

RunAction ==
    \/ \E q \in Requests : CreateRun(q)
    \/ \E r \in Run, q \in Requests, s \in RunStatus \cup Absent :
           s \in RunInputs \cup {runs[r].status} /\ UpdateRun(r, q, s)
    \/ \E r \in Run, s \in RunInputs : UpdateRunStatus(r, s)
    \/ \E r \in Run : UnlockRun(r)
    \/ \E r \in Run : DeleteRun(r)
    \/ \E qs \in SUBSET Requests : LockEvidence(qs) /\ UNCHANGED <<tasks, issues>> /\ Plain

BugAction ==
    \/ \E r \in Run, a \in BOOLEAN, v \in Severities : CreateBug(r, a, v)
    \/ \E b \in Bug, r \in Run, a \in BOOLEAN, v \in Severities, s \in BugStatus \cup Absent :
           s \in BugInputs \cup {bugs[b].status} /\ UpdateBug(b, r, s, a, v)
    \/ \E b \in Bug : DeleteBug(b)
    \/ \E b \in Bug : AssignBug(b) \/ SetFixedVersion(b) \/ CloseBug(b) \/ RestorePreviousStatus(b)
    \/ \E b \in Bug, s \in BugInputs : UpdateBugStatus(b, s)
    \/ \E b \in Bug : MarkReadyForRetest(b)
    \/ \E b \in Bug, passed \in BOOLEAN : Retest(b, passed)
    \/ \E b \in Bug : UnlockBug(b)

TaskAction ==
    \/ \E b \in Bug : EnsureForBug(b)
    \/ \E c \in Callers, t \in Task, fresh \in {FALSE, FreshKeys} : StartTask(c, t, fresh)
    \/ \E c \in Callers : FinishStart(c)
    \/ \E c \in Callers : FailStart(c)
    \/ \E t \in Task : CompleteTask(t)

IssueAction ==
    \/ \E r \in Run : CreateIssue(r)
    \/ \E i \in Issue : ResolveIssue(i)

RetestAction == RunAction \/ BugAction \/ TaskAction \/ IssueAction

-------------------------------------------------------------------------------
(* The rows' types, and what else every step needs of the rows: a bug, a    *)
(* task and a run issue that exist belong to a run; a row that does not     *)
(* exist is linked to none and not locked.                                 *)
RunLinks == \A r \in Run : ~Live(runs, r) => ~runs[r].locked /\ ~runs[r].held
BugLinks == \A b \in Bug : IF Live(bugs, b) THEN bugs[b].run \in Run
                           ELSE bugs[b].run = None /\ ~bugs[b].locked
TaskLinks == \A t \in Task : Live(tasks, t) => tasks[t].source \in Run
IssueLinks == \A i \in Issue : Live(issues, i) => issues[i].run \in Run

RowsLinked == RunLinks /\ BugLinks /\ TaskLinks /\ IssueLinks

RetestInv == RetestTypeOK /\ RowsLinked

-------------------------------------------------------------------------------
(* Every step of RetestFlow is one of these actions. *)
LEMMA NextIsAction == RetestTypeOK /\ RetestNext => RetestAction
<1> SUFFICES ASSUME RetestTypeOK, RetestNext PROVE RetestAction
  OBVIOUS
<1>1. CASE RunMethods
  <2>1. \A r \in Run : RunInputs \cup {runs[r].status} \subseteq RunStatus \cup Absent
    BY RetestAssumption DEF RetestTypeOK, RunRow
  <2>2. QED
    BY <1>1, <2>1 DEF RunMethods, RetestAction, RunAction
<1>2. CASE BugMethods
  <2>1. \A b \in Bug : BugInputs \cup {bugs[b].status} \subseteq BugStatus \cup Absent
    BY RetestAssumption DEF RetestTypeOK, BugRow
  <2>2. QED
    BY <1>2, <2>1 DEF BugMethods, RetestAction, BugAction
<1>3. CASE TaskMethods
  BY <1>3 DEF TaskMethods, RetestAction, TaskAction
<1>4. CASE IssueMethods
  BY <1>4 DEF IssueMethods, RetestAction, IssueAction
<1>5. CASE \E q \in Requests : DecisionLocks(q)
  BY <1>5 DEF DecisionLocks, RetestAction, RunAction
<1>6. QED
  BY <1>1, <1>2, <1>3, <1>4, <1>5 DEF RetestNext

-------------------------------------------------------------------------------
(* The command cache, the suspended starts and the reply keep their types. *)
CommandsTyped ==
    /\ remembered \subseteq Key
    /\ createdFor \in [Task -> Run \cup {None}]
    /\ starting \in [Callers -> Start \cup {None}]
    /\ reply \in Key \cup {None}

RowsTyped ==
    /\ runs \in [Run -> RunRow]
    /\ bugs \in [Bug -> BugRow]
    /\ tasks \in [Task -> TaskRow]
    /\ issues \in [Issue -> IssueRow]

LEMMA TypedParts == RetestTypeOK <=> RowsTyped /\ CommandsTyped
  BY DEF RetestTypeOK, RowsTyped, CommandsTyped

LEMMA TypedPartsNext == RetestTypeOK' <=> RowsTyped' /\ CommandsTyped'
  BY DEF RetestTypeOK, RowsTyped, CommandsTyped

LEMMA PlainTyped == CommandsTyped /\ Plain => CommandsTyped'
  BY DEF CommandsTyped, Plain

LEMMA AnswerTyped ==
    ASSUME CommandsTyped, NEW k \in Key, Answer(k) PROVE CommandsTyped'
  BY DEF CommandsTyped, Answer

LEMMA Keys ==
    /\ \A b \in Bug : /\ <<"ready", b>> \in Key
                      /\ <<"ensure", b>> \in Key
                      /\ <<"unlockBug", b>> \in Key
    /\ \A t \in Task : <<"start", t>> \in Key /\ <<"complete", t>> \in Key
    /\ \A r \in Run : <<"unlockRun", r>> \in Key
  BY DEF Key

(* The rows that do not exist, and those a creation makes. *)
LEMMA NewRowsTyped ==
    /\ \A s \in Absent : /\ AbsentRun(s) \in RunRow
                         /\ AbsentBug(s) \in BugRow
                         /\ AbsentTask(s) \in TaskRow
                         /\ AbsentIssue(s) \in IssueRow
    /\ \A q \in Requests \cup {None}, t \in Task \cup {None} :
          [AbsentRun("PENDING") EXCEPT !.request = q, !.task = t] \in RunRow
    /\ \A q \in Requests : [AbsentRun("PENDING") EXCEPT !.request = q] \in RunRow
<1>1. \A s \in Absent : /\ AbsentRun(s) \in RunRow
                        /\ AbsentBug(s) \in BugRow
                        /\ AbsentTask(s) \in TaskRow
                        /\ AbsentIssue(s) \in IssueRow
  BY DEF AbsentRun, AbsentBug, AbsentTask, AbsentIssue, RunRow, BugRow, TaskRow, IssueRow
<1>2. ASSUME NEW q \in Requests \cup {None}, NEW t \in Task \cup {None}
      PROVE  [AbsentRun("PENDING") EXCEPT !.request = q, !.task = t] \in RunRow
  <2>1. AbsentRun("PENDING") \in RunRow
    BY DEF AbsentRun, RunRow, RunStatus
  <2>2. QED
    BY <2>1 DEF RunRow
<1>3. ASSUME NEW q \in Requests PROVE [AbsentRun("PENDING") EXCEPT !.request = q] \in RunRow
  <2>1. AbsentRun("PENDING") \in RunRow
    BY DEF AbsentRun, RunRow, RunStatus
  <2>2. QED
    BY <2>1 DEF RunRow
<1>4. QED
  BY <1>1, <1>2, <1>3

LEMMA RunActionTyped ==
    ASSUME RetestTypeOK, RunAction PROVE RetestTypeOK'
<1>0. RowsTyped /\ CommandsTyped
  BY TypedParts
<1>1. ASSUME NEW q \in Requests, CreateRun(q) PROVE RowsTyped' /\ CommandsTyped'
  BY <1>0, <1>1, PlainTyped, NewRowsTyped DEF CreateRun, RowsTyped
<1>2. ASSUME NEW r \in Run, NEW q \in Requests, NEW s \in RunStatus \cup Absent, UpdateRun(r, q, s)
      PROVE  RowsTyped' /\ CommandsTyped'
  BY <1>0, <1>2, PlainTyped DEF UpdateRun, RowsTyped, RunRow
<1>3. ASSUME NEW r \in Run, NEW s \in RunInputs, UpdateRunStatus(r, s)
      PROVE  RowsTyped' /\ CommandsTyped'
  BY <1>0, <1>3, PlainTyped, RetestAssumption DEF UpdateRunStatus, RowsTyped, RunRow
<1>4. ASSUME NEW r \in Run, UnlockRun(r) PROVE RowsTyped' /\ CommandsTyped'
  <2>1. runs' = runs \/ runs' = [runs EXCEPT ![r] = [runs[r] EXCEPT !.locked = FALSE]]
    BY <1>4 DEF UnlockRun
  <2>2. CommandsTyped'
    BY <1>0, <1>4, Keys, AnswerTyped DEF UnlockRun
  <2>3. runs' \in [Run -> RunRow]
    BY <1>0, <2>1 DEF RowsTyped, RunRow
  <2>4. QED
    BY <1>0, <1>4, <2>2, <2>3 DEF UnlockRun, RowsTyped
<1>5. ASSUME NEW r \in Run, DeleteRun(r) PROVE RowsTyped' /\ CommandsTyped'
  <2>1. "DELETED" \in Absent
    BY DEF Absent
  <2>2. QED
    BY <1>0, <1>5, <2>1, NewRowsTyped, PlainTyped DEF DeleteRun, RowsTyped
<1>6. ASSUME NEW qs \in SUBSET Requests, LockEvidence(qs), UNCHANGED <<tasks, issues>>, Plain
      PROVE  RowsTyped' /\ CommandsTyped'
  <2>1. runs' \in [Run -> RunRow]
    BY <1>0, <1>6 DEF LockEvidence, RowsTyped, RunRow
  <2>2. bugs' \in [Bug -> BugRow]
    BY <1>0, <1>6 DEF LockEvidence, RowsTyped, BugRow
  <2>3. QED
    BY <1>0, <1>6, <2>1, <2>2, PlainTyped DEF RowsTyped
<1>7. QED
  BY <1>1, <1>2, <1>3, <1>4, <1>5, <1>6, TypedPartsNext DEF RunAction

-------------------------------------------------------------------------------
LEMMA EnsureTyped ==
    ASSUME RowsTyped, NEW b \in Bug, NEW bs, EnsureRetestTask(b, bs), bs[b].run \in Run
    PROVE  tasks' \in [Task -> TaskRow]
<1> DEFINE r == bs[b].run
           queued == [AbsentTask("QUEUED") EXCEPT !.bugs = RelatedBugs(bs, r), !.source = r,
                                                  !.request = runs[r].request]
<1>1. RelatedBugs(bs, r) \subseteq Bug
  BY DEF RelatedBugs
<1>2. ASSUME NEW t PROVE MergedTasks(t, r, bs) \in [Task -> TaskRow]
  BY <1>1 DEF MergedTasks, RowsTyped, TaskRow
<1>3. queued \in TaskRow
  <2>1. runs[r].request \in Requests \cup {None}
    BY DEF RowsTyped, RunRow
  <2>2. AbsentTask("QUEUED") \in TaskRow
    BY DEF AbsentTask, TaskRow, Open
  <2>3. QED
    BY <1>1, <2>1, <2>2 DEF TaskRow
<1> HIDE DEF queued
<1>4. CASE UNCHANGED tasks
  BY <1>4 DEF RowsTyped
<1>5. CASE tasks' = MergedTasks(Max(OpenTasksFrom(r)), r, bs)
  BY <1>2, <1>5
<1>6. CASE \E t \in Task : tasks' = [tasks EXCEPT ![t] = queued]
  BY <1>3, <1>6 DEF RowsTyped
<1>7. QED
  BY <1>4, <1>5, <1>6 DEF EnsureRetestTask, queued

LEMMA MoveTyped ==
    ASSUME RowsTyped, CommandsTyped, NEW b \in Bug, NEW s \in BugStatus,
           NEW p \in BugStatus \cup {None}, MoveBug(b, s, p)
    PROVE  RowsTyped' /\ CommandsTyped'
  BY PlainTyped DEF MoveBug, SetBug, RowsTyped, BugRow

LEMMA BugActionTyped ==
    ASSUME RetestInv, BugAction PROVE RetestTypeOK'
<1>0. RowsTyped /\ CommandsTyped
  BY TypedParts DEF RetestInv
<1>1. ASSUME NEW r \in Run, NEW a \in BOOLEAN, NEW v \in Severities, CreateBug(r, a, v)
      PROVE  RowsTyped' /\ CommandsTyped'
  <2>1. ASSUME NEW s \in BugStatus
        PROVE  [AbsentBug(s) EXCEPT !.run = r, !.critical = v] \in BugRow
    <3>1. AbsentBug(s) \in BugRow
      BY DEF AbsentBug, BugRow
    <3>2. QED
      BY <3>1, RetestAssumption DEF BugRow
  <2>2. "ASSIGNED" \in BugStatus /\ "NEW" \in BugStatus
    BY DEF BugStatus
  <2>3. PICK b \in Bug, s \in BugStatus :
            bugs' = [bugs EXCEPT ![b] = [AbsentBug(s) EXCEPT !.run = r, !.critical = v]]
    BY <1>1, <2>2 DEF CreateBug, SetBug
  <2>4. bugs' \in [Bug -> BugRow]
    BY <1>0, <2>1, <2>3 DEF RowsTyped
  <2>5. QED
    BY <1>0, <1>1, <2>4, PlainTyped DEF CreateBug, RowsTyped
<1>2. ASSUME NEW b \in Bug, NEW r \in Run, NEW a \in BOOLEAN, NEW v \in Severities,
             NEW s \in BugStatus \cup Absent, UpdateBug(b, r, s, a, v)
      PROVE  RowsTyped' /\ CommandsTyped'
  <2>1. "ASSIGNED" \in BugStatus /\ v \in BOOLEAN
    BY RetestAssumption DEF BugStatus
  <2>2. PICK x \in BugStatus \cup Absent :
            bugs' = [bugs EXCEPT ![b] = [bugs[b] EXCEPT !.run = r, !.critical = v, !.status = x]]
    <3>1. bugs[b].status \in BugStatus \cup Absent
      BY <1>0 DEF RowsTyped, BugRow
    <3>2. CASE a
      BY <1>2, <2>1, <3>1, <3>2 DEF UpdateBug, SetBug
    <3>3. CASE ~a
      BY <1>2, <3>3 DEF UpdateBug, SetBug
    <3>4. QED
      BY <3>2, <3>3
  <2>3. bugs' \in [Bug -> BugRow]
    BY <1>0, <2>1, <2>2 DEF RowsTyped, BugRow
  <2>4. QED
    BY <1>0, <1>2, <2>3, PlainTyped DEF UpdateBug, RowsTyped
<1>3. ASSUME NEW b \in Bug, DeleteBug(b) PROVE RowsTyped' /\ CommandsTyped'
  <2>1. "DELETED" \in Absent
    BY DEF Absent
  <2>2. QED
    BY <1>0, <1>3, <2>1, NewRowsTyped, PlainTyped DEF DeleteBug, SetBug, RowsTyped
<1>4. ASSUME NEW b \in Bug, AssignBug(b) \/ SetFixedVersion(b) \/ CloseBug(b) \/ RestorePreviousStatus(b)
      PROVE  RowsTyped' /\ CommandsTyped'
  <2>1. bugs[b].previous \in BugStatus \cup {None}
    BY <1>0 DEF RowsTyped, BugRow
  <2>2. {"ASSIGNED", "FIXED", "CLOSED"} \subseteq BugStatus
    BY DEF BugStatus
  <2>3. CASE AssignBug(b)
    BY <1>0, <2>1, <2>2, <2>3, MoveTyped DEF AssignBug
  <2>4. CASE SetFixedVersion(b)
    BY <1>0, <2>1, <2>2, <2>4, MoveTyped DEF SetFixedVersion
  <2>5. CASE CloseBug(b)
    BY <1>0, <2>1, <2>2, <2>5, MoveTyped DEF CloseBug
  <2>6. CASE RestorePreviousStatus(b)
    BY <1>0, <2>1, <2>6, MoveTyped DEF RestorePreviousStatus
  <2>7. QED
    BY <1>4, <2>3, <2>4, <2>5, <2>6
<1>5. ASSUME NEW b \in Bug, NEW s \in BugInputs, UpdateBugStatus(b, s)
      PROVE  RowsTyped' /\ CommandsTyped'
  <2>1. s \in BugStatus
    BY RetestAssumption
  <2>2. bugs[b].previous \in BugStatus \cup {None} /\ bugs[b].status \in BugStatus \cup Absent
    BY <1>0 DEF RowsTyped, BugRow
  <2>3. Live(bugs, b)
    BY <1>5 DEF UpdateBugStatus, MoveBug
  <2>4. bugs[b].status \in BugStatus
    BY <2>2, <2>3 DEF Live
  <2>5. CASE s \notin Dismissed
    BY <1>0, <1>5, <2>1, <2>5, MoveTyped DEF UpdateBugStatus
  <2>6. CASE s \in Dismissed /\ bugs[b].status # s
    BY <1>0, <1>5, <2>1, <2>4, <2>6, MoveTyped DEF UpdateBugStatus
  <2>7. CASE s \in Dismissed /\ bugs[b].status = s
    BY <1>0, <1>5, <2>1, <2>2, <2>7, MoveTyped DEF UpdateBugStatus
  <2>8. QED
    BY <2>5, <2>6, <2>7
<1>6. ASSUME NEW b \in Bug, MarkReadyForRetest(b) PROVE RowsTyped' /\ CommandsTyped'
  <2>1. CommandsTyped'
    BY <1>0, <1>6, Keys, AnswerTyped DEF MarkReadyForRetest
  <2>2. CASE <<"ready", b>> \in remembered
    BY <1>0, <1>6, <2>1, <2>2 DEF MarkReadyForRetest, RowsTyped
  <2>3. CASE <<"ready", b>> \notin remembered
    <3>1. bugs' = [bugs EXCEPT ![b] = [bugs[b] EXCEPT !.status = "RETEST_READY"]]
      BY <1>6, <2>3 DEF MarkReadyForRetest, SetBug
    <3>2. bugs' \in [Bug -> BugRow]
      BY <1>0, <3>1 DEF RowsTyped, BugRow, BugStatus
    <3>3. bugs[b].run \in Run
      BY <1>6, <2>3 DEF MarkReadyForRetest, RetestInv, RowsLinked, BugLinks
    <3>4. bugs'[b].run \in Run
      BY <1>0, <3>1, <3>3 DEF RowsTyped, BugRow
    <3>5. EnsureRetestTask(b, bugs')
      BY <1>6, <2>3 DEF MarkReadyForRetest
    <3>6. tasks' \in [Task -> TaskRow]
      BY <1>0, <3>4, <3>5, EnsureTyped
    <3>7. QED
      BY <1>0, <1>6, <2>1, <3>2, <3>6 DEF MarkReadyForRetest, RowsTyped
  <2>4. QED
    BY <2>2, <2>3
<1>7. ASSUME NEW b \in Bug, NEW passed \in BOOLEAN, Retest(b, passed)
      PROVE  RowsTyped' /\ CommandsTyped'
  <2>1. bugs' \in [Bug -> BugRow]
    BY <1>0, <1>7 DEF Retest, SetBug, RowsTyped, BugRow, BugStatus
  <2>2. tasks' \in [Task -> TaskRow]
    BY <1>0, <1>7 DEF Retest, RowsTyped, TaskRow
  <2>3. QED
    BY <1>0, <1>7, <2>1, <2>2, PlainTyped DEF Retest, RowsTyped
<1>8. ASSUME NEW b \in Bug, UnlockBug(b) PROVE RowsTyped' /\ CommandsTyped'
  <2>1. CommandsTyped'
    BY <1>0, <1>8, Keys, AnswerTyped DEF UnlockBug
  <2>2. bugs' = bugs \/ bugs' = [bugs EXCEPT ![b] = [bugs[b] EXCEPT !.locked = FALSE]]
    BY <1>8 DEF UnlockBug, SetBug
  <2>3. bugs' \in [Bug -> BugRow]
    BY <1>0, <2>2 DEF RowsTyped, BugRow
  <2>4. QED
    BY <1>0, <1>8, <2>1, <2>3 DEF UnlockBug, RowsTyped
<1>9. QED
  BY <1>1, <1>2, <1>3, <1>4, <1>5, <1>6, <1>7, <1>8, TypedPartsNext DEF BugAction

-------------------------------------------------------------------------------
LEMMA StartedTyped ==
    ASSUME RowsTyped, NEW t \in Task, NEW r \in Run, Started(t, r)
    PROVE  tasks' \in [Task -> TaskRow]
<1>1. [tasks[t] EXCEPT !.status = "IN_PROGRESS", !.created = r] \in TaskRow
  BY DEF RowsTyped, TaskRow, Open
<1>2. tasks' = tasks
         \/ tasks' = [tasks EXCEPT ![t] = [tasks[t] EXCEPT !.status = "IN_PROGRESS", !.created = r]]
  BY DEF Started
<1>3. QED
  BY <1>1, <1>2 DEF RowsTyped

LEMMA TaskActionTyped ==
    ASSUME RetestInv, TaskAction PROVE RetestTypeOK'
<1>0. RowsTyped /\ CommandsTyped
  BY TypedParts DEF RetestInv
<1>1. ASSUME NEW b \in Bug, EnsureForBug(b) PROVE RowsTyped' /\ CommandsTyped'
  <2>1. bugs[b].run \in Run
    BY <1>1 DEF EnsureForBug, RetestInv, RowsLinked, BugLinks
  <2>2. EnsureRetestTask(b, bugs)
    BY <1>1 DEF EnsureForBug
  <2>3. tasks' \in [Task -> TaskRow]
    BY <1>0, <2>1, <2>2, EnsureTyped
  <2>4. CommandsTyped'
    BY <1>0, <1>1, Keys DEF EnsureForBug, CommandsTyped
  <2>5. QED
    BY <1>0, <1>1, <2>3, <2>4 DEF EnsureForBug, RowsTyped
<1>2. ASSUME NEW c \in Callers, NEW t \in Task, NEW fresh \in {FALSE, FreshKeys},
             StartTask(c, t, fresh)
      PROVE  RowsTyped' /\ CommandsTyped'
  <2>1. RowsTyped'
    BY <1>0, <1>2 DEF StartTask, rows, RowsTyped
  <2>2. [task |-> t, request |-> tasks[t].request, fresh |-> fresh] \in Start
    BY <1>0, RetestAssumption DEF Start, RowsTyped, TaskRow
  <2>3. CommandsTyped'
    BY <1>0, <1>2, <2>2, Keys DEF StartTask, RememberStart, CommandsTyped
  <2>4. QED
    BY <2>1, <2>3
<1>3. ASSUME NEW c \in Callers, FinishStart(c) PROVE RowsTyped' /\ CommandsTyped'
  <2> DEFINE t == starting[c].task
             fresh == starting[c].fresh
             carried(r) == [AbsentRun("PENDING") EXCEPT !.request = starting[c].request, !.task = t]
  <2>1. t \in Task /\ fresh \in BOOLEAN /\ starting[c].request \in Requests \cup {None}
    BY <1>0, <1>3 DEF FinishStart, CommandsTyped, Start
  <2>2. carried(1) \in RunRow
    BY <2>1, NewRowsTyped
  <2> HIDE DEF t, fresh
  <2>3. CASE CachedRun(t, fresh) # None
    <3>1. Started(t, createdFor[t]) /\ UNCHANGED <<runs, createdFor>>
      BY <1>3, <2>3 DEF FinishStart, t, fresh
    <3>2. createdFor[t] \in Run
      BY <1>0, <2>1, <2>3 DEF CachedRun, CommandsTyped
    <3>3. tasks' \in [Task -> TaskRow]
      BY <1>0, <2>1, <3>1, <3>2, StartedTyped
    <3>4. CommandsTyped'
      BY <1>0, <1>3, <2>1, <3>1, Keys DEF FinishStart, RememberStart, CommandsTyped, t, fresh
    <3>5. QED
      BY <1>0, <1>3, <3>1, <3>3, <3>4 DEF FinishStart, RowsTyped
  <2>4. CASE CachedRun(t, fresh) = None
    <3>1. PICK r \in Run : /\ runs' = [runs EXCEPT ![r] = carried(1)]
                           /\ Started(t, r)
                           /\ createdFor' = IF fresh THEN createdFor ELSE [createdFor EXCEPT ![t] = r]
      BY <1>3, <2>4 DEF FinishStart, t, fresh
    <3>2. runs' \in [Run -> RunRow]
      BY <1>0, <2>2, <3>1 DEF RowsTyped
    <3>3. tasks' \in [Task -> TaskRow]
      BY <1>0, <2>1, <3>1, StartedTyped
    <3>4. CommandsTyped'
      BY <1>0, <1>3, <2>1, <3>1, Keys DEF FinishStart, RememberStart, CommandsTyped, t, fresh
    <3>5. QED
      BY <1>0, <1>3, <3>2, <3>3, <3>4 DEF FinishStart, RowsTyped
  <2>5. QED
    BY <2>3, <2>4
<1>4. ASSUME NEW c \in Callers, FailStart(c) PROVE RowsTyped' /\ CommandsTyped'
  BY <1>0, <1>4 DEF FailStart, rows, RowsTyped, CommandsTyped
<1>5. ASSUME NEW t \in Task, CompleteTask(t) PROVE RowsTyped' /\ CommandsTyped'
  <2>1. tasks' \in [Task -> TaskRow]
    BY <1>0, <1>5 DEF CompleteTask, RowsTyped, TaskRow
  <2>2. CommandsTyped'
    BY <1>0, <1>5, Keys DEF CompleteTask, CommandsTyped
  <2>3. QED
    BY <1>0, <1>5, <2>1, <2>2 DEF CompleteTask, RowsTyped
<1>6. QED
  BY <1>1, <1>2, <1>3, <1>4, <1>5, TypedPartsNext DEF TaskAction

LEMMA IssueActionTyped ==
    ASSUME RetestInv, IssueAction PROVE RetestTypeOK'
<1>0. RowsTyped /\ CommandsTyped
  BY TypedParts DEF RetestInv
<1>1. ASSUME NEW r \in Run, CreateIssue(r) PROVE RowsTyped' /\ CommandsTyped'
  <2>1. [status |-> "OPEN", run |-> r] \in IssueRow
    BY DEF IssueRow
  <2>2. QED
    BY <1>0, <1>1, <2>1, PlainTyped DEF CreateIssue, RowsTyped
<1>2. ASSUME NEW i \in Issue, ResolveIssue(i) PROVE RowsTyped' /\ CommandsTyped'
  <2>1. issues' \in [Issue -> IssueRow]
    BY <1>0, <1>2 DEF ResolveIssue, RowsTyped, IssueRow
  <2>2. QED
    BY <1>0, <1>2, <2>1, PlainTyped DEF ResolveIssue, RowsTyped
<1>3. QED
  BY <1>1, <1>2, TypedPartsNext DEF IssueAction
-------------------------------------------------------------------------------
LEMMA Statuses ==
    /\ RunStatus \cap Absent = {} /\ BugStatus \cap Absent = {} /\ Open \cap Absent = {}
    /\ "COMPLETED" \notin Absent
    /\ "PENDING" \in RunStatus
    /\ \A s : /\ AbsentRun(s).status = s /\ ~AbsentRun(s).locked /\ ~AbsentRun(s).held
              /\ AbsentBug(s).status = s /\ AbsentBug(s).run = None /\ ~AbsentBug(s).locked
              /\ AbsentTask(s).status = s
              /\ AbsentIssue(s).status = s
    /\ "DELETED" \in Absent /\ "UNUSED" \in Absent
  BY DEF RunStatus, BugStatus, Open, Absent, AbsentRun, AbsentBug, AbsentTask, AbsentIssue

LEMMA RunActionLinked ==
    ASSUME RetestInv, RunAction PROVE RowsLinked'
<1>0. RowsTyped /\ RowsLinked
  BY TypedParts DEF RetestInv
<1> USE DEF RowsTyped, RowsLinked
<1>1. ASSUME UNCHANGED <<bugs, tasks, issues>>, RunLinks' PROVE RowsLinked'
  BY <1>0, <1>1 DEF BugLinks, TaskLinks, IssueLinks, Live
<1>2. ASSUME NEW q \in Requests, CreateRun(q) PROVE RowsLinked'
  <2>1. PICK r \in Run : runs' = [runs EXCEPT ![r] = [AbsentRun("PENDING") EXCEPT !.request = q]]
    BY <1>2 DEF CreateRun
  <2>2. RunLinks'
    BY <1>0, <2>1, Statuses DEF RunLinks, Live, RunRow, AbsentRun
  <2>3. QED
    BY <1>1, <1>2, <2>2 DEF CreateRun
<1>3. ASSUME NEW r \in Run, NEW q \in Requests, NEW s \in RunStatus \cup Absent, UpdateRun(r, q, s)
      PROVE  RowsLinked'
  <2>1. RunLinks'
    BY <1>0, <1>3 DEF UpdateRun, RunLinks, Live, RunRow
  <2>2. QED
    BY <1>1, <1>3, <2>1 DEF UpdateRun
<1>4. ASSUME NEW r \in Run, NEW s \in RunInputs, UpdateRunStatus(r, s) PROVE RowsLinked'
  <2>1. s \notin Absent
    BY RetestAssumption, Statuses
  <2>2. RunLinks'
    BY <1>0, <1>4, <2>1 DEF UpdateRunStatus, RunLinks, Live, RunRow
  <2>3. QED
    BY <1>1, <1>4, <2>2 DEF UpdateRunStatus
<1>5. ASSUME NEW r \in Run, UnlockRun(r) PROVE RowsLinked'
  <2>1. runs' = runs \/ (Live(runs, r) /\ runs' = [runs EXCEPT ![r] = [runs[r] EXCEPT !.locked = FALSE]])
    BY <1>5 DEF UnlockRun
  <2>2. RunLinks'
    BY <1>0, <2>1 DEF RunLinks, Live, RunRow
  <2>3. QED
    BY <1>1, <1>5, <2>2 DEF UnlockRun
<1>6. ASSUME NEW r \in Run, DeleteRun(r) PROVE RowsLinked'
  <2>1. RunLinks'
    BY <1>0, <1>6, Statuses DEF DeleteRun, RunLinks, Live
  <2>2. BugLinks'
    BY <1>0, <1>6, Statuses DEF DeleteRun, BugLinks, Live
  <2>3. TaskLinks'
    BY <1>0, <1>6, Statuses DEF DeleteRun, TaskLinks, Live
  <2>4. IssueLinks'
    BY <1>0, <1>6, Statuses DEF DeleteRun, IssueLinks, Live
  <2>5. QED
    BY <2>1, <2>2, <2>3, <2>4
<1>7. ASSUME NEW qs \in SUBSET Requests, LockEvidence(qs), UNCHANGED <<tasks, issues>>, Plain
      PROVE  RowsLinked'
  <2>1. RunLinks'
    BY <1>0, <1>7 DEF LockEvidence, RunLinks, Live, RunsOf, RunRow
  <2>2. \A b \in Bug : bugs[b].run \in RunsOf(qs) => Live(bugs, b)
    BY <1>0, RetestAssumption DEF BugLinks, RunsOf
  <2>3. BugLinks'
    BY <1>0, <1>7, <2>2 DEF LockEvidence, BugLinks, Live, BugRow
  <2>4. QED
    BY <1>0, <1>7, <2>1, <2>3 DEF TaskLinks, IssueLinks, Live
<1>8. QED
  BY <1>2, <1>3, <1>4, <1>5, <1>6, <1>7 DEF RunAction

LEMMA EnsureLinked ==
    ASSUME RowsTyped, TaskLinks, NEW b \in Bug, NEW bs, EnsureRetestTask(b, bs), bs[b].run \in Run
    PROVE  TaskLinks'
<1> DEFINE r == bs[b].run
           queued == [AbsentTask("QUEUED") EXCEPT !.bugs = RelatedBugs(bs, r), !.source = r,
                                                  !.request = runs[r].request]
<1> USE DEF RowsTyped, TaskLinks, Live
<1>1. queued.source = r
  BY DEF AbsentTask
<1> HIDE DEF queued
<1>2. CASE UNCHANGED tasks
  BY <1>2
<1>3. ASSUME NEW t, tasks' = MergedTasks(t, r, bs) PROVE TaskLinks'
  BY <1>3 DEF MergedTasks, TaskRow
<1>4. CASE \E t \in Task : tasks' = [tasks EXCEPT ![t] = queued]
  BY <1>1, <1>4
<1>5. QED
  BY <1>2, <1>3, <1>4 DEF EnsureRetestTask, queued

LEMMA MoveLinked ==
    ASSUME RowsTyped, RowsLinked, NEW b \in Bug, NEW s \in BugStatus, NEW p, MoveBug(b, s, p)
    PROVE  RowsLinked'
<1>1. BugLinks'
  BY Statuses DEF MoveBug, SetBug, RowsTyped, RowsLinked, BugLinks, BugRow, Live
<1>2. QED
  BY <1>1 DEF MoveBug, RowsLinked, RunLinks, TaskLinks, IssueLinks, Live

LEMMA BugActionLinked ==
    ASSUME RetestInv, BugAction PROVE RowsLinked'
<1>0. RowsTyped /\ RowsLinked
  BY TypedParts DEF RetestInv
<1> USE DEF RowsTyped, RowsLinked, SetBug
<1>1. ASSUME UNCHANGED <<runs, issues>>, BugLinks', TaskLinks' PROVE RowsLinked'
  BY <1>0, <1>1 DEF RunLinks, IssueLinks, Live
<1>2. UNCHANGED tasks => TaskLinks'
  BY <1>0 DEF TaskLinks, Live
<1>3. ASSUME NEW r \in Run, NEW a \in BOOLEAN, NEW v \in Severities, CreateBug(r, a, v)
      PROVE  RowsLinked'
  <2>1. PICK b \in Bug, s \in {"ASSIGNED", "NEW"} :
            bugs' = [bugs EXCEPT ![b] = [AbsentBug(s) EXCEPT !.run = r, !.critical = v]]
    BY <1>3 DEF CreateBug
  <2>2. LET row == [AbsentBug(s) EXCEPT !.run = r, !.critical = v]
        IN  row.run = r /\ row.status = s /\ s \notin Absent
    BY DEF AbsentBug, Absent
  <2>3. BugLinks'
    BY <1>0, <2>1, <2>2 DEF BugLinks, Live
  <2>4. QED
    BY <1>1, <1>2, <1>3, <2>3 DEF CreateBug
<1>4. ASSUME NEW b \in Bug, NEW r \in Run, NEW a \in BOOLEAN, NEW v \in Severities,
             NEW s \in BugStatus \cup Absent, s \in BugInputs \cup {bugs[b].status},
             UpdateBug(b, r, s, a, v)
      PROVE  RowsLinked'
  <2>1. s \notin Absent /\ bugs[b].status \notin Absent /\ "ASSIGNED" \notin Absent
    BY <1>4, RetestAssumption, Statuses DEF UpdateBug, Live, Absent
  <2>2. PICK x \in {s, bugs[b].status, "ASSIGNED"} :
            bugs' = [bugs EXCEPT ![b] = [bugs[b] EXCEPT !.run = r, !.critical = v, !.status = x]]
    BY <1>4 DEF UpdateBug
  <2>3. BugLinks'
    BY <1>0, <2>1, <2>2 DEF BugLinks, BugRow, Live
  <2>4. QED
    BY <1>1, <1>2, <1>4, <2>3 DEF UpdateBug
<1>5. ASSUME NEW b \in Bug, DeleteBug(b) PROVE RowsLinked'
  <2>1. BugLinks'
    BY <1>0, <1>5, Statuses DEF DeleteBug, BugLinks, Live
  <2>2. TaskLinks'
    BY <1>0, <1>5, Statuses DEF DeleteBug, TaskLinks, Live
  <2>3. QED
    BY <1>1, <1>5, <2>1, <2>2 DEF DeleteBug
<1>6. ASSUME NEW b \in Bug, AssignBug(b) \/ SetFixedVersion(b) \/ CloseBug(b) \/ RestorePreviousStatus(b)
      PROVE  RowsLinked'
  <2>1. CASE AssignBug(b) \/ SetFixedVersion(b) \/ CloseBug(b)
    <3>1. PICK x \in {"ASSIGNED", "FIXED", "CLOSED"} : \E y : MoveBug(b, x, y)
      BY <2>1 DEF AssignBug, SetFixedVersion, CloseBug
    <3>2. x \in BugStatus
      BY DEF BugStatus
    <3>3. QED
      BY <1>0, <3>1, <3>2, MoveLinked
  <2>2. CASE RestorePreviousStatus(b)
    <3>1. bugs[b].previous \in BugStatus
      BY <1>0, <2>2 DEF RestorePreviousStatus, BugRow
    <3>2. QED
      BY <1>0, <2>2, <3>1, MoveLinked DEF RestorePreviousStatus
  <2>3. QED
    BY <1>6, <2>1, <2>2
<1>7. ASSUME NEW b \in Bug, NEW s \in BugInputs, UpdateBugStatus(b, s) PROVE RowsLinked'
  <2>1. PICK p : MoveBug(b, s, p)
    BY <1>7 DEF UpdateBugStatus
  <2>2. s \in BugStatus
    BY RetestAssumption
  <2>3. QED
    BY <1>0, <2>1, <2>2, MoveLinked
<1>8. ASSUME NEW b \in Bug, MarkReadyForRetest(b) PROVE RowsLinked'
  <2>1. CASE <<"ready", b>> \in remembered
    BY <1>0, <1>8, <2>1 DEF MarkReadyForRetest, RunLinks, BugLinks, TaskLinks, IssueLinks, Live
  <2>2. CASE <<"ready", b>> \notin remembered
    <3>1. /\ bugs' = [bugs EXCEPT ![b] = [bugs[b] EXCEPT !.status = "RETEST_READY"]]
          /\ Live(bugs, b)
          /\ EnsureRetestTask(b, bugs')
      BY <1>8, <2>2 DEF MarkReadyForRetest
    <3>2. BugLinks'
      BY <1>0, <3>1 DEF BugLinks, BugRow, Live, Absent
    <3>3. bugs'[b].run \in Run
      BY <1>0, <3>1 DEF BugLinks, BugRow
    <3>4. TaskLinks'
      BY <1>0, <3>1, <3>3, EnsureLinked
    <3>5. QED
      BY <1>1, <1>8, <3>2, <3>4 DEF MarkReadyForRetest
  <2>3. QED
    BY <2>1, <2>2
<1>9. ASSUME NEW b \in Bug, NEW passed \in BOOLEAN, Retest(b, passed) PROVE RowsLinked'
  <2>1. PICK x \in {"RETEST_PASSED", "RETEST_FAILED"} :
            Live(bugs, b) /\ bugs' = [bugs EXCEPT ![b] = [bugs[b] EXCEPT !.status = x]]
    BY <1>9 DEF Retest
  <2>2. BugLinks'
    BY <1>0, <2>1 DEF BugLinks, BugRow, Live, Absent
  <2>3. TaskLinks'
    BY <1>0, <1>9, Statuses DEF Retest, TaskLinks, Live, TaskRow, CompletedBy, OpenTasksOf
  <2>4. QED
    BY <1>1, <1>9, <2>2, <2>3 DEF Retest
<1>10. ASSUME NEW b \in Bug, UnlockBug(b) PROVE RowsLinked'
  <2>1. bugs' = bugs \/ (Live(bugs, b) /\ bugs' = [bugs EXCEPT ![b] = [bugs[b] EXCEPT !.locked = FALSE]])
    BY <1>10 DEF UnlockBug
  <2>2. BugLinks'
    BY <1>0, <2>1 DEF BugLinks, BugRow, Live
  <2>3. QED
    BY <1>1, <1>2, <1>10, <2>2 DEF UnlockBug
<1>11. QED
  BY <1>3, <1>4, <1>5, <1>6, <1>7, <1>8, <1>9, <1>10 DEF BugAction

LEMMA StartedLinked ==
    ASSUME RowsTyped, TaskLinks, NEW t \in Task, NEW r \in Run, Started(t, r) PROVE TaskLinks'
  BY Statuses DEF Started, TaskLinks, RowsTyped, TaskRow, Live

LEMMA TaskActionLinked ==
    ASSUME RetestInv, TaskAction PROVE RowsLinked'
<1>0. RowsTyped /\ CommandsTyped /\ RowsLinked
  BY TypedParts DEF RetestInv
<1> USE DEF RowsTyped, RowsLinked
<1>1. ASSUME UNCHANGED <<runs, bugs, issues>>, TaskLinks' PROVE RowsLinked'
  BY <1>0, <1>1 DEF RunLinks, BugLinks, IssueLinks, Live
<1>2. UNCHANGED tasks => TaskLinks'
  BY <1>0 DEF TaskLinks, Live
<1>3. ASSUME NEW b \in Bug, EnsureForBug(b) PROVE RowsLinked'
  <2>1. bugs[b].run \in Run
    BY <1>0, <1>3 DEF EnsureForBug, BugLinks
  <2>2. EnsureRetestTask(b, bugs)
    BY <1>3 DEF EnsureForBug
  <2>3. TaskLinks'
    BY <1>0, <2>1, <2>2, EnsureLinked
  <2>4. QED
    BY <1>1, <1>3, <2>3 DEF EnsureForBug
<1>4. ASSUME NEW c \in Callers, NEW t \in Task, NEW fresh \in {FALSE, FreshKeys},
             StartTask(c, t, fresh)
      PROVE  RowsLinked'
  BY <1>1, <1>2, <1>4 DEF StartTask, rows
<1>5. ASSUME NEW c \in Callers, FinishStart(c) PROVE RowsLinked'
  <2> DEFINE t == starting[c].task
             fresh == starting[c].fresh
             carried == [AbsentRun("PENDING") EXCEPT !.request = starting[c].request, !.task = t]
  <2>1. t \in Task
    BY <1>0, <1>5 DEF FinishStart, CommandsTyped, Start
  <2>2. carried.status = "PENDING"
    BY DEF AbsentRun
  <2> HIDE DEF t, fresh, carried
  <2>3. CASE CachedRun(t, fresh) # None
    <3>1. Started(t, createdFor[t]) /\ UNCHANGED runs
      BY <1>5, <2>3 DEF FinishStart, t, fresh
    <3>2. createdFor[t] \in Run
      BY <1>0, <2>1, <2>3 DEF CachedRun, CommandsTyped
    <3>3. TaskLinks'
      BY <1>0, <2>1, <3>1, <3>2, StartedLinked
    <3>4. QED
      BY <1>1, <1>5, <3>1, <3>3 DEF FinishStart
  <2>4. CASE CachedRun(t, fresh) = None
    <3>1. PICK r \in Run : runs' = [runs EXCEPT ![r] = carried] /\ Started(t, r)
      BY <1>5, <2>4 DEF FinishStart, t, fresh, carried
    <3>2. TaskLinks'
      BY <1>0, <2>1, <3>1, StartedLinked
    <3>3. RunLinks'
      BY <1>0, <2>2, <3>1, Statuses DEF RunLinks, Live
    <3>4. QED
      BY <1>0, <1>5, <3>2, <3>3 DEF FinishStart, BugLinks, IssueLinks, Live
  <2>5. QED
    BY <2>3, <2>4
<1>6. ASSUME NEW c \in Callers, FailStart(c) PROVE RowsLinked'
  BY <1>1, <1>2, <1>6 DEF FailStart, rows
<1>7. ASSUME NEW t \in Task, CompleteTask(t) PROVE RowsLinked'
  <2>1. TaskLinks'
    BY <1>0, <1>7, Statuses DEF CompleteTask, TaskLinks, TaskRow, Live
  <2>2. QED
    BY <1>1, <1>7, <2>1 DEF CompleteTask
<1>8. QED
  BY <1>3, <1>4, <1>5, <1>6, <1>7 DEF TaskAction

LEMMA IssueActionLinked ==
    ASSUME RetestInv, IssueAction PROVE RowsLinked'
<1>0. RowsTyped /\ RowsLinked
  BY TypedParts DEF RetestInv
<1> USE DEF RowsTyped, RowsLinked
<1>1. ASSUME UNCHANGED <<runs, bugs, tasks>>, IssueLinks' PROVE RowsLinked'
  BY <1>0, <1>1 DEF RunLinks, BugLinks, TaskLinks, Live
<1>2. ASSUME NEW r \in Run, CreateIssue(r) PROVE RowsLinked'
  <2>1. PICK i \in Issue : issues' = [issues EXCEPT ![i] = [status |-> "OPEN", run |-> r]]
    BY <1>2 DEF CreateIssue
  <2>2. IssueLinks'
    BY <1>0, <2>1 DEF IssueLinks, Live
  <2>3. QED
    BY <1>1, <1>2, <2>2 DEF CreateIssue
<1>3. ASSUME NEW i \in Issue, ResolveIssue(i) PROVE RowsLinked'
  <2>1. IssueLinks'
    BY <1>0, <1>3 DEF ResolveIssue, IssueLinks, IssueRow, Live
  <2>2. QED
    BY <1>1, <1>3, <2>1 DEF ResolveIssue
<1>4. QED
  BY <1>2, <1>3 DEF IssueAction

-------------------------------------------------------------------------------
(* RetestInv is inductive for the actions, whichever module takes them. *)
LEMMA ActionKeepsInv == RetestInv /\ RetestAction => RetestInv'
<1>1. RetestInv => RetestTypeOK
  BY DEF RetestInv
<1>2. RetestTypeOK' /\ RowsLinked' => RetestInv'
  BY DEF RetestInv
<1>3. QED
  BY <1>1, <1>2, RunActionTyped, BugActionTyped, TaskActionTyped, IssueActionTyped,
     RunActionLinked, BugActionLinked, TaskActionLinked, IssueActionLinked DEF RetestAction

LEMMA StutterKeepsInv == RetestInv /\ UNCHANGED retestVars => RetestInv'
  BY DEF RetestInv, RetestTypeOK, RowsLinked, RunLinks, BugLinks, TaskLinks, IssueLinks, Live,
         retestVars

LEMMA InitInv == RetestInit => RetestInv
<1> SUFFICES ASSUME RetestInit PROVE RetestInv
  OBVIOUS
<1>1. RowsTyped
  BY NewRowsTyped, Statuses DEF RetestInit, RowsTyped
<1>2. CommandsTyped
  BY DEF RetestInit, CommandsTyped
<1>3. RowsLinked
  BY Statuses DEF RetestInit, RowsLinked, RunLinks, BugLinks, TaskLinks, IssueLinks, Live
<1>4. QED
  BY <1>1, <1>2, <1>3, TypedParts DEF RetestInv

THEOREM RetestInvariant == RetestSpec => []RetestInv
<1>1. RetestInv /\ [RetestNext]_retestVars => RetestInv'
  BY NextIsAction, ActionKeepsInv, StutterKeepsInv DEF RetestInv
<1>2. QED
  BY InitInv, <1>1, PTL DEF RetestSpec

(* In every reachable state the rows, the command cache and the suspended  *)
(* starts have their types, however many rows, callers and requests.       *)
THEOREM RetestTyped == RetestSpec => []RetestTypeOK
<1>1. RetestInv => RetestTypeOK
  BY DEF RetestInv
<1>2. QED
  BY RetestInvariant, <1>1, PTL

-------------------------------------------------------------------------------
(* What lockRunsForVersionHistory locked stays as it was decided. *)
RunStays(r) ==
    /\ runs[r].held => Live(runs', r) /\ runs'[r].held
    /\ runs[r].locked /\ runs'[r].locked => runs'[r].status = runs[r].status
BugStays(b) ==
    bugs[b].locked =>
        /\ Live(bugs', b)
        /\ bugs'[b].locked => bugs'[b].status = bugs[b].status /\ bugs'[b].run = bugs[b].run
EvidenceStays == (\A r \in Run : RunStays(r)) /\ (\A b \in Bug : BugStays(b))

LEMMA LiveWhenLocked ==
    ASSUME RetestInv
    PROVE  /\ \A r \in Run : runs[r].held \/ runs[r].locked => Live(runs, r)
           /\ \A b \in Bug : bugs[b].locked => Live(bugs, b)
  BY DEF RetestInv, RowsLinked, RunLinks, BugLinks

LEMMA RunsUntouchedStay == UNCHANGED runs /\ RetestInv => \A r \in Run : RunStays(r)
  BY LiveWhenLocked DEF RunStays, Live

LEMMA BugsUntouchedStay == UNCHANGED bugs /\ RetestInv => \A b \in Bug : BugStays(b)
  BY LiveWhenLocked DEF BugStays, Live

LEMMA RunActionLocks == RetestInv /\ RunAction => EvidenceStays
<1> SUFFICES ASSUME RetestInv, RunAction PROVE EvidenceStays
  OBVIOUS
<1>0. RowsTyped /\ RowsLinked
  BY TypedParts DEF RetestInv
<1>1. ASSUME UNCHANGED bugs, \A r \in Run : RunStays(r) PROVE EvidenceStays
  BY <1>1, BugsUntouchedStay DEF EvidenceStays
<1>2. ASSUME NEW q \in Requests, CreateRun(q) PROVE EvidenceStays
  <2>1. PICK r \in Run : /\ runs[r].status = "UNUSED"
                         /\ runs' = [runs EXCEPT ![r] = [AbsentRun("PENDING") EXCEPT !.request = q]]
    BY <1>2 DEF CreateRun, IsNext
  <2>2. ~runs[r].held /\ ~runs[r].locked
    BY <2>1, LiveWhenLocked, Statuses DEF Live
  <2>3. \A x \in Run : RunStays(x)
    BY <1>0, <2>1, <2>2, LiveWhenLocked DEF RunStays, Live, RowsTyped
  <2>4. QED
    BY <1>1, <1>2, <2>3 DEF CreateRun
<1>3. ASSUME NEW r \in Run, NEW q \in Requests, NEW s \in RunStatus \cup Absent, UpdateRun(r, q, s)
      PROVE  EvidenceStays
  <2>1. \A x \in Run : RunStays(x)
    BY <1>0, <1>3, LiveWhenLocked DEF UpdateRun, RunStays, Live, RowsTyped
  <2>2. QED
    BY <1>1, <1>3, <2>1 DEF UpdateRun
<1>4. ASSUME NEW r \in Run, NEW s \in RunInputs, UpdateRunStatus(r, s) PROVE EvidenceStays
  <2>1. s \notin Absent
    BY RetestAssumption, Statuses
  <2>2. \A x \in Run : RunStays(x)
    BY <1>0, <1>4, <2>1, LiveWhenLocked DEF UpdateRunStatus, RunStays, Live, RowsTyped, RunRow
  <2>3. QED
    BY <1>1, <1>4, <2>2 DEF UpdateRunStatus
<1>5. ASSUME NEW r \in Run, UnlockRun(r) PROVE EvidenceStays
  <2>1. runs' = runs \/ (Live(runs, r) /\ runs' = [runs EXCEPT ![r] = [runs[r] EXCEPT !.locked = FALSE]])
    BY <1>5 DEF UnlockRun
  <2>2. \A x \in Run : RunStays(x)
    BY <1>0, <2>1, LiveWhenLocked DEF RunStays, Live, RowsTyped, RunRow
  <2>3. QED
    BY <1>1, <1>5, <2>2 DEF UnlockRun
<1>6. ASSUME NEW r \in Run, DeleteRun(r) PROVE EvidenceStays
  <2>1. ~runs[r].locked /\ ~runs[r].held /\ \A b \in BugsOf(r) : ~bugs[b].locked
    BY <1>6 DEF DeleteRun, CanDeleteRunCascade
  <2>2. \A x \in Run : RunStays(x)
    BY <1>0, <1>6, <2>1, LiveWhenLocked DEF DeleteRun, RunStays, Live, RowsTyped
  <2>3. \A b \in Bug : BugStays(b)
    BY <1>0, <1>6, <2>1, LiveWhenLocked DEF DeleteRun, BugStays, Live, RowsTyped
  <2>4. QED
    BY <2>2, <2>3 DEF EvidenceStays
<1>7. ASSUME NEW qs \in SUBSET Requests, LockEvidence(qs) PROVE EvidenceStays
  <2>1. \A x \in Run : RunStays(x)
    BY <1>0, <1>7, LiveWhenLocked DEF LockEvidence, RunStays, Live, RowsTyped, RunRow
  <2>2. \A b \in Bug : BugStays(b)
    BY <1>0, <1>7, LiveWhenLocked DEF LockEvidence, BugStays, Live, RowsTyped, BugRow
  <2>3. QED
    BY <2>1, <2>2 DEF EvidenceStays
<1>8. QED
  BY <1>2, <1>3, <1>4, <1>5, <1>6, <1>7 DEF RunAction

LEMMA OneBugMoves ==
    ASSUME RetestInv, NEW b \in Bug, ~bugs[b].locked, NEW row, bugs' = [bugs EXCEPT ![b] = row]
    PROVE  \A x \in Bug : BugStays(x)
  BY LiveWhenLocked, TypedParts DEF BugStays, Live, RowsTyped, RetestInv

LEMMA BugActionLocks == RetestInv /\ BugAction => EvidenceStays
<1> SUFFICES ASSUME RetestInv, BugAction PROVE EvidenceStays
  OBVIOUS
<1>0. RowsTyped /\ RowsLinked
  BY TypedParts DEF RetestInv
<1>1. ASSUME UNCHANGED runs, \A b \in Bug : BugStays(b) PROVE EvidenceStays
  BY <1>1, RunsUntouchedStay DEF EvidenceStays
<1>2. ASSUME NEW r \in Run, NEW a \in BOOLEAN, NEW v \in Severities, CreateBug(r, a, v)
      PROVE  EvidenceStays
  <2>1. PICK b \in Bug : bugs[b].status = "UNUSED" /\ \E row : bugs' = [bugs EXCEPT ![b] = row]
    BY <1>2 DEF CreateBug, SetBug, IsNext
  <2>2. ~bugs[b].locked
    BY <2>1, LiveWhenLocked, Statuses DEF Live
  <2>3. QED
    BY <1>1, <1>2, <2>1, <2>2, OneBugMoves DEF CreateBug
<1>3. ASSUME NEW b \in Bug, NEW s, NEW p, MoveBug(b, s, p) PROVE EvidenceStays
  BY <1>1, <1>3, OneBugMoves DEF MoveBug, SetBug
<1>4. ASSUME NEW b \in Bug, NEW r \in Run, NEW a \in BOOLEAN, NEW v \in Severities, NEW s,
             UpdateBug(b, r, s, a, v)
      PROVE  EvidenceStays
  BY <1>1, <1>4, OneBugMoves DEF UpdateBug, SetBug
<1>5. ASSUME NEW b \in Bug, DeleteBug(b) PROVE EvidenceStays
  BY <1>1, <1>5, OneBugMoves DEF DeleteBug, SetBug
<1>6. ASSUME NEW b \in Bug, AssignBug(b) \/ SetFixedVersion(b) \/ CloseBug(b) \/ RestorePreviousStatus(b)
      PROVE  EvidenceStays
  BY <1>3, <1>6 DEF AssignBug, SetFixedVersion, CloseBug, RestorePreviousStatus
<1>7. ASSUME NEW b \in Bug, NEW s \in BugInputs, UpdateBugStatus(b, s) PROVE EvidenceStays
  BY <1>3, <1>7 DEF UpdateBugStatus
<1>8. ASSUME NEW b \in Bug, MarkReadyForRetest(b) PROVE EvidenceStays
  <2>1. UNCHANGED bugs \/ (/\ ~bugs[b].locked
                           /\ bugs' = [bugs EXCEPT ![b] = [bugs[b] EXCEPT !.status = "RETEST_READY"]])
    BY <1>8 DEF MarkReadyForRetest, SetBug
  <2>2. \A x \in Bug : BugStays(x)
    BY <2>1, OneBugMoves, BugsUntouchedStay
  <2>3. QED
    BY <1>1, <1>8, <2>2 DEF MarkReadyForRetest
<1>9. ASSUME NEW b \in Bug, NEW passed \in BOOLEAN, Retest(b, passed) PROVE EvidenceStays
  BY <1>1, <1>9, OneBugMoves DEF Retest, SetBug
<1>10. ASSUME NEW b \in Bug, UnlockBug(b) PROVE EvidenceStays
  <2>1. UNCHANGED bugs \/ bugs' = [bugs EXCEPT ![b] = [bugs[b] EXCEPT !.locked = FALSE]]
    BY <1>10 DEF UnlockBug, SetBug
  <2>2. \A x \in Bug : BugStays(x)
    BY <1>0, <2>1, LiveWhenLocked DEF BugStays, Live, RowsTyped, BugRow
  <2>3. QED
    BY <1>1, <1>10, <2>2 DEF UnlockBug
<1>11. QED
  BY <1>2, <1>4, <1>5, <1>6, <1>7, <1>8, <1>9, <1>10 DEF BugAction

LEMMA TaskActionLocks == RetestInv /\ TaskAction => EvidenceStays
<1> SUFFICES ASSUME RetestInv, TaskAction PROVE EvidenceStays
  OBVIOUS
<1>1. UNCHANGED bugs
  BY DEF TaskAction, EnsureForBug, StartTask, FinishStart, FailStart, CompleteTask, rows
<1>2. UNCHANGED runs \/ \E r \in Run : /\ runs[r].status = "UNUSED"
                                       /\ \E row : runs' = [runs EXCEPT ![r] = row]
  <2>1. ASSUME NEW c \in Callers, FinishStart(c)
        PROVE  UNCHANGED runs \/ \E r \in Run : /\ runs[r].status = "UNUSED"
                                                /\ \E row : runs' = [runs EXCEPT ![r] = row]
    BY <2>1 DEF FinishStart, IsNext
  <2>2. QED
    BY <2>1 DEF TaskAction, EnsureForBug, StartTask, FailStart, CompleteTask, rows
<1>3. \A r \in Run : RunStays(r)
  <2>1. CASE UNCHANGED runs
    BY <2>1, RunsUntouchedStay
  <2>2. ASSUME NEW r \in Run, NEW row, runs[r].status = "UNUSED", runs' = [runs EXCEPT ![r] = row]
        PROVE  \A x \in Run : RunStays(x)
    <3>1. ~runs[r].held /\ ~runs[r].locked
      BY <2>2, LiveWhenLocked, Statuses DEF Live
    <3>2. QED
      BY <2>2, <3>1, LiveWhenLocked, TypedParts DEF RunStays, Live, RowsTyped, RetestInv
  <2>3. QED
    BY <1>2, <2>1, <2>2
<1>4. QED
  BY <1>1, <1>3, BugsUntouchedStay DEF EvidenceStays

LEMMA IssueActionLocks == RetestInv /\ IssueAction => EvidenceStays
  BY RunsUntouchedStay, BugsUntouchedStay
     DEF IssueAction, CreateIssue, ResolveIssue, EvidenceStays

LEMMA ActionKeepsEvidence == RetestInv /\ RetestAction => EvidenceStays
  BY RunActionLocks, BugActionLocks, TaskActionLocks, IssueActionLocks DEF RetestAction

(* No step of any caller changes the status of a locked run or bug, moves a *)
(* locked bug to another run, or removes a run that was part of a decision. *)
THEOREM LockedEvidenceHolds == RetestSpec => LockedEvidenceStays
<1>1. RetestInv /\ [RetestNext]_retestVars => [EvidenceStays]_retestVars
  BY NextIsAction, ActionKeepsEvidence DEF RetestInv
<1>2. RetestSpec => [][EvidenceStays]_retestVars
  BY RetestInvariant, <1>1, PTL DEF RetestSpec
<1>3. QED
  BY <1>2, PTL DEF LockedEvidenceStays, EvidenceStays, RunStays, BugStays

-------------------------------------------------------------------------------
(* One run per task, when every caller starts a task with its default key: *)
(* testRun.create remembers the run it made for the task, and that is the   *)
(* run every later or concurrent start gets.                                *)
RunIsRemembered ==
    \A r \in Run : Live(runs, r) /\ runs[r].task # None => createdFor[runs[r].task] = r
StartsUseDefaultKey == \A c \in Callers : starting[c] # None => ~starting[c].fresh

OneRunInv == RetestInv /\ RunIsRemembered /\ StartsUseDefaultKey

LEMMA RememberedOnce == RetestInv /\ RunIsRemembered => OneRunPerTask
  BY DEF OneRunPerTask, RunIsRemembered

(* Except for FinishStart, a step that makes or changes a run leaves its    *)
(* task alone, and createdFor is FinishStart's.                             *)
LEMMA OtherStepsRemember ==
    ASSUME RetestInv, RetestAction, \A c \in Callers : ~FinishStart(c)
    PROVE  /\ UNCHANGED createdFor
           /\ \A r \in Run : Live(runs', r) /\ runs'[r].task # None =>
                 Live(runs, r) /\ runs'[r].task = runs[r].task
<1> DEFINE Kept == \A r \in Run : Live(runs', r) /\ runs'[r].task # None =>
                       Live(runs, r) /\ runs'[r].task = runs[r].task
<1>0. RowsTyped
  BY TypedParts DEF RetestInv
<1>1. UNCHANGED runs => Kept
  BY DEF Live
<1>2. CASE BugAction
  <2>1. UNCHANGED <<runs, createdFor>>
    BY <1>2 DEF BugAction, CreateBug, UpdateBug, DeleteBug, AssignBug, SetFixedVersion, CloseBug,
          RestorePreviousStatus, UpdateBugStatus, MoveBug, MarkReadyForRetest, Retest, UnlockBug,
          Plain, Answer
  <2>2. QED
    BY <1>1, <2>1
<1>3. CASE TaskAction
  <2>1. UNCHANGED <<runs, createdFor>>
    BY <1>3 DEF TaskAction, EnsureForBug, StartTask, FailStart, CompleteTask, rows
  <2>2. QED
    BY <1>1, <2>1
<1>4. CASE IssueAction
  <2>1. UNCHANGED <<runs, createdFor>>
    BY <1>4 DEF IssueAction, CreateIssue, ResolveIssue, Plain
  <2>2. QED
    BY <1>1, <2>1
<1>5. CASE RunAction
  <2>1. UNCHANGED createdFor
    BY <1>5 DEF RunAction, CreateRun, UpdateRun, UpdateRunStatus, UnlockRun, DeleteRun, Plain, Answer
  <2>2. ASSUME NEW q \in Requests, CreateRun(q) PROVE Kept
    <3>1. PICK r \in Run : runs' = [runs EXCEPT ![r] = [AbsentRun("PENDING") EXCEPT !.request = q]]
      BY <2>2 DEF CreateRun
    <3>2. [AbsentRun("PENDING") EXCEPT !.request = q].task = None
      BY DEF AbsentRun
    <3>3. QED
      BY <1>0, <3>1, <3>2 DEF RowsTyped, Live
  <2>3. ASSUME NEW r \in Run, NEW q \in Requests, NEW s, UpdateRun(r, q, s) PROVE Kept
    BY <1>0, <2>3 DEF UpdateRun, RowsTyped, RunRow, Live
  <2>4. ASSUME NEW r \in Run, NEW s \in RunInputs, UpdateRunStatus(r, s) PROVE Kept
    BY <1>0, <2>4 DEF UpdateRunStatus, RowsTyped, RunRow, Live
  <2>5. ASSUME NEW r \in Run, UnlockRun(r) PROVE Kept
    <3>1. runs' = runs \/ runs' = [runs EXCEPT ![r] = [runs[r] EXCEPT !.locked = FALSE]]
      BY <2>5 DEF UnlockRun
    <3>2. QED
      BY <1>0, <3>1 DEF RowsTyped, RunRow, Live
  <2>6. ASSUME NEW r \in Run, DeleteRun(r) PROVE Kept
    BY <1>0, <2>6, Statuses DEF DeleteRun, RowsTyped, Live
  <2>7. ASSUME NEW qs, LockEvidence(qs) PROVE Kept
    BY <1>0, <2>7 DEF LockEvidence, RowsTyped, RunRow, Live
  <2>8. QED
    BY <1>5, <2>1, <2>2, <2>3, <2>4, <2>5, <2>6, <2>7 DEF RunAction
<1>6. QED
  BY <1>2, <1>3, <1>4, <1>5 DEF RetestAction

LEMMA FinishRemembers ==
    ASSUME OneRunInv, NEW c \in Callers, FinishStart(c) PROVE RunIsRemembered'
<1> DEFINE t == starting[c].task
           carried == [AbsentRun("PENDING") EXCEPT !.request = starting[c].request, !.task = t]
<1>0. RowsTyped /\ CommandsTyped
  BY TypedParts DEF OneRunInv, RetestInv
<1>1. t \in Task /\ ~starting[c].fresh
  BY <1>0 DEF FinishStart, CommandsTyped, Start, OneRunInv, StartsUseDefaultKey
<1>2. carried.task = t
  BY DEF AbsentRun
<1> HIDE DEF t, carried
<1>3. CASE createdFor[t] # None
  BY <1>1, <1>3 DEF FinishStart, CachedRun, OneRunInv, RunIsRemembered, Live, t
<1>4. CASE createdFor[t] = None
  <2>1. PICK r \in Run : /\ runs' = [runs EXCEPT ![r] = carried]
                         /\ createdFor' = [createdFor EXCEPT ![t] = r]
    BY <1>1, <1>4 DEF FinishStart, CachedRun, t, carried
  <2>2. ASSUME NEW x \in Run, Live(runs', x), runs'[x].task # None
        PROVE  createdFor'[runs'[x].task] = x
    <3>1. CASE x = r
      BY <1>0, <1>1, <1>2, <2>1, <3>1 DEF RowsTyped, CommandsTyped
    <3>2. CASE x # r
      <4>1. runs'[x] = runs[x] /\ Live(runs, x)
        BY <1>0, <2>1, <2>2, <3>2 DEF RowsTyped, Live
      <4>2. createdFor[runs[x].task] = x
        BY <2>2, <4>1 DEF OneRunInv, RunIsRemembered
      <4>3. runs[x].task # t /\ runs[x].task \in Task
        BY <1>0, <1>4, <2>2, <4>1, <4>2, RetestAssumption DEF RowsTyped, RunRow
      <4>4. QED
        BY <1>0, <2>1, <4>1, <4>2, <4>3 DEF CommandsTyped
    <3>3. QED
      BY <3>1, <3>2
  <2>3. QED
    BY <2>2 DEF RunIsRemembered
<1>5. QED
  BY <1>3, <1>4

LEMMA StartsKeepDefaultKey ==
    ASSUME ~FreshKeys, OneRunInv, RetestAction PROVE StartsUseDefaultKey'
<1>0. CommandsTyped
  BY TypedParts DEF OneRunInv, RetestInv
<1> USE DEF OneRunInv, StartsUseDefaultKey
<1>1. UNCHANGED starting => StartsUseDefaultKey'
  OBVIOUS
<1>2. ASSUME NEW c \in Callers, NEW t \in Task, NEW fresh \in {FALSE, FreshKeys}, StartTask(c, t, fresh)
      PROVE  StartsUseDefaultKey'
  <2>1. fresh = FALSE
    BY RetestAssumption
  <2>2. UNCHANGED starting
           \/ starting' = [starting EXCEPT ![c] = [task |-> t, request |-> tasks[t].request, fresh |-> FALSE]]
    BY <1>2, <2>1 DEF StartTask
  <2>3. QED
    BY <1>0, <1>1, <2>2 DEF CommandsTyped
<1>3. ASSUME NEW c \in Callers, FinishStart(c) \/ FailStart(c) PROVE StartsUseDefaultKey'
  <2>1. starting' = [starting EXCEPT ![c] = None]
    BY <1>3 DEF FinishStart, FailStart
  <2>2. QED
    BY <1>0, <2>1 DEF CommandsTyped
<1>4. CASE TaskAction
  BY <1>1, <1>2, <1>3, <1>4 DEF TaskAction, EnsureForBug, CompleteTask
<1>5. CASE RunAction
  BY <1>1, <1>5 DEF RunAction, CreateRun, UpdateRun, UpdateRunStatus, UnlockRun, DeleteRun, Plain, Answer
<1>6. CASE BugAction
  BY <1>1, <1>6 DEF BugAction, CreateBug, UpdateBug, DeleteBug, AssignBug, SetFixedVersion, CloseBug,
        RestorePreviousStatus, UpdateBugStatus, MoveBug, MarkReadyForRetest, Retest, UnlockBug,
        Plain, Answer
<1>7. CASE IssueAction
  BY <1>1, <1>7 DEF IssueAction, CreateIssue, ResolveIssue, Plain
<1>8. QED
  BY <1>4, <1>5, <1>6, <1>7 DEF RetestAction

LEMMA ActionKeepsOneRun ==
    ASSUME ~FreshKeys PROVE OneRunInv /\ RetestAction => OneRunInv'
<1> SUFFICES ASSUME OneRunInv, RetestAction PROVE OneRunInv'
  OBVIOUS
<1>1. RetestInv /\ RetestInv'
  BY ActionKeepsInv DEF OneRunInv
<1>2. StartsUseDefaultKey'
  BY StartsKeepDefaultKey
<1>3. CASE \E c \in Callers : FinishStart(c)
  BY <1>1, <1>2, <1>3, FinishRemembers DEF OneRunInv
<1>4. CASE \A c \in Callers : ~FinishStart(c)
  <2>1. RunIsRemembered'
    BY <1>1, <1>4, OtherStepsRemember DEF OneRunInv, RunIsRemembered
  <2>2. QED
    BY <1>1, <1>2, <2>1 DEF OneRunInv
<1>5. QED
  BY <1>3, <1>4

LEMMA OneRunInit == RetestInit => OneRunInv
<1>1. RetestInit => RunIsRemembered
  BY Statuses DEF RetestInit, RunIsRemembered, Live
<1>2. RetestInit => StartsUseDefaultKey
  BY DEF RetestInit, StartsUseDefaultKey
<1>3. QED
  BY <1>1, <1>2, InitInv DEF OneRunInv

LEMMA StutterKeepsOneRun == OneRunInv /\ UNCHANGED retestVars => OneRunInv'
  BY StutterKeepsInv DEF OneRunInv, RunIsRemembered, StartsUseDefaultKey, Live, retestVars

(* However many callers start a retest task, and whatever happens between  *)
(* the check and the update of each start, at most one existing run carries *)
(* the task, as long as no caller sends a start key of its own.             *)
THEOREM OneRunHolds ==
    ASSUME ~FreshKeys PROVE RetestSpec => []OneRunPerTask
<1>1. OneRunInv /\ [RetestNext]_retestVars => OneRunInv'
  BY StutterKeepsOneRun, NextIsAction, ActionKeepsOneRun DEF OneRunInv, RetestInv
<1>2. OneRunInv => OneRunPerTask
  BY RememberedOnce DEF OneRunInv
<1>3. QED
  BY OneRunInit, <1>1, <1>2, PTL DEF RetestSpec

-------------------------------------------------------------------------------
(* Nothing dangles, under the same condition.  A suspended start may get a  *)
(* remembered run back after deletions: its task then either went with the  *)
(* run or already has it as its created run.                                *)
TasksWhole ==
    \A t \in Task : Live(tasks, t) =>
        /\ Live(runs, tasks[t].source)
        /\ tasks[t].created # None => Live(runs, tasks[t].created)
        /\ \A b \in tasks[t].bugs : Live(bugs, b)
BugsWhole == \A b \in Bug : Live(bugs, b) => Live(runs, bugs[b].run)
IssuesWhole == \A i \in Issue : Live(issues, i) => Live(runs, issues[i].run)

CreatedIsRemembered ==
    \A t \in Task : Live(tasks, t) /\ createdFor[t] # None => tasks[t].created = createdFor[t]
UnusedIsUnstarted ==
    \A t \in Task : tasks[t].status = "UNUSED" =>
        /\ createdFor[t] = None
        /\ \A c \in Callers : starting[c] # None => starting[c].task # t

TaskMemory == CreatedIsRemembered /\ UnusedIsUnstarted
Whole == TasksWhole /\ BugsWhole /\ IssuesWhole /\ TaskMemory
WholeInv == OneRunInv /\ Whole

LEMMA WholeIsNothingDangles == Whole => NothingDangles
  BY DEF Whole, TasksWhole, BugsWhole, IssuesWhole, NothingDangles

LEMMA WholeParts == WholeInv => /\ OneRunInv /\ RetestInv /\ Whole
                                /\ RowsTyped /\ CommandsTyped /\ RowsLinked
  BY TypedParts DEF WholeInv, OneRunInv, RetestInv

(* Steps that keep every run and bug that exists, and leave the tasks alone. *)
RunsRemain == \A r \in Run : Live(runs, r) => Live(runs', r)
BugsRemain == \A b \in Bug : Live(bugs, b) => Live(bugs', b)

LEMMA TasksUntouchedWhole ==
    ASSUME WholeInv, UNCHANGED tasks, RunsRemain, BugsRemain PROVE TasksWhole'
  BY WholeParts DEF Whole, TasksWhole, RowsTyped, TaskRow, RowsLinked, TaskLinks, RunsRemain,
                    BugsRemain, Live

LEMMA MemoryUntouched ==
    ASSUME WholeInv, UNCHANGED <<tasks, createdFor, starting>> PROVE TaskMemory'
  BY WholeParts DEF Whole, TaskMemory, CreatedIsRemembered, UnusedIsUnstarted, Live

LEMMA LinksUntouchedWhole ==
    ASSUME WholeInv, RunsRemain
    PROVE  (UNCHANGED bugs => BugsWhole') /\ (UNCHANGED issues => IssuesWhole')
  BY WholeParts DEF Whole, BugsWhole, IssuesWhole, RowsLinked, BugLinks, IssueLinks, RunsRemain, Live

LEMMA RunActionWhole == WholeInv /\ RunAction => Whole'
<1> SUFFICES ASSUME WholeInv, RunAction PROVE Whole'
  OBVIOUS
<1>0. RowsTyped /\ RowsLinked /\ Whole
  BY WholeParts
<1>1. ASSUME UNCHANGED <<bugs, tasks, issues, createdFor, starting>>, RunsRemain PROVE Whole'
  <2>1. BugsRemain
    BY <1>1 DEF BugsRemain, Live
  <2>2. QED
    BY <1>1, <2>1, TasksUntouchedWhole, MemoryUntouched, LinksUntouchedWhole DEF Whole
<1>2. ASSUME NEW q \in Requests, CreateRun(q) PROVE Whole'
  <2>1. PICK r \in Run : runs' = [runs EXCEPT ![r] = [AbsentRun("PENDING") EXCEPT !.request = q]]
    BY <1>2 DEF CreateRun
  <2>2. [AbsentRun("PENDING") EXCEPT !.request = q].status \notin Absent
    BY DEF AbsentRun, Absent
  <2>3. RunsRemain
    BY <1>0, <2>1, <2>2 DEF RunsRemain, RowsTyped, Live
  <2>4. QED
    BY <1>1, <1>2, <2>3 DEF CreateRun, Plain
<1>3. ASSUME NEW r \in Run, NEW q \in Requests, NEW s \in RunStatus \cup Absent,
             s \in RunInputs \cup {runs[r].status}, UpdateRun(r, q, s)
      PROVE  Whole'
  <2>1. s \notin Absent
    BY <1>3, RetestAssumption, Statuses DEF UpdateRun, Live
  <2>2. RunsRemain
    BY <1>0, <1>3, <2>1 DEF UpdateRun, RunsRemain, RowsTyped, RunRow, Live
  <2>3. QED
    BY <1>1, <1>3, <2>2 DEF UpdateRun, Plain
<1>4. ASSUME NEW r \in Run, NEW s \in RunInputs, UpdateRunStatus(r, s) PROVE Whole'
  <2>1. s \notin Absent
    BY RetestAssumption, Statuses
  <2>2. RunsRemain
    BY <1>0, <1>4, <2>1 DEF UpdateRunStatus, RunsRemain, RowsTyped, RunRow, Live
  <2>3. QED
    BY <1>1, <1>4, <2>2 DEF UpdateRunStatus, Plain
<1>5. ASSUME NEW r \in Run, UnlockRun(r) PROVE Whole'
  <2>1. runs' = runs \/ runs' = [runs EXCEPT ![r] = [runs[r] EXCEPT !.locked = FALSE]]
    BY <1>5 DEF UnlockRun
  <2>2. RunsRemain
    BY <1>0, <2>1 DEF RunsRemain, RowsTyped, RunRow, Live
  <2>3. QED
    BY <1>1, <1>5, <2>2 DEF UnlockRun, Answer
<1>6. ASSUME NEW r \in Run, DeleteRun(r) PROVE Whole'
  <2>1. \A x \in Run : x # r => runs'[x] = runs[x]
    BY <1>0, <1>6 DEF DeleteRun, RowsTyped
  <2>2. \A b \in Bug : Live(bugs', b) => bugs'[b] = bugs[b] /\ bugs[b].run # r
    BY <1>6, Statuses DEF DeleteRun, BugsOf, Live
  <2>3. \A t \in Task : Live(tasks', t) =>
           /\ tasks'[t] = tasks[t]
           /\ tasks[t].source # r /\ tasks[t].created # r /\ tasks[t].bugs \cap BugsOf(r) = {}
    BY <1>6, Statuses DEF DeleteRun, TasksOfRun, Live
  <2>4. \A i \in Issue : Live(issues', i) => issues'[i] = issues[i] /\ issues[i].run # r
    BY <1>6, Statuses DEF DeleteRun, Live
  <2>5. \A b \in Bug : b \notin BugsOf(r) => bugs'[b] = bugs[b]
    BY <1>6 DEF DeleteRun
  <2>6. TasksWhole'
    <3>1. ASSUME NEW t \in Task, Live(tasks', t)
          PROVE  /\ Live(runs', tasks'[t].source)
                 /\ tasks'[t].created # None => Live(runs', tasks'[t].created)
                 /\ \A b \in tasks'[t].bugs : Live(bugs', b)
      <4>1. /\ tasks'[t] = tasks[t] /\ Live(tasks, t)
            /\ tasks[t].source # r /\ tasks[t].created # r /\ tasks[t].bugs \cap BugsOf(r) = {}
        BY <2>3, <3>1 DEF Live
      <4>2. /\ tasks[t].source \in Run /\ tasks[t].created \in Run \cup {None}
            /\ tasks[t].bugs \subseteq Bug
        BY <1>0, <4>1 DEF RowsTyped, TaskRow, RowsLinked, TaskLinks
      <4>3. /\ Live(runs, tasks[t].source)
            /\ tasks[t].created # None => Live(runs, tasks[t].created)
            /\ \A b \in tasks[t].bugs : Live(bugs, b)
        BY <1>0, <4>1 DEF Whole, TasksWhole
      <4>4. Live(runs', tasks'[t].source)
        BY <2>1, <4>1, <4>2, <4>3 DEF Live
      <4>5. tasks'[t].created # None => Live(runs', tasks'[t].created)
        BY <2>1, <4>1, <4>2, <4>3 DEF Live
      <4>6. \A b \in tasks'[t].bugs : Live(bugs', b)
        BY <2>5, <4>1, <4>2, <4>3 DEF Live
      <4>7. QED
        BY <4>4, <4>5, <4>6
    <3>2. QED
      BY <3>1 DEF TasksWhole
  <2>7. BugsWhole'
    BY <1>0, <2>1, <2>2 DEF Whole, BugsWhole, RowsLinked, BugLinks, Live
  <2>8. IssuesWhole'
    BY <1>0, <2>1, <2>4 DEF Whole, IssuesWhole, RowsLinked, IssueLinks, Live
  <2>9. TaskMemory'
    <3>1. UNCHANGED <<createdFor, starting>>
      BY <1>6 DEF DeleteRun, Plain
    <3>2. \A t \in Task : tasks'[t].status = "UNUSED" => tasks[t].status = "UNUSED"
      BY <1>6, Statuses DEF DeleteRun
    <3>3. QED
      BY <1>0, <2>3, <3>1, <3>2 DEF Whole, TaskMemory, CreatedIsRemembered, UnusedIsUnstarted, Live
  <2>10. QED
    BY <2>6, <2>7, <2>8, <2>9 DEF Whole
<1>7. ASSUME NEW qs \in SUBSET Requests, LockEvidence(qs), UNCHANGED <<tasks, issues>>, Plain
      PROVE  Whole'
  <2>1. RunsRemain
    BY <1>0, <1>7 DEF LockEvidence, RunsRemain, RowsTyped, RunRow, Live
  <2>2. \A b \in Bug : bugs'[b].status = bugs[b].status /\ bugs'[b].run = bugs[b].run
    BY <1>0, <1>7 DEF LockEvidence, RowsTyped, BugRow
  <2>3. BugsRemain
    BY <2>2 DEF BugsRemain, Live
  <2>4. BugsWhole'
    BY <1>0, <2>1, <2>2 DEF Whole, BugsWhole, RowsLinked, BugLinks, RunsRemain, Live
  <2>5. QED
    BY <1>7, <2>1, <2>3, <2>4, TasksUntouchedWhole, MemoryUntouched, LinksUntouchedWhole
       DEF Whole, Plain
<1>8. QED
  BY <1>2, <1>3, <1>4, <1>5, <1>6, <1>7 DEF RunAction

LEMMA EnsureWhole ==
    ASSUME WholeInv, NEW b \in Bug, EnsureRetestTask(b, bugs'), UNCHANGED <<runs, createdFor, starting>>,
           bugs'[b].run \in Run, Live(bugs', b), BugsRemain, BugsWhole', BugLinks'
    PROVE  TasksWhole' /\ TaskMemory'
<1> DEFINE r == bugs'[b].run
           queued == [AbsentTask("QUEUED") EXCEPT !.bugs = RelatedBugs(bugs', r), !.source = r,
                                                  !.request = runs[r].request]
<1>0. RowsTyped /\ Whole
  BY WholeParts
<1>1. RunsRemain
  BY DEF RunsRemain, Live
<1>2. \A x \in RelatedBugs(bugs', r) : x \in Bug /\ Live(bugs', x)
  BY RetestAssumption DEF RelatedBugs, BugLinks
<1>3. Live(runs, r)
  BY DEF BugsWhole, Live
<1>4. /\ queued.status = "QUEUED" /\ queued.bugs = RelatedBugs(bugs', r)
      /\ queued.source = r /\ queued.created = None
  BY DEF AbsentTask
<1> HIDE DEF queued, r
<1>5. CASE UNCHANGED tasks
  BY <1>1, <1>5, TasksUntouchedWhole, MemoryUntouched
<1>6. ASSUME NEW t, tasks' = MergedTasks(t, r, bugs') PROVE TasksWhole' /\ TaskMemory'
  <2>1. \A x \in Task : /\ tasks'[x].status = tasks[x].status
                        /\ tasks'[x].source = tasks[x].source
                        /\ tasks'[x].created = tasks[x].created
                        /\ tasks'[x].bugs \subseteq tasks[x].bugs \cup RelatedBugs(bugs', r)
    BY <1>0, <1>6 DEF MergedTasks, RowsTyped, TaskRow
  <2>2. \A x \in Task : tasks[x].bugs \subseteq Bug
    BY <1>0 DEF RowsTyped, TaskRow
  <2>3. TasksWhole'
    BY <1>0, <1>2, <2>1, <2>2 DEF Whole, TasksWhole, BugsRemain, Live
  <2>4. TaskMemory'
    BY <1>0, <2>1 DEF Whole, TaskMemory, CreatedIsRemembered, UnusedIsUnstarted, Live
  <2>5. QED
    BY <2>3, <2>4
<1>7. ASSUME NEW t \in Task, tasks[t].status = "UNUSED", tasks' = [tasks EXCEPT ![t] = queued]
      PROVE  TasksWhole' /\ TaskMemory'
  <2>1. /\ tasks'[t] = queued
        /\ \A x \in Task : x # t => tasks'[x] = tasks[x]
    BY <1>0, <1>7 DEF RowsTyped
  <2>2. \A x \in Task : tasks[x].bugs \subseteq Bug
    BY <1>0 DEF RowsTyped, TaskRow
  <2>3. TasksWhole'
    BY <1>0, <1>2, <1>3, <1>4, <2>1, <2>2 DEF Whole, TasksWhole, BugsRemain, Live
  <2>4. TaskMemory'
    BY <1>0, <1>4, <1>7, <2>1
       DEF Whole, TaskMemory, CreatedIsRemembered, UnusedIsUnstarted, Live
  <2>5. QED
    BY <2>3, <2>4
<1>8. QED
  BY <1>5, <1>6, <1>7 DEF EnsureRetestTask, IsNext, queued, r

(* A step that changes one bug and keeps or sets an existing run of it. *)
LEMMA OneBugWhole ==
    ASSUME WholeInv, UNCHANGED <<runs, tasks, issues, createdFor, starting>>, NEW b \in Bug, NEW row,
           bugs' = [bugs EXCEPT ![b] = row], row.status \notin Absent, Live(runs, row.run)
    PROVE  Whole'
<1>0. RowsTyped /\ Whole
  BY WholeParts
<1>1. RunsRemain
  BY DEF RunsRemain, Live
<1>2. BugsRemain
  BY <1>0 DEF BugsRemain, RowsTyped, Live
<1>3. BugsWhole'
  BY <1>0 DEF Whole, BugsWhole, RowsTyped, Live
<1>4. QED
  BY <1>1, <1>2, <1>3, TasksUntouchedWhole, MemoryUntouched, LinksUntouchedWhole DEF Whole

LEMMA MoveWhole ==
    ASSUME WholeInv, NEW b \in Bug, NEW s \in BugStatus, NEW p, MoveBug(b, s, p) PROVE Whole'
<1> DEFINE row == [bugs[b] EXCEPT !.status = s, !.previous = p]
<1>0. RowsTyped /\ Whole
  BY WholeParts
<1>1. row.status = s /\ row.run = bugs[b].run
  BY <1>0 DEF RowsTyped, BugRow
<1>2. Live(runs, row.run)
  BY <1>0, <1>1 DEF MoveBug, Whole, BugsWhole
<1>3. bugs' = [bugs EXCEPT ![b] = row]
  BY DEF MoveBug, SetBug
<1> HIDE DEF row
<1>4. s \notin Absent
  BY Statuses
<1>5. UNCHANGED <<runs, tasks, issues, createdFor, starting>>
  BY DEF MoveBug, Plain
<1>6. QED
  BY <1>1, <1>2, <1>3, <1>4, <1>5, OneBugWhole

LEMMA BugActionWhole == WholeInv /\ BugAction => Whole'
<1> SUFFICES ASSUME WholeInv, BugAction PROVE Whole'
  OBVIOUS
<1>0. RowsTyped /\ RowsLinked /\ Whole
  BY WholeParts
<1>1. ASSUME NEW r \in Run, NEW a \in BOOLEAN, NEW v \in Severities, CreateBug(r, a, v) PROVE Whole'
  <2>1. PICK b \in Bug, s \in {"ASSIGNED", "NEW"} :
            bugs' = [bugs EXCEPT ![b] = [AbsentBug(s) EXCEPT !.run = r, !.critical = v]]
    BY <1>1 DEF CreateBug, SetBug
  <2> DEFINE row == [AbsentBug(s) EXCEPT !.run = r, !.critical = v]
  <2>2. row.status \notin Absent /\ row.run = r
    BY DEF AbsentBug, Absent
  <2> HIDE DEF row
  <2>3. bugs' = [bugs EXCEPT ![b] = row]
    BY <2>1 DEF row
  <2>4. QED
    BY <1>1, <2>2, <2>3, OneBugWhole DEF CreateBug, Plain
<1>2. ASSUME NEW b \in Bug, NEW r \in Run, NEW a \in BOOLEAN, NEW v \in Severities,
             NEW s \in BugStatus \cup Absent, s \in BugInputs \cup {bugs[b].status},
             UpdateBug(b, r, s, a, v)
      PROVE  Whole'
  <2>1. s \notin Absent /\ bugs[b].status \notin Absent /\ "ASSIGNED" \notin Absent
    BY <1>2, RetestAssumption, Statuses DEF UpdateBug, Live, Absent
  <2>2. PICK x \in {s, bugs[b].status, "ASSIGNED"} :
            bugs' = [bugs EXCEPT ![b] = [bugs[b] EXCEPT !.run = r, !.critical = v, !.status = x]]
    BY <1>2 DEF UpdateBug, SetBug
  <2> DEFINE row == [bugs[b] EXCEPT !.run = r, !.critical = v, !.status = x]
  <2>3. row.status = x /\ row.run = r
    BY <1>0 DEF RowsTyped, BugRow
  <2> HIDE DEF row
  <2>4. bugs' = [bugs EXCEPT ![b] = row]
    BY <2>2 DEF row
  <2>5. QED
    BY <1>2, <2>1, <2>3, <2>4, OneBugWhole DEF UpdateBug, Plain
<1>3. ASSUME NEW b \in Bug, DeleteBug(b) PROVE Whole'
  <2>1. \A x \in Bug : IF x = b THEN ~Live(bugs', x) ELSE bugs'[x] = bugs[x]
    BY <1>0, <1>3, Statuses DEF DeleteBug, SetBug, RowsTyped, Live
  <2>2. \A t \in Task : Live(tasks', t) => tasks'[t] = tasks[t] /\ b \notin tasks[t].bugs
    BY <1>3, Statuses DEF DeleteBug, Live
  <2>3. TasksWhole'
    <3>1. UNCHANGED runs
      BY <1>3 DEF DeleteBug
    <3>2. \A t \in Task : tasks[t].bugs \subseteq Bug
      BY <1>0 DEF RowsTyped, TaskRow
    <3>3. QED
      BY <1>0, <2>1, <2>2, <3>1, <3>2 DEF Whole, TasksWhole, Live
  <2>4. BugsWhole'
    BY <1>0, <1>3, <2>1 DEF DeleteBug, Whole, BugsWhole, Live
  <2>5. TaskMemory'
    <3>1. UNCHANGED <<createdFor, starting>>
      BY <1>3 DEF DeleteBug, Plain
    <3>2. \A t \in Task : tasks'[t].status = "UNUSED" => tasks[t].status = "UNUSED"
      BY <1>3, Statuses DEF DeleteBug
    <3>3. QED
      BY <1>0, <2>2, <3>1, <3>2 DEF Whole, TaskMemory, CreatedIsRemembered, UnusedIsUnstarted, Live
  <2>6. IssuesWhole'
    BY <1>0, <1>3 DEF DeleteBug, Whole, IssuesWhole, Live
  <2>7. QED
    BY <2>3, <2>4, <2>5, <2>6 DEF Whole
<1>4. ASSUME NEW b \in Bug, AssignBug(b) \/ SetFixedVersion(b) \/ CloseBug(b) \/ RestorePreviousStatus(b)
      PROVE  Whole'
  <2>1. CASE AssignBug(b) \/ SetFixedVersion(b) \/ CloseBug(b)
    <3>1. PICK s \in {"ASSIGNED", "FIXED", "CLOSED"} : \E p : MoveBug(b, s, p)
      BY <2>1 DEF AssignBug, SetFixedVersion, CloseBug
    <3>2. s \in BugStatus
      BY DEF BugStatus
    <3>3. QED
      BY <3>1, <3>2, MoveWhole
  <2>2. CASE RestorePreviousStatus(b)
    <3>1. bugs[b].previous \in BugStatus
      BY <1>0, <2>2 DEF RestorePreviousStatus, RowsTyped, BugRow
    <3>2. QED
      BY <2>2, <3>1, MoveWhole DEF RestorePreviousStatus
  <2>3. QED
    BY <1>4, <2>1, <2>2
<1>5. ASSUME NEW b \in Bug, NEW s \in BugInputs, UpdateBugStatus(b, s) PROVE Whole'
  <2>1. PICK p : MoveBug(b, s, p)
    BY <1>5 DEF UpdateBugStatus
  <2>2. s \in BugStatus
    BY RetestAssumption
  <2>3. QED
    BY <2>1, <2>2, MoveWhole
<1>6. ASSUME NEW b \in Bug, MarkReadyForRetest(b) PROVE Whole'
  <2>1. UNCHANGED <<runs, issues, createdFor, starting>>
    BY <1>6 DEF MarkReadyForRetest, Answer
  <2>2. RunsRemain
    BY <2>1 DEF RunsRemain, Live
  <2>3. CASE UNCHANGED <<bugs, tasks>>
    <3>1. BugsRemain
      BY <2>3 DEF BugsRemain, Live
    <3>2. QED
      BY <2>1, <2>2, <2>3, <3>1, TasksUntouchedWhole, MemoryUntouched, LinksUntouchedWhole DEF Whole
  <2>4. CASE ~(UNCHANGED <<bugs, tasks>>)
    <3>1. /\ bugs' = [bugs EXCEPT ![b] = [bugs[b] EXCEPT !.status = "RETEST_READY"]]
          /\ Live(bugs, b)
          /\ EnsureRetestTask(b, bugs')
      BY <1>6, <2>4 DEF MarkReadyForRetest, SetBug
    <3>2. /\ \A x \in Bug : bugs'[x].run = bugs[x].run
          /\ \A x \in Bug : Live(bugs', x) <=> Live(bugs, x)
          /\ \A x \in Bug : bugs'[x].locked = bugs[x].locked
      BY <1>0, <3>1 DEF RowsTyped, BugRow, Live, Absent
    <3>3. BugsRemain /\ BugsWhole' /\ BugLinks' /\ bugs'[b].run \in Run /\ Live(bugs', b)
      BY <1>0, <2>1, <3>1, <3>2 DEF BugsRemain, Whole, BugsWhole, RowsLinked, BugLinks, Live
    <3>4. TasksWhole' /\ TaskMemory'
      BY <2>1, <3>1, <3>3, EnsureWhole
    <3>5. QED
      BY <2>1, <2>2, <3>3, <3>4, LinksUntouchedWhole DEF Whole
  <2>5. QED
    BY <2>3, <2>4
<1>7. ASSUME NEW b \in Bug, NEW passed \in BOOLEAN, Retest(b, passed) PROVE Whole'
  <2>1. UNCHANGED <<runs, issues, createdFor, starting>>
    BY <1>7 DEF Retest, Plain
  <2>2. PICK x \in {"RETEST_PASSED", "RETEST_FAILED"} :
            Live(bugs, b) /\ bugs' = [bugs EXCEPT ![b] = [bugs[b] EXCEPT !.status = x]]
    BY <1>7 DEF Retest, SetBug
  <2>3. \A y \in Bug : bugs'[y].run = bugs[y].run /\ (Live(bugs', y) <=> Live(bugs, y))
    BY <1>0, <2>2 DEF RowsTyped, BugRow, Live, Absent
  <2>4. \A t \in Task : /\ Live(tasks', t) <=> Live(tasks, t)
                        /\ tasks'[t].status = "UNUSED" => tasks[t].status = "UNUSED"
                        /\ tasks'[t].source = tasks[t].source
                        /\ tasks'[t].created = tasks[t].created
                        /\ tasks'[t].bugs = tasks[t].bugs
    BY <1>0, <1>7, Statuses DEF Retest, CompletedBy, OpenTasksOf, RowsTyped, TaskRow, Live
  <2>5. \A t \in Task : tasks[t].bugs \subseteq Bug
    BY <1>0 DEF RowsTyped, TaskRow
  <2>6. TasksWhole'
    BY <1>0, <2>1, <2>3, <2>4, <2>5 DEF Whole, TasksWhole, Live
  <2>7. BugsWhole'
    BY <1>0, <2>1, <2>3 DEF Whole, BugsWhole, Live
  <2>8. IssuesWhole'
    BY <1>0, <2>1 DEF Whole, IssuesWhole, Live
  <2>9. TaskMemory'
    BY <1>0, <2>1, <2>4 DEF Whole, TaskMemory, CreatedIsRemembered, UnusedIsUnstarted
  <2>10. QED
    BY <2>6, <2>7, <2>8, <2>9 DEF Whole
<1>8. ASSUME NEW b \in Bug, UnlockBug(b) PROVE Whole'
  <2>1. UNCHANGED <<runs, tasks, issues, createdFor, starting>>
    BY <1>8 DEF UnlockBug, Answer
  <2>2. bugs' = bugs \/ bugs' = [bugs EXCEPT ![b] = [bugs[b] EXCEPT !.locked = FALSE]]
    BY <1>8 DEF UnlockBug, SetBug
  <2>3. \A x \in Bug : bugs'[x].run = bugs[x].run /\ (Live(bugs', x) <=> Live(bugs, x))
    BY <1>0, <2>2 DEF RowsTyped, BugRow, Live
  <2>4. RunsRemain /\ BugsRemain /\ BugsWhole'
    BY <1>0, <2>1, <2>3 DEF RunsRemain, BugsRemain, Whole, BugsWhole, Live
  <2>5. QED
    BY <2>1, <2>4, TasksUntouchedWhole, MemoryUntouched, LinksUntouchedWhole DEF Whole
<1>9. QED
  BY <1>1, <1>2, <1>3, <1>4, <1>5, <1>6, <1>7, <1>8 DEF BugAction

(* FinishStart puts a run that exists into the task it belongs to. *)
LEMMA FinishWhole ==
    ASSUME ~FreshKeys, WholeInv, NEW c \in Callers, FinishStart(c) PROVE Whole'
<1> DEFINE t == starting[c].task
           carried == [AbsentRun("PENDING") EXCEPT !.request = starting[c].request, !.task = t]
<1>0. RowsTyped /\ CommandsTyped /\ RowsLinked /\ Whole
  BY WholeParts
<1>1. t \in Task /\ ~starting[c].fresh
  BY <1>0, WholeParts DEF FinishStart, CommandsTyped, Start, OneRunInv, StartsUseDefaultKey
<1>2. tasks[t].status # "UNUSED"
  BY <1>0, <1>1 DEF FinishStart, Whole, TaskMemory, UnusedIsUnstarted
<1>3. carried.status = "PENDING"
  BY DEF AbsentRun
<1>4. UNCHANGED <<bugs, issues>> /\ starting' = [starting EXCEPT ![c] = None]
  BY DEF FinishStart
<1> HIDE DEF t, carried
<1>5. ASSUME NEW r \in Run, Started(t, r), RunsRemain, Live(runs', r),
             Live(tasks, t) => createdFor'[t] = r,
             \A x \in Task : x # t => createdFor'[x] = createdFor[x]
      PROVE  Whole'
  <2>1. \A x \in Task :
            /\ Live(tasks', x) <=> Live(tasks, x)
            /\ tasks'[x].status = "UNUSED" => tasks[x].status = "UNUSED"
            /\ tasks'[x].source = tasks[x].source
            /\ tasks'[x].bugs = tasks[x].bugs
            /\ tasks'[x].created = IF x = t /\ Live(tasks, t) THEN r ELSE tasks[x].created
    BY <1>0, <1>1, <1>5, Statuses DEF Started, RowsTyped, TaskRow, Live, Open
  <2>2. /\ \A x \in Task : /\ Live(tasks, x) => tasks[x].source \in Run
                           /\ tasks[x].created \in Run \cup {None}
                           /\ tasks[x].bugs \subseteq Bug
    BY <1>0 DEF RowsTyped, TaskRow, RowsLinked, TaskLinks
  <2>3. TasksWhole'
    BY <1>0, <1>4, <1>5, <2>1, <2>2 DEF Whole, TasksWhole, RunsRemain, Live
  <2>4. BugsWhole' /\ IssuesWhole'
    BY <1>4, <1>5, LinksUntouchedWhole
  <2>5. CreatedIsRemembered'
    BY <1>0, <1>1, <1>5, <2>1 DEF Whole, TaskMemory, CreatedIsRemembered
  <2>6. UnusedIsUnstarted'
    BY <1>0, <1>1, <1>2, <1>4, <1>5, <2>1
       DEF Whole, TaskMemory, UnusedIsUnstarted, CommandsTyped
  <2>7. QED
    BY <2>3, <2>4, <2>5, <2>6 DEF Whole, TaskMemory
<1>6. CASE createdFor[t] # None /\ Live(tasks, t)
  <2>1. Started(t, createdFor[t]) /\ UNCHANGED <<runs, createdFor>>
    BY <1>1, <1>6 DEF FinishStart, CachedRun, t
  <2>2. createdFor[t] \in Run
    BY <1>0, <1>1, <1>6 DEF CommandsTyped
  <2>3. Live(runs, createdFor[t])
    BY <1>0, <1>1, <1>6 DEF Whole, TaskMemory, CreatedIsRemembered, TasksWhole
  <2>4. RunsRemain /\ Live(runs', createdFor[t])
    BY <2>1, <2>3 DEF RunsRemain, Live
  <2>5. QED
    BY <1>5, <2>1, <2>2, <2>4
<1>7. CASE createdFor[t] # None /\ ~Live(tasks, t)
  <2>1. UNCHANGED <<runs, tasks, createdFor>>
    BY <1>1, <1>7 DEF FinishStart, CachedRun, Started, t
  <2>2. RunsRemain /\ BugsRemain
    BY <1>4, <2>1 DEF RunsRemain, BugsRemain, Live
  <2>3. TaskMemory'
    BY <1>0, <1>4, <2>1
       DEF Whole, TaskMemory, CreatedIsRemembered, UnusedIsUnstarted, CommandsTyped, Live
  <2>4. QED
    BY <1>4, <2>1, <2>2, <2>3, TasksUntouchedWhole, LinksUntouchedWhole DEF Whole
<1>8. CASE createdFor[t] = None
  <2>1. PICK r \in Run : /\ runs' = [runs EXCEPT ![r] = carried]
                         /\ Started(t, r)
                         /\ createdFor' = [createdFor EXCEPT ![t] = r]
    BY <1>1, <1>8 DEF FinishStart, CachedRun, t, carried
  <2>2. RunsRemain /\ Live(runs', r)
    BY <1>0, <1>3, <2>1, Statuses DEF RunsRemain, RowsTyped, Live
  <2>3. createdFor'[t] = r /\ \A x \in Task : x # t => createdFor'[x] = createdFor[x]
    BY <1>0, <1>1, <2>1 DEF CommandsTyped
  <2>4. QED
    BY <1>5, <2>1, <2>2, <2>3
<1>9. QED
  BY <1>6, <1>7, <1>8

LEMMA TaskActionWhole == ASSUME ~FreshKeys PROVE WholeInv /\ TaskAction => Whole'
<1> SUFFICES ASSUME WholeInv, TaskAction PROVE Whole'
  OBVIOUS
<1>0. RowsTyped /\ CommandsTyped /\ RowsLinked /\ Whole
  BY WholeParts
<1>1. ASSUME UNCHANGED <<runs, bugs, issues>>, TasksWhole', TaskMemory' PROVE Whole'
  BY <1>0, <1>1 DEF Whole, BugsWhole, IssuesWhole, Live
<1>2. UNCHANGED rows => TasksWhole'
  BY <1>0 DEF Whole, TasksWhole, rows, Live
<1>3. ASSUME NEW b \in Bug, EnsureForBug(b) PROVE Whole'
  <2>1. EnsureRetestTask(b, bugs) /\ UNCHANGED <<runs, bugs, issues, createdFor, starting>>
    BY <1>3 DEF EnsureForBug
  <2>2. bugs' = bugs
    BY <2>1
  <2>3. EnsureRetestTask(b, bugs')
    BY <2>1, <2>2
  <2>4. BugsRemain /\ BugsWhole' /\ BugLinks' /\ bugs'[b].run \in Run /\ Live(bugs', b)
    BY <1>0, <1>3, <2>1
       DEF EnsureForBug, BugsRemain, Whole, BugsWhole, RowsLinked, BugLinks, Live
  <2>5. TasksWhole' /\ TaskMemory'
    BY <2>1, <2>3, <2>4, EnsureWhole
  <2>6. QED
    BY <1>1, <2>1, <2>5
<1>4. ASSUME NEW c \in Callers, NEW t \in Task, NEW fresh \in {FALSE, FreshKeys}, StartTask(c, t, fresh)
      PROVE  Whole'
  <2>1. UNCHANGED <<rows, createdFor>> /\ tasks[t].status # "UNUSED"
    BY <1>4 DEF StartTask, Open
  <2>2. UNCHANGED starting
           \/ starting' = [starting EXCEPT ![c] = [task |-> t, request |-> tasks[t].request, fresh |-> fresh]]
    BY <1>4 DEF StartTask
  <2>3. TaskMemory'
    BY <1>0, <2>1, <2>2
       DEF Whole, TaskMemory, CreatedIsRemembered, UnusedIsUnstarted, CommandsTyped, rows, Live
  <2>4. QED
    BY <1>1, <1>2, <2>1, <2>3 DEF rows
<1>5. ASSUME NEW c \in Callers, FailStart(c) PROVE Whole'
  <2>1. UNCHANGED <<rows, createdFor>> /\ starting' = [starting EXCEPT ![c] = None]
    BY <1>5 DEF FailStart
  <2>2. TaskMemory'
    BY <1>0, <2>1
       DEF Whole, TaskMemory, CreatedIsRemembered, UnusedIsUnstarted, CommandsTyped, rows, Live
  <2>3. QED
    BY <1>1, <1>2, <2>1, <2>2 DEF rows
<1>6. ASSUME NEW t \in Task, CompleteTask(t) PROVE Whole'
  <2>1. \A x \in Task : /\ Live(tasks', x) <=> Live(tasks, x)
                        /\ tasks'[x].status = "UNUSED" => tasks[x].status = "UNUSED"
                        /\ tasks'[x].source = tasks[x].source
                        /\ tasks'[x].created = tasks[x].created
                        /\ tasks'[x].bugs = tasks[x].bugs
    BY <1>0, <1>6, Statuses DEF CompleteTask, RowsTyped, TaskRow, Live
  <2>2. TasksWhole'
    BY <1>0, <1>6, <2>1 DEF CompleteTask, Whole, TasksWhole, Live
  <2>3. TaskMemory'
    BY <1>0, <1>6, <2>1 DEF CompleteTask, Whole, TaskMemory, CreatedIsRemembered, UnusedIsUnstarted
  <2>4. QED
    BY <1>1, <1>6, <2>2, <2>3 DEF CompleteTask
<1>7. QED
  BY <1>3, <1>4, <1>5, <1>6, FinishWhole DEF TaskAction

LEMMA IssueActionWhole == WholeInv /\ IssueAction => Whole'
<1> SUFFICES ASSUME WholeInv, IssueAction PROVE Whole'
  OBVIOUS
<1>0. RowsTyped /\ RowsLinked /\ Whole
  BY WholeParts
<1>1. UNCHANGED <<runs, bugs, tasks, createdFor, starting>>
  BY DEF IssueAction, CreateIssue, ResolveIssue, Plain
<1>2. RunsRemain /\ BugsRemain
  BY <1>1 DEF RunsRemain, BugsRemain, Live
<1>3. ASSUME NEW r \in Run, CreateIssue(r) PROVE IssuesWhole'
  <2>1. PICK i \in Issue : issues' = [issues EXCEPT ![i] = [status |-> "OPEN", run |-> r]]
    BY <1>3 DEF CreateIssue
  <2>2. QED
    BY <1>0, <1>1, <1>3, <2>1 DEF CreateIssue, Whole, IssuesWhole, RowsTyped, Live
<1>4. ASSUME NEW i \in Issue, ResolveIssue(i) PROVE IssuesWhole'
  BY <1>0, <1>1, <1>4 DEF ResolveIssue, Whole, IssuesWhole, RowsTyped, IssueRow, Live
<1>5. QED
  BY <1>1, <1>2, <1>3, <1>4, TasksUntouchedWhole, MemoryUntouched, LinksUntouchedWhole
     DEF Whole, IssueAction

LEMMA ActionKeepsWhole == ASSUME ~FreshKeys PROVE WholeInv /\ RetestAction => WholeInv'
  BY ActionKeepsOneRun, RunActionWhole, BugActionWhole, TaskActionWhole, IssueActionWhole
     DEF WholeInv, RetestAction

LEMMA WholeInit == RetestInit => WholeInv
<1>1. RetestInit => Whole
  BY Statuses DEF RetestInit, Whole, TasksWhole, BugsWhole, IssuesWhole, TaskMemory,
                  CreatedIsRemembered, UnusedIsUnstarted, Live
<1>2. QED
  BY <1>1, OneRunInit DEF WholeInv

LEMMA StutterKeepsWhole == WholeInv /\ UNCHANGED retestVars => WholeInv'
  BY StutterKeepsOneRun
     DEF WholeInv, Whole, TasksWhole, BugsWhole, IssuesWhole, TaskMemory, CreatedIsRemembered,
         UnusedIsUnstarted, Live, retestVars

(* Whatever is deleted while whatever is started, a task, a bug and a run   *)
(* issue that exist refer to runs and bugs that exist, as long as no caller *)
(* sends a start key of its own.                                            *)
THEOREM NothingDanglesHolds ==
    ASSUME ~FreshKeys PROVE RetestSpec => []NothingDangles
<1>1. WholeInv /\ [RetestNext]_retestVars => WholeInv'
  BY StutterKeepsWhole, NextIsAction, ActionKeepsWhole DEF WholeInv, OneRunInv, RetestInv
<1>2. WholeInv => NothingDangles
  BY WholeIsNothingDangles DEF WholeInv
<1>3. QED
  BY WholeInit, <1>1, <1>2, PTL DEF RetestSpec
===============================================================================
