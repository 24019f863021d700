------------------------------ MODULE Planning ------------------------------
(***************************************************************************)
(* Requirements, flows, test cases and the test requests that select them, *)
(* as the calls of requirementApi, flowApi, testCaseApi, testRequestApi    *)
(* and testRunApi.create leave them in the two stores.  Every call of the  *)
(* domain RPC reads the four collections from PostgreSQL, runs the method, *)
(* writes the file of the other collections and then replaces the four     *)
(* tables in one transaction (domain-rpc-server.cjs,                       *)
(* postgres-test-management-state.cjs).  The transaction may be refused by *)
(* a foreign key, fail, or never start because the process died: the file  *)
(* is written by then.  Calls that overlap are the subject of DomainRpc.   *)
(***************************************************************************)
EXTENDS Naturals, FiniteSets

CONSTANTS
    MaxRequests,        \* test requests, numbered by age
    Applications,
    AppOf,              \* the application of each test request
    MaxRequirements, MaxFlows, MaxCases, MaxExecutions

Request == 1..MaxRequests
Requirement == 1..MaxRequirements
Flow == 1..MaxFlows
Case == 1..MaxCases
Execution == 1..MaxExecutions

\* The missing reference: null, undefined or the empty string.
Nothing == 0

ASSUME PlanningAssumption ==
    /\ MaxRequests \in Nat \ {0} /\ MaxRequirements \in Nat \ {0}
    /\ MaxFlows \in Nat /\ MaxCases \in Nat \ {0} /\ MaxExecutions \in Nat
    /\ Applications # {}
    /\ AppOf \in [Request -> Applications]

VARIABLES
    store,              \* the four tables: [requests, requirements, flows, cases]
    executions          \* the test runs, kept in memory and in the file

planningVars == <<store, executions>>

RequestStatus == {"DRAFT", "SUBMITTED", "ACCEPTED", "REJECTED"}
RequirementStatus == {"DRAFT", "COMPLETED", "APPROVED"}

RequestRow == [status : RequestStatus, selected : SUBSET Requirement]
RequirementRow ==
    [exists : BOOLEAN, app : Applications, status : RequirementStatus,
     request : Request \cup {Nothing}]
FlowRow == [exists : BOOLEAN, requirement : Requirement \cup {Nothing}]
CaseRow ==
    [exists : BOOLEAN, app : Applications, request : Request \cup {Nothing},
     requirement : Requirement, flow : Flow \cup {Nothing},
     written : BOOLEAN,         \* every text field is filled in
     active : BOOLEAN, status : {"DRAFT", "READY"}]
ExecutionRow ==
    [exists : BOOLEAN, case : Case, request : Request, app : Applications,
     locked : BOOLEAN]          \* the run or one of its bugs is locked

\* What stands in for a row that is not there.
AnyApplication == CHOOSE a \in Applications : TRUE
NoRequirement ==
    [exists |-> FALSE, app |-> AnyApplication, status |-> "DRAFT", request |-> Nothing]
NoFlow == [exists |-> FALSE, requirement |-> Nothing]
NoCase ==
    [exists |-> FALSE, app |-> AnyApplication, request |-> Nothing, requirement |-> 1,
     flow |-> Nothing, written |-> TRUE, active |-> FALSE, status |-> "DRAFT"]
NoExecution ==
    [exists |-> FALSE, case |-> 1, request |-> 1, app |-> AnyApplication, locked |-> FALSE]

(***************************************************************************)
(* What the methods look up.                                               *)
(***************************************************************************)
IsFinished(r) == r \in {"COMPLETED", "APPROVED"}

RequirementHasFlow(s, r) ==
    \E f \in Flow : s.flows[f].exists /\ s.flows[f].requirement = r

IsRequirementReadyForTestCase(s, r) ==
    s.requirements[r].exists /\ IsFinished(s.requirements[r].status)

FlowOf(s, f, r) ==
    f \in Flow /\ s.flows[f].exists /\ s.flows[f].requirement = r

\* A request or none is of the application.
InApplication(q, a) == q \in {Nothing} \cup {p \in Request : AppOf[p] = a}

\* The request of the requirement, or the newest accepted one that selects it.
ResolveTestRequest(s, r) ==
    IF s.requirements[r].request # Nothing THEN s.requirements[r].request
    ELSE LET selecting == {q \in Request :
                 r \in s.requests[q].selected /\ s.requests[q].status = "ACCEPTED"}
         IN  IF selecting = {} THEN Nothing
             ELSE CHOOSE q \in selecting : \A p \in selecting : p <= q

Complete(s, c) ==
    c.written /\ IsRequirementReadyForTestCase(s, c.requirement)
              /\ FlowOf(s, c.flow, c.requirement)

WithReadiness(s, c) ==
    [c EXCEPT !.status = IF c.active /\ Complete(s, c) THEN "READY" ELSE "DRAFT"]

CanDeleteRunCascade(e) == ~executions[e].locked

(***************************************************************************)
(* Saving.  The transaction upserts every row, then deletes the rows that  *)
(* are no longer there: cases, flows, requirements.  A flow goes with its  *)
(* requirement and a case loses a flow that goes; a case that is left      *)
(* keeps its requirement from going, which refuses the whole transaction,  *)
(* as does a flow of a requirement that never was.                         *)
(***************************************************************************)
SaveIsAccepted(before, after) ==
    /\ \A f \in Flow : after.flows[f].exists =>
          /\ after.flows[f].requirement \in Requirement
          /\ \/ before.requirements[after.flows[f].requirement].exists
             \/ after.requirements[after.flows[f].requirement].exists
    /\ \A c \in Case : after.cases[c].exists =>
          after.requirements[after.cases[c].requirement].exists

FlowStays(s, f) ==
    s.flows[f].exists /\ s.flows[f].requirement \in Requirement
                      /\ s.requirements[s.flows[f].requirement].exists

Saved(s) ==
    [requests |-> [q \in Request |->
        [s.requests[q] EXCEPT
            !.selected = {r \in @ : s.requirements[r].exists}]],
     requirements |-> s.requirements,
     flows |-> [f \in Flow |-> IF FlowStays(s, f) THEN s.flows[f] ELSE NoFlow],
     cases |-> [c \in Case |->
        [s.cases[c] EXCEPT
            !.flow = IF @ \in Flow /\ FlowStays(s, @) THEN @ ELSE Nothing]]]

SettlesTablesFirst(after, runs) ==
    /\ SaveIsAccepted(store, after) /\ store' = Saved(after)
    /\ executions' \in {executions, runs}

SettlesDetached(after, runs) ==
    /\ executions' = runs
    /\ store' = [Saved(after) EXCEPT !.cases = [c \in Case |->
                   IF @[c].exists /\ ~after.requirements[@[c].requirement].exists
                   THEN [@[c] EXCEPT !.requirement = Nothing] ELSE @[c]]]

\* The end of a call whose method left `after` and `runs` in memory: the file
\* is written first, and the tables may or may not follow.
Settles(after, runs) ==
    /\ executions' = runs
    /\ \/ store' = store
       \/ SaveIsAccepted(store, after) /\ store' = Saved(after)

(***************************************************************************)
(* Test requests.                                                          *)
(***************************************************************************)
\* validateRequirementIdsForApplication
SelectionIsValid(q, selected) ==
    \A r \in selected : /\ store.requirements[r].exists
                        /\ store.requirements[r].app = AppOf[q]

\* testRequestApi.create and update, as far as the selection goes.
SelectRequirements(q, selected) ==
    /\ SelectionIsValid(q, selected)
    /\ Settles([store EXCEPT !.requests[q].selected = selected], executions)

SubmitTestRequest(q) ==
    /\ store.requests[q].status = "DRAFT"
    /\ SelectionIsValid(q, store.requests[q].selected)
    /\ Settles([store EXCEPT !.requests[q].status = "SUBMITTED"], executions)

\* Acceptance approves the requirements of the request that have a flow.
ReviewTestRequest(q, decision) ==
    /\ store.requests[q].status = "SUBMITTED"
    /\ Settles(
         [store EXCEPT
            !.requests[q].status = decision,
            !.requirements = [r \in Requirement |->
                IF /\ decision = "ACCEPTED" /\ @[r].exists /\ @[r].request = q
                   /\ RequirementHasFlow(store, r)
                THEN [@[r] EXCEPT !.status = "APPROVED"] ELSE @[r]]],
         executions)

(***************************************************************************)
(* Requirements and flows.                                                 *)
(***************************************************************************)
CreateRequirement(r, a, q) ==
    /\ ~store.requirements[r].exists /\ InApplication(q, a)
    /\ Settles([store EXCEPT !.requirements[r] =
                  [exists |-> TRUE, app |-> a, status |-> "DRAFT", request |-> q]],
               executions)

UpdateRequirementUnscoped(r, status, q) ==
    /\ store.requirements[r].exists
    /\ IsFinished(status) /\ status # store.requirements[r].status =>
          RequirementHasFlow(store, r)
    /\ Settles([store EXCEPT !.requirements[r].status = status,
                             !.requirements[r].request = q],
               executions)

UpdateRequirement(r, status, q) ==
    /\ store.requirements[r].exists
    /\ InApplication(q, store.requirements[r].app)
    /\ IsFinished(status) /\ status # store.requirements[r].status =>
          RequirementHasFlow(store, r)
    /\ Settles([store EXCEPT !.requirements[r].status = status,
                             !.requirements[r].request = q],
               executions)

ApproveRequirement(r) ==
    /\ store.requirements[r].exists /\ store.requirements[r].status # "APPROVED"
    /\ RequirementHasFlow(store, r)
    /\ Settles([store EXCEPT !.requirements[r].status = "APPROVED"], executions)

\* The method checks nothing; the save does.
DeleteRequirement(r) ==
    /\ store.requirements[r].exists
    /\ Settles([store EXCEPT !.requirements[r] = NoRequirement], executions)

\* Any requirement is taken, one that is not there too.
CreateFlow(f, r) ==
    /\ ~store.flows[f].exists
    /\ Settles([store EXCEPT !.flows[f] = [exists |-> TRUE, requirement |-> r]],
               executions)

UpdateFlow(f, r) ==
    /\ store.flows[f].exists
    /\ Settles([store EXCEPT !.flows[f].requirement = r], executions)

DeleteFlow(f) ==
    /\ store.flows[f].exists
    /\ Settles([store EXCEPT !.flows[f] = NoFlow], executions)

(***************************************************************************)
(* Test cases.                                                             *)
(***************************************************************************)
\* What create and update demand of the requirement, flow and request given.
MayRelate(r, f, q) ==
    /\ IsRequirementReadyForTestCase(store, r)
    /\ FlowOf(store, f, r)
    /\ InApplication(q, store.requirements[r].app)

CreateTestCase(c, r, f, q, active) ==
    LET request == IF q # Nothing THEN q ELSE ResolveTestRequest(store, r)
        row == [exists |-> TRUE, app |-> store.requirements[r].app,
                request |-> request, requirement |-> r, flow |-> f,
                written |-> TRUE, active |-> active, status |-> "DRAFT"]
    IN  /\ ~store.cases[c].exists
        /\ MayRelate(r, f, request)
        /\ Settles([store EXCEPT !.cases[c] = WithReadiness(store, row)],
                   executions)

\* The fields left out of the form keep their value; the request is looked up
\* anew when the form names a requirement or a flow but no request.
UpdateTestCase(c, r, f, request, written, active) ==
    LET old == store.cases[c]
        row == [old EXCEPT !.requirement = r, !.flow = f, !.request = request,
                           !.written = written, !.active = active]
    IN  /\ old.exists
        /\ request \in {old.request, ResolveTestRequest(store, r)} \cup Request
        /\ MayRelate(r, f, request)
        /\ store.requirements[r].app = old.app
        /\ Settles([store EXCEPT !.cases[c] = WithReadiness(store, row)],
                   executions)

ExecutionsOf(c) == {e \in Execution : executions[e].exists /\ executions[e].case = c}

\* All the runs of the case go with it, or the case stays.
DeleteTestCase(c) ==
    /\ store.cases[c].exists
    /\ \A e \in ExecutionsOf(c) : CanDeleteRunCascade(e)
    /\ Settles([store EXCEPT !.cases[c] = NoCase],
               [e \in Execution |->
                  IF e \in ExecutionsOf(c) THEN NoExecution ELSE executions[e]])

(***************************************************************************)
(* Test runs.                                                              *)
(***************************************************************************)
MayExecuteAsStored(c, q) ==
    /\ store.cases[c].exists /\ store.cases[c].status = "READY"
    /\ q \in Request
    /\ AppOf[q] = store.cases[c].app

MayExecute(c, q) ==
    /\ store.cases[c].exists
    /\ WithReadiness(store, store.cases[c]).status = "READY"
    /\ q \in Request
    /\ AppOf[q] = store.cases[c].app
    /\ AppOf[q] = store.requirements[store.cases[c].requirement].app

\* The run is of the request the form names, or of the one of the case.
CreateTestRun(e, c, q) ==
    LET request == IF q # Nothing THEN q ELSE store.cases[c].request
    IN  /\ ~executions[e].exists
        /\ MayExecute(c, request)
        /\ Settles([store EXCEPT !.cases[c] = WithReadiness(store, @)],
                   [executions EXCEPT ![e] =
                      [exists |-> TRUE, case |-> c, request |-> request,
                       app |-> AppOf[request], locked |-> FALSE]])

\* Version decisions lock runs and their bugs, and unlocking frees them.
LockOrUnlock(e) ==
    /\ executions[e].exists
    /\ Settles(store, [executions EXCEPT ![e].locked = ~@])

-----------------------------------------------------------------------------
\* The requests are there, in draft and without a selection.
PlanningInit ==
    /\ store = [requests |-> [q \in Request |-> [status |-> "DRAFT", selected |-> {}]],
                requirements |-> [r \in Requirement |-> NoRequirement],
                flows |-> [f \in Flow |-> NoFlow],
                cases |-> [c \in Case |-> NoCase]]
    /\ executions = [e \in Execution |-> NoExecution]

RequestCall ==
    \/ \E q \in Request, selected \in SUBSET Requirement : SelectRequirements(q, selected)
    \/ \E q \in Request : SubmitTestRequest(q)
    \/ \E q \in Request, d \in {"ACCEPTED", "REJECTED"} : ReviewTestRequest(q, d)

RequirementCall ==
    \/ \E r \in Requirement, a \in Applications, q \in Request \cup {Nothing} :
         CreateRequirement(r, a, q)
    \/ \E r \in Requirement, s \in RequirementStatus, q \in Request \cup {Nothing} :
         UpdateRequirement(r, s, q)
    \/ \E r \in Requirement : ApproveRequirement(r)
    \/ \E r \in Requirement : DeleteRequirement(r)

FlowCall ==
    \/ \E f \in Flow, r \in Requirement \cup {Nothing} : CreateFlow(f, r)
    \/ \E f \in Flow, r \in Requirement \cup {Nothing} : UpdateFlow(f, r)
    \/ \E f \in Flow : DeleteFlow(f)

CaseCall ==
    \/ \E c \in Case, r \in Requirement, f \in Flow, q \in Request \cup {Nothing}, v \in BOOLEAN :
         CreateTestCase(c, r, f, q, v)
    \/ \E c \in Case, r \in Requirement, f \in Flow, q \in Request \cup {Nothing},
          w \in BOOLEAN, v \in BOOLEAN : UpdateTestCase(c, r, f, q, w, v)
    \/ \E c \in Case : DeleteTestCase(c)

RunCall ==
    \/ \E e \in Execution, c \in Case, q \in Request \cup {Nothing} : CreateTestRun(e, c, q)
    \/ \E e \in Execution : LockOrUnlock(e)

PlanningNext == RequestCall \/ RequirementCall \/ FlowCall \/ CaseCall \/ RunCall
PlanningSpec == PlanningInit /\ [][PlanningNext]_planningVars

-----------------------------------------------------------------------------
(* Both stores hold rows of their types.                                   *)
PlanningTypeOK ==
    /\ store \in [requests : [Request -> RequestRow],
                  requirements : [Requirement -> RequirementRow],
                  flows : [Flow -> FlowRow], cases : [Case -> CaseRow]]
    /\ executions \in [Execution -> ExecutionRow]

(* Nothing links two applications (CARTABLE_REQUIREMENTS.md:20): a         *)
(* requirement, a case and a run are of the application of the request     *)
(* they name, a case is of that of its requirement, and a request selects  *)
(* requirements of its own.  Each link is checked by the method that makes *)
(* it only, and the two ends change in calls of different services.        *)
SameApplication ==
    /\ \A r \in Requirement : store.requirements[r].exists =>
          InApplication(store.requirements[r].request, store.requirements[r].app)
    /\ \A q \in Request : \A r \in store.requests[q].selected :
          AppOf[q] = store.requirements[r].app
    /\ \A c \in Case : store.cases[c].exists =>
          /\ InApplication(store.cases[c].request, store.cases[c].app)
          /\ store.cases[c].app = store.requirements[store.cases[c].requirement].app
    /\ \A e \in Execution : executions[e].exists =>
          /\ AppOf[executions[e].request] = executions[e].app
          /\ store.cases[executions[e].case].app = executions[e].app

(* No row names one that is gone, whatever was deleted under it, refused   *)
(* by the database or cut short between the two stores: a case has its     *)
(* requirement, a flow too, and a run in the file has its case in the      *)
(* table.                                                                  *)
NothingIsOrphaned ==
    /\ \A r \in Requirement, q \in Request :
          r \in store.requests[q].selected => store.requirements[r].exists
    /\ \A f \in Flow : store.flows[f].exists =>
          /\ store.flows[f].requirement \in Requirement
          /\ store.requirements[store.flows[f].requirement].exists
    /\ \A c \in Case : store.cases[c].exists =>
          /\ store.requirements[store.cases[c].requirement].exists
          /\ store.cases[c].flow \in Flow => store.flows[store.cases[c].flow].exists
    /\ \A e \in Execution : executions[e].exists => store.cases[executions[e].case].exists

(* A run is only made of a case that is ready by what the tables hold at   *)
(* that moment (ASSUMPTIONS.md:65-66): its requirement finished and not    *)
(* reopened, its flow still one of that requirement, whatever the status   *)
(* stored with the case says.                                              *)
RunsAreOfReadyCases ==
    [][\A e \in Execution : ~executions[e].exists /\ executions'[e].exists =>
         LET c == store.cases[executions'[e].case]
         IN  /\ c.exists /\ c.active /\ c.written
             /\ store.requirements[c.requirement].exists
             /\ IsFinished(store.requirements[c.requirement].status)
             /\ \E f \in Flow : /\ f = c.flow /\ store.flows[f].exists
                                /\ store.flows[f].requirement = c.requirement]_planningVars
=============================================================================
