-------------------------- MODULE Planning_proofs --------------------------
(***************************************************************************)
(* Theorems about Planning, for any number of rows and applications.  A    *)
(* method computes what the tables should become; the transaction either   *)
(* leaves them, or takes that with the rows it filters and refuses.  So it *)
(* is enough that what a method computes is right wherever its rows will   *)
(* still be there, and that the runs it leaves in memory fit both.  The    *)
(* last theorems compose it with RpcClient and ContextStore, as            *)
(* MC_Services does.                                                       *)
(***************************************************************************)
EXTENDS MC_Services, Browser_proofs

StoreType ==
    [requests : [Request -> RequestRow], requirements : [Requirement -> RequirementRow],
     flows : [Flow -> FlowRow], cases : [Case -> CaseRow]]

\* One application, where both ends of a link are there.
AppsAgree(s) ==
    /\ \A r \in Requirement : s.requirements[r].exists =>
          InApplication(s.requirements[r].request, s.requirements[r].app)
    /\ \A q \in Request : \A r \in s.requests[q].selected :
          s.requirements[r].exists => AppOf[q] = s.requirements[r].app
    /\ \A c \in Case : s.cases[c].exists =>
          /\ InApplication(s.cases[c].request, s.cases[c].app)
          /\ s.requirements[s.cases[c].requirement].exists =>
                s.cases[c].app = s.requirements[s.cases[c].requirement].app

\* Nothing in the tables points at a row that is gone.
Linked(s) ==
    /\ \A q \in Request : \A r \in s.requests[q].selected : s.requirements[r].exists
    /\ \A f \in Flow : s.flows[f].exists =>
          /\ s.flows[f].requirement \in Requirement
          /\ s.requirements[s.flows[f].requirement].exists
    /\ \A c \in Case : s.cases[c].exists =>
          /\ s.requirements[s.cases[c].requirement].exists
          /\ s.cases[c].flow \in Flow => s.flows[s.cases[c].flow].exists

\* The runs fit the cases of a table.
RunsFit(s, runs) ==
    \A e \in Execution : runs[e].exists =>
        /\ AppOf[runs[e].request] = runs[e].app
        /\ s.cases[runs[e].case].exists /\ s.cases[runs[e].case].app = runs[e].app

PlanningInv ==
    /\ store \in StoreType /\ executions \in [Execution -> ExecutionRow]
    /\ AppsAgree(store) /\ Linked(store) /\ RunsFit(store, executions)

LEMMA NoRows ==
  /\ NoRequirement \in RequirementRow /\ NoFlow \in FlowRow
  /\ NoCase \in CaseRow /\ NoExecution \in ExecutionRow
<1>1. AnyApplication \in Applications
  BY PlanningAssumption DEF AnyApplication
<1>2. 1 \in Requirement /\ 1 \in Case /\ 1 \in Request
  BY PlanningAssumption DEF Requirement, Case, Request
<1> QED
  BY <1>1, <1>2 DEF NoRequirement, NoFlow, NoCase, NoExecution, RequirementRow, FlowRow,
     CaseRow, ExecutionRow, RequirementStatus

(***************************************************************************)
(* What the transaction keeps of what a method computed.                   *)
(***************************************************************************)
LEMMA SavedTyped ==
  ASSUME NEW s \in StoreType
  PROVE  Saved(s) \in StoreType
<1>1. \A q \in Request :
        [s.requests[q] EXCEPT !.selected = {r \in @ : s.requirements[r].exists}] \in RequestRow
  BY DEF StoreType, RequestRow
<1>2. \A f \in Flow : (IF FlowStays(s, f) THEN s.flows[f] ELSE NoFlow) \in FlowRow
  BY NoRows DEF StoreType
<1>3. \A c \in Case :
        [s.cases[c] EXCEPT !.flow = IF @ \in Flow /\ FlowStays(s, @) THEN @ ELSE Nothing] \in CaseRow
  BY DEF StoreType, CaseRow
<1> QED
  BY <1>1, <1>2, <1>3 DEF Saved, StoreType

LEMMA SavedRight ==
  ASSUME NEW s \in StoreType, NEW before, SaveIsAccepted(before, s), AppsAgree(s)
  PROVE  AppsAgree(Saved(s)) /\ Linked(Saved(s))
<1> DEFINE t == Saved(s)
<1>1. t.requirements = s.requirements
  BY DEF Saved
<1>2. \A q \in Request : t.requests[q].selected =
        {r \in s.requests[q].selected : s.requirements[r].exists}
  BY DEF Saved, StoreType, RequestRow
<1>3. \A f \in Flow : /\ FlowStays(s, f) => t.flows[f] = s.flows[f]
                      /\ ~FlowStays(s, f) => t.flows[f] = NoFlow
  BY DEF Saved
<1>4. \A c \in Case :
        /\ t.cases[c].exists = s.cases[c].exists /\ t.cases[c].app = s.cases[c].app
        /\ t.cases[c].request = s.cases[c].request
        /\ t.cases[c].requirement = s.cases[c].requirement
        /\ t.cases[c].flow = IF s.cases[c].flow \in Flow /\ FlowStays(s, s.cases[c].flow)
                             THEN s.cases[c].flow ELSE Nothing
  BY DEF Saved, StoreType, CaseRow
<1>5. \A c \in Case : s.cases[c].requirement \in Requirement
  BY DEF StoreType, CaseRow
<1>6. Nothing \notin Flow
  BY PlanningAssumption DEF Nothing, Flow
<1> HIDE DEF t
<1>7. AppsAgree(t)
  BY <1>1, <1>2, <1>4, <1>5 DEF AppsAgree
<1>8. \A q \in Request : \A r \in t.requests[q].selected : t.requirements[r].exists
  BY <1>1, <1>2
<1>9. \A f \in Flow : t.flows[f].exists =>
          /\ t.flows[f].requirement \in Requirement
          /\ t.requirements[t.flows[f].requirement].exists
  BY <1>1, <1>3 DEF FlowStays, NoFlow
<1>10. \A c \in Case : t.cases[c].exists =>
          /\ t.requirements[t.cases[c].requirement].exists
          /\ t.cases[c].flow \in Flow => t.flows[t.cases[c].flow].exists
  <2> SUFFICES ASSUME NEW c \in Case, t.cases[c].exists
               PROVE  /\ t.requirements[t.cases[c].requirement].exists
                      /\ t.cases[c].flow \in Flow => t.flows[t.cases[c].flow].exists
    OBVIOUS
  <2>1. t.requirements[t.cases[c].requirement].exists
    BY <1>1, <1>4 DEF SaveIsAccepted
  <2>2. ASSUME t.cases[c].flow \in Flow PROVE t.flows[t.cases[c].flow].exists
    <3>1. t.cases[c].flow = s.cases[c].flow /\ FlowStays(s, s.cases[c].flow)
      BY <1>4, <1>6, <2>2
    <3>2. t.flows[s.cases[c].flow] = s.flows[s.cases[c].flow]
      BY <1>3, <2>2, <3>1
    <3> QED
      BY <3>1, <3>2 DEF FlowStays
  <2> QED
    BY <2>1, <2>2
<1> QED
  BY <1>7, <1>8, <1>9, <1>10 DEF Linked, t

LEMMA SavedFits ==
  ASSUME NEW s \in StoreType, NEW runs \in [Execution -> ExecutionRow], RunsFit(s, runs)
  PROVE  RunsFit(Saved(s), runs)
<1>1. \A c \in Case : /\ Saved(s).cases[c].exists = s.cases[c].exists
                      /\ Saved(s).cases[c].app = s.cases[c].app
  BY DEF Saved, StoreType, CaseRow
<1>2. \A e \in Execution : runs[e].case \in Case
  BY DEF ExecutionRow
<1> QED
  BY <1>1, <1>2 DEF RunsFit

\* The end of every call.
LEMMA SettlesKeeps ==
  ASSUME PlanningInv, NEW after \in StoreType, NEW runs \in [Execution -> ExecutionRow],
         AppsAgree(after), RunsFit(store, runs), RunsFit(after, runs), Settles(after, runs)
  PROVE  PlanningInv'
<1>1. CASE store' = store
  BY <1>1 DEF Settles, PlanningInv
<1>2. CASE SaveIsAccepted(store, after) /\ store' = Saved(after)
  BY <1>2, SavedTyped, SavedRight, SavedFits DEF Settles, PlanningInv
<1> QED
  BY <1>1, <1>2 DEF Settles

(***************************************************************************)
(* Test requests, requirements and flows: the cases and the runs stay.     *)
(***************************************************************************)
LEMMA SameCasesFit ==
  ASSUME PlanningInv, NEW s, s.cases = store.cases
  PROVE  RunsFit(store, executions) /\ RunsFit(s, executions)
BY DEF PlanningInv, RunsFit

LEMMA RequestsKeep ==
  ASSUME PlanningInv, RequestCall
  PROVE  PlanningInv'
<1> USE DEF StoreType
<1>1. ASSUME NEW q \in Request, NEW selected \in SUBSET Requirement, SelectRequirements(q, selected)
      PROVE  PlanningInv'
  <2> DEFINE after == [store EXCEPT !.requests[q].selected = selected]
  <2>1. after \in StoreType
    BY DEF PlanningInv, RequestRow
  <2>2. /\ after.requirements = store.requirements /\ after.cases = store.cases
        /\ \A p \in Request : after.requests[p].selected =
              IF p = q THEN selected ELSE store.requests[p].selected
    BY DEF PlanningInv, RequestRow
  <2>3. \A r \in selected : store.requirements[r].exists => AppOf[q] = store.requirements[r].app
    BY <1>1 DEF SelectRequirements, SelectionIsValid
  <2>4. Settles(after, executions)
    BY <1>1 DEF SelectRequirements
  <2> HIDE DEF after
  <2>5. AppsAgree(after)
    BY <2>2, <2>3 DEF AppsAgree, PlanningInv
  <2> QED
    BY <2>1, <2>2, <2>4, <2>5, SameCasesFit, SettlesKeeps DEF PlanningInv
<1>2. ASSUME NEW q \in Request, SubmitTestRequest(q) PROVE PlanningInv'
  <2> DEFINE after == [store EXCEPT !.requests[q].status = "SUBMITTED"]
  <2>1. after \in StoreType
    BY DEF PlanningInv, RequestRow, RequestStatus
  <2>2. /\ after.requirements = store.requirements /\ after.cases = store.cases
        /\ \A p \in Request : after.requests[p].selected = store.requests[p].selected
    BY DEF PlanningInv, RequestRow
  <2>3. Settles(after, executions)
    BY <1>2 DEF SubmitTestRequest
  <2> HIDE DEF after
  <2>4. AppsAgree(after)
    BY <2>2 DEF AppsAgree, PlanningInv
  <2> QED
    BY <2>1, <2>2, <2>3, <2>4, SameCasesFit, SettlesKeeps DEF PlanningInv
<1>3. ASSUME NEW q \in Request, NEW decision \in {"ACCEPTED", "REJECTED"},
             ReviewTestRequest(q, decision)
      PROVE  PlanningInv'
  <2> DEFINE approved == [r \in Requirement |->
               IF /\ decision = "ACCEPTED" /\ store.requirements[r].exists
                  /\ store.requirements[r].request = q /\ RequirementHasFlow(store, r)
               THEN [store.requirements[r] EXCEPT !.status = "APPROVED"]
               ELSE store.requirements[r]]
             after == [store EXCEPT !.requests[q].status = decision, !.requirements = approved]
  <2>1. approved \in [Requirement -> RequirementRow]
    BY DEF PlanningInv, RequirementRow, RequirementStatus
  <2>2. \A r \in Requirement : /\ approved[r].exists = store.requirements[r].exists
                               /\ approved[r].app = store.requirements[r].app
                               /\ approved[r].request = store.requirements[r].request
    BY DEF PlanningInv, RequirementRow
  <2>3. Settles(after, executions)
    BY <1>3 DEF ReviewTestRequest, PlanningInv
  <2> HIDE DEF approved
  <2>4. after \in StoreType
    <3>1. [store.requests EXCEPT ![q].status = decision] \in [Request -> RequestRow]
      BY DEF PlanningInv, RequestRow, RequestStatus
    <3>2. after = [store EXCEPT !.requests = [store.requests EXCEPT ![q].status = decision],
                                !.requirements = approved]
      BY DEF PlanningInv
    <3> QED
      BY <2>1, <3>1, <3>2 DEF PlanningInv
  <2>5. /\ after.requirements = approved /\ after.cases = store.cases
        /\ \A p \in Request : after.requests[p].selected = store.requests[p].selected
    BY DEF PlanningInv, RequestRow
  <2>6. /\ \A p \in Request : store.requests[p].selected \subseteq Requirement
        /\ \A c \in Case : store.cases[c].requirement \in Requirement
    BY DEF PlanningInv, RequestRow, CaseRow
  <2> HIDE DEF after
  <2>7. AppsAgree(after)
    BY <2>2, <2>5, <2>6 DEF AppsAgree, PlanningInv
  <2> QED
    BY <2>3, <2>4, <2>5, <2>7, SameCasesFit, SettlesKeeps DEF PlanningInv
<1> QED
  BY <1>1, <1>2, <1>3 DEF RequestCall

LEMMA RequirementsKeep ==
  ASSUME PlanningInv, RequirementCall
  PROVE  PlanningInv'
<1> USE DEF StoreType
<1>0. /\ \A p \in Request : store.requests[p].selected \subseteq Requirement
      /\ \A c \in Case : store.cases[c].requirement \in Requirement
  BY DEF PlanningInv, RequestRow, CaseRow
<1>1. ASSUME NEW r \in Requirement, NEW x \in RequirementRow,
             x.exists => /\ InApplication(x.request, x.app)
                         /\ store.requirements[r].exists => x.app = store.requirements[r].app,
             Settles([store EXCEPT !.requirements[r] = x], executions)
      PROVE  PlanningInv'
  \* A requirement that was not there is selected by no request and has no case.
  <2> DEFINE after == [store EXCEPT !.requirements[r] = x]
  <2>1. after \in StoreType
    BY DEF PlanningInv
  <2>2. /\ after.requests = store.requests /\ after.cases = store.cases
        /\ \A p \in Requirement : after.requirements[p] =
              IF p = r THEN x ELSE store.requirements[p]
    BY DEF PlanningInv
  <2> HIDE DEF after
  <2>3. \A p \in Requirement : after.requirements[p].exists =>
           InApplication(after.requirements[p].request, after.requirements[p].app)
    BY <1>1, <2>2 DEF AppsAgree, PlanningInv
  <2>4. ASSUME NEW q \in Request, NEW p \in after.requests[q].selected,
               after.requirements[p].exists
        PROVE  AppOf[q] = after.requirements[p].app
    <3>1. p \in Requirement /\ store.requirements[p].exists
      BY <1>0, <2>2, <2>4 DEF PlanningInv, Linked
    <3>2. AppOf[q] = store.requirements[p].app
      BY <2>2, <2>4, <3>1 DEF PlanningInv, AppsAgree
    <3> QED
      BY <1>1, <2>2, <2>4, <3>1, <3>2
  <2>5. ASSUME NEW c \in Case, after.cases[c].exists
        PROVE  /\ InApplication(after.cases[c].request, after.cases[c].app)
               /\ after.requirements[after.cases[c].requirement].exists =>
                     after.cases[c].app = after.requirements[after.cases[c].requirement].app
    <3> DEFINE p == store.cases[c].requirement
    <3>1. p \in Requirement /\ store.requirements[p].exists
      BY <1>0, <2>2, <2>5 DEF PlanningInv, Linked
    <3>2. /\ InApplication(store.cases[c].request, store.cases[c].app)
          /\ store.cases[c].app = store.requirements[p].app
      BY <2>2, <2>5, <3>1 DEF PlanningInv, AppsAgree
    <3> QED
      BY <1>1, <2>2, <2>5, <3>1, <3>2
  <2>6. AppsAgree(after)
    BY <2>3, <2>4, <2>5 DEF AppsAgree
  <2>7. Settles(after, executions)
    BY <1>1 DEF after
  <2> QED
    BY <2>1, <2>2, <2>6, <2>7, SameCasesFit, SettlesKeeps DEF PlanningInv
<1>2. ASSUME NEW r \in Requirement, NEW a \in Applications, NEW q \in Request \cup {Nothing},
             CreateRequirement(r, a, q)
      PROVE  PlanningInv'
  <2> DEFINE x == [exists |-> TRUE, app |-> a, status |-> "DRAFT", request |-> q]
  <2>1. x \in RequirementRow /\ x.request = q /\ x.app = a
    BY DEF RequirementRow, RequirementStatus
  <2>2. Settles([store EXCEPT !.requirements[r] = x], executions) /\ InApplication(q, a)
        /\ ~store.requirements[r].exists
    BY <1>2 DEF CreateRequirement
  <2> HIDE DEF x
  <2> QED
    BY <1>1, <2>1, <2>2
<1>3. ASSUME NEW r \in Requirement, NEW status \in RequirementStatus,
             NEW q \in Request \cup {Nothing}, UpdateRequirement(r, status, q)
      PROVE  PlanningInv'
  <2> DEFINE x == [store.requirements[r] EXCEPT !.status = status, !.request = q]
  <2>1. /\ x \in RequirementRow /\ x.request = q /\ x.app = store.requirements[r].app
    BY DEF RequirementRow, PlanningInv
  <2>2. [store EXCEPT !.requirements[r].status = status, !.requirements[r].request = q]
          = [store EXCEPT !.requirements[r] = x]
    BY DEF PlanningInv, RequirementRow
  <2>3. Settles([store EXCEPT !.requirements[r] = x], executions)
        /\ InApplication(q, store.requirements[r].app)
    BY <1>3, <2>2 DEF UpdateRequirement
  <2> HIDE DEF x
  <2> QED
    BY <1>1, <2>1, <2>3
<1>4. ASSUME NEW r \in Requirement, ApproveRequirement(r) PROVE PlanningInv'
  <2> DEFINE x == [store.requirements[r] EXCEPT !.status = "APPROVED"]
  <2>1. /\ x \in RequirementRow /\ x.request = store.requirements[r].request
        /\ x.app = store.requirements[r].app /\ x.exists = store.requirements[r].exists
    BY DEF RequirementRow, RequirementStatus, PlanningInv
  <2>2. [store EXCEPT !.requirements[r].status = "APPROVED"]
          = [store EXCEPT !.requirements[r] = x]
    BY DEF PlanningInv
  <2>3. Settles([store EXCEPT !.requirements[r] = x], executions)
    BY <1>4, <2>2 DEF ApproveRequirement
  <2> HIDE DEF x
  <2> QED
    BY <1>1, <2>1, <2>3 DEF PlanningInv, AppsAgree
<1>5. ASSUME NEW r \in Requirement, DeleteRequirement(r) PROVE PlanningInv'
  <2>1. NoRequirement \in RequirementRow /\ ~NoRequirement.exists
    BY NoRows DEF NoRequirement
  <2>2. Settles([store EXCEPT !.requirements[r] = NoRequirement], executions)
    BY <1>5 DEF DeleteRequirement
  <2> QED
    BY <1>1, <2>1, <2>2
<1> QED
  BY <1>2, <1>3, <1>4, <1>5 DEF RequirementCall

LEMMA FlowsKeep ==
  ASSUME PlanningInv, FlowCall
  PROVE  PlanningInv'
<1> USE DEF StoreType
<1>1. ASSUME NEW f \in Flow, NEW x \in FlowRow,
             Settles([store EXCEPT !.flows[f] = x], executions)
      PROVE  PlanningInv'
  <2> DEFINE after == [store EXCEPT !.flows[f] = x]
  <2>1. after \in StoreType
    BY DEF PlanningInv
  <2>2. /\ after.requests = store.requests /\ after.cases = store.cases
        /\ after.requirements = store.requirements
    BY DEF PlanningInv
  <2>3. Settles(after, executions)
    BY <1>1
  <2> HIDE DEF after
  <2>4. AppsAgree(after)
    BY <2>2 DEF AppsAgree, PlanningInv
  <2> QED
    BY <2>1, <2>2, <2>3, <2>4, SameCasesFit, SettlesKeeps DEF PlanningInv
<1>2. ASSUME NEW f \in Flow, NEW r \in Requirement \cup {Nothing}, CreateFlow(f, r)
      PROVE  PlanningInv'
  <2>1. [exists |-> TRUE, requirement |-> r] \in FlowRow
    BY DEF FlowRow
  <2> QED
    BY <1>1, <1>2, <2>1 DEF CreateFlow
<1>3. ASSUME NEW f \in Flow, NEW r \in Requirement \cup {Nothing}, UpdateFlow(f, r)
      PROVE  PlanningInv'
  <2> DEFINE x == [store.flows[f] EXCEPT !.requirement = r]
  <2>1. x \in FlowRow
    BY DEF FlowRow, PlanningInv
  <2>2. [store EXCEPT !.flows[f].requirement = r] = [store EXCEPT !.flows[f] = x]
    BY DEF PlanningInv
  <2>3. Settles([store EXCEPT !.flows[f] = x], executions)
    BY <1>3, <2>2 DEF UpdateFlow
  <2> HIDE DEF x
  <2> QED
    BY <1>1, <2>1, <2>3
<1>4. ASSUME NEW f \in Flow, DeleteFlow(f) PROVE PlanningInv'
  BY <1>1, <1>4, NoRows DEF DeleteFlow
<1> QED
  BY <1>2, <1>3, <1>4 DEF FlowCall

(***************************************************************************)
(* Test cases and runs.                                                    *)
(***************************************************************************)
LEMMA ReadinessFact ==
  ASSUME NEW s, NEW x \in CaseRow
  PROVE  /\ WithReadiness(s, x) \in CaseRow
         /\ WithReadiness(s, x).exists = x.exists /\ WithReadiness(s, x).app = x.app
         /\ WithReadiness(s, x).request = x.request
         /\ WithReadiness(s, x).requirement = x.requirement
BY DEF WithReadiness, CaseRow

\* One case changes: what it links agrees, and the runs that stay are of it.
LEMMA CaseChanges ==
  ASSUME PlanningInv, NEW c \in Case, NEW x \in CaseRow,
         NEW runs \in [Execution -> ExecutionRow],
         x.exists => /\ InApplication(x.request, x.app)
                     /\ x.app = store.requirements[x.requirement].app,
         RunsFit(store, runs),
         \A e \in Execution : runs[e].exists /\ runs[e].case = c =>
            x.exists /\ x.app = store.cases[c].app,
         Settles([store EXCEPT !.cases[c] = x], runs)
  PROVE  PlanningInv'
<1> USE DEF StoreType
<1> DEFINE after == [store EXCEPT !.cases[c] = x]
<1>1. after \in StoreType
  BY DEF PlanningInv
<1>2. /\ after.requests = store.requests /\ after.requirements = store.requirements
      /\ \A d \in Case : after.cases[d] = IF d = c THEN x ELSE store.cases[d]
  BY DEF PlanningInv
<1>3. Settles(after, runs)
  OBVIOUS
<1> HIDE DEF after
<1>4. AppsAgree(after)
  BY <1>2 DEF AppsAgree, PlanningInv
<1>5. \A e \in Execution : runs[e].case \in Case
  BY DEF ExecutionRow
<1>6. RunsFit(after, runs)
  BY <1>2, <1>5 DEF RunsFit
<1> QED
  BY <1>1, <1>3, <1>4, <1>6, SettlesKeeps

LEMMA CasesKeep ==
  ASSUME PlanningInv, CaseCall
  PROVE  PlanningInv'
<1> USE DEF StoreType
<1>0. RunsFit(store, executions) /\ executions \in [Execution -> ExecutionRow]
  BY DEF PlanningInv
<1>1. ASSUME NEW c \in Case, NEW r \in Requirement, NEW f \in Flow,
             NEW q \in Request \cup {Nothing}, NEW active \in BOOLEAN,
             CreateTestCase(c, r, f, q, active)
      PROVE  PlanningInv'
  <2> DEFINE request == IF q # Nothing THEN q ELSE ResolveTestRequest(store, r)
             row == [exists |-> TRUE, app |-> store.requirements[r].app,
                     request |-> request, requirement |-> r, flow |-> f,
                     written |-> TRUE, active |-> active, status |-> "DRAFT"]
             x == WithReadiness(store, row)
  <2>1. InApplication(request, store.requirements[r].app) /\ ~store.cases[c].exists
    BY <1>1 DEF CreateTestCase, MayRelate
  <2>2. request \in Request \cup {Nothing}
    BY <2>1 DEF InApplication
  <2>3. row \in CaseRow
    BY <2>2 DEF CaseRow, PlanningInv, RequirementRow
  <2>4. /\ row.app = store.requirements[r].app /\ row.request = request
        /\ row.requirement = r
    OBVIOUS
  <2>5. Settles([store EXCEPT !.cases[c] = x], executions)
    BY <1>1 DEF CreateTestCase
  <2> HIDE DEF request, row
  <2>6. x \in CaseRow /\ x.app = row.app /\ x.request = row.request
        /\ x.requirement = row.requirement
    BY <2>3, ReadinessFact
  <2> HIDE DEF x
  <2>7. \A e \in Execution : ~(executions[e].exists /\ executions[e].case = c)
    BY <1>0, <2>1 DEF RunsFit
  <2> QED
    BY <1>0, <2>1, <2>4, <2>5, <2>6, <2>7, CaseChanges
<1>2. ASSUME NEW c \in Case, NEW r \in Requirement, NEW f \in Flow,
             NEW q \in Request \cup {Nothing}, NEW written \in BOOLEAN, NEW active \in BOOLEAN,
             UpdateTestCase(c, r, f, q, written, active)
      PROVE  PlanningInv'
  <2> DEFINE old == store.cases[c]
             row == [old EXCEPT !.requirement = r, !.flow = f, !.request = q,
                                !.written = written, !.active = active]
             x == WithReadiness(store, row)
  <2>1. /\ InApplication(q, store.requirements[r].app) /\ old.exists
        /\ store.requirements[r].app = old.app
    BY <1>2 DEF UpdateTestCase, MayRelate
  <2>2. /\ row \in CaseRow /\ row.exists = old.exists /\ row.app = old.app
        /\ row.request = q /\ row.requirement = r
    BY DEF CaseRow, PlanningInv
  <2>3. Settles([store EXCEPT !.cases[c] = x], executions)
    BY <1>2 DEF UpdateTestCase
  <2> HIDE DEF row
  <2>4. x \in CaseRow /\ x.exists = row.exists /\ x.app = row.app /\ x.request = row.request
        /\ x.requirement = row.requirement
    BY <2>2, ReadinessFact
  <2> HIDE DEF x
  <2>5. /\ InApplication(x.request, x.app) /\ x.exists /\ x.app = store.cases[c].app
        /\ x.app = store.requirements[x.requirement].app
    BY <2>1, <2>2, <2>4
  <2> QED
    BY <1>0, <2>3, <2>4, <2>5, CaseChanges
<1>3. ASSUME NEW c \in Case, DeleteTestCase(c) PROVE PlanningInv'
  <2> DEFINE runs == [e \in Execution |-> IF e \in ExecutionsOf(c) THEN NoExecution ELSE executions[e]]
  <2>1. runs \in [Execution -> ExecutionRow]
    BY <1>0, NoRows
  <2>2. \A e \in Execution : runs[e].exists =>
           runs[e] = executions[e] /\ runs[e].case # c
    BY DEF NoExecution, ExecutionsOf
  <2>3. Settles([store EXCEPT !.cases[c] = NoCase], runs)
    BY <1>3 DEF DeleteTestCase
  <2> HIDE DEF runs
  <2>4. RunsFit(store, runs)
    BY <1>0, <2>2 DEF RunsFit
  <2>5. NoCase \in CaseRow /\ ~NoCase.exists
    BY NoRows DEF NoCase
  <2>6. \A e \in Execution : ~(runs[e].exists /\ runs[e].case = c)
    BY <2>2
  <2> QED
    BY <2>1, <2>3, <2>4, <2>5, <2>6, CaseChanges
<1> QED
  BY <1>1, <1>2, <1>3 DEF CaseCall

\* A run is made of its case, which exists and is of the run's application.
LEMMA CreatedRun ==
  ASSUME PlanningInv, NEW e \in Execution, NEW c \in Case, NEW q \in Request \cup {Nothing},
         CreateTestRun(e, c, q)
  PROVE  \E request \in Request :
           /\ MayExecute(c, request)
           /\ Settles([store EXCEPT !.cases[c] = WithReadiness(store, store.cases[c])],
                      [executions EXCEPT ![e] =
                         [exists |-> TRUE, case |-> c, request |-> request,
                          app |-> AppOf[request], locked |-> FALSE]])
<1> DEFINE request == IF q # Nothing THEN q ELSE store.cases[c].request
<1>1. MayExecute(c, request) /\ request \in Request
  BY DEF CreateTestRun, MayExecute
<1>2. [store EXCEPT !.cases[c] = WithReadiness(store, @)]
        = [store EXCEPT !.cases[c] = WithReadiness(store, store.cases[c])]
  BY DEF PlanningInv, StoreType
<1> QED
  BY <1>1, <1>2 DEF CreateTestRun

LEMMA RunsKeep ==
  ASSUME PlanningInv, RunCall
  PROVE  PlanningInv'
<1>0. /\ RunsFit(store, executions) /\ executions \in [Execution -> ExecutionRow]
      /\ \A c \in Case : store.cases[c] \in CaseRow
  BY DEF PlanningInv, StoreType
<1>1. ASSUME NEW e \in Execution, NEW c \in Case, NEW q \in Request \cup {Nothing},
             CreateTestRun(e, c, q)
      PROVE  PlanningInv'
  <2>1. PICK request \in Request :
           /\ MayExecute(c, request)
           /\ Settles([store EXCEPT !.cases[c] = WithReadiness(store, store.cases[c])],
                      [executions EXCEPT ![e] =
                         [exists |-> TRUE, case |-> c, request |-> request,
                          app |-> AppOf[request], locked |-> FALSE]])
    BY <1>1, CreatedRun
  <2> DEFINE row == [exists |-> TRUE, case |-> c, request |-> request,
                     app |-> AppOf[request], locked |-> FALSE]
             runs == [executions EXCEPT ![e] = row]
             x == WithReadiness(store, store.cases[c])
  <2>2. row \in ExecutionRow /\ row.case = c /\ row.request = request /\ row.app = AppOf[request]
    BY PlanningAssumption DEF ExecutionRow
  <2>3. store.cases[c].exists /\ AppOf[request] = store.cases[c].app
    BY <2>1 DEF MayExecute
  <2> HIDE DEF row
  <2>4. /\ runs \in [Execution -> ExecutionRow]
        /\ \A d \in Execution : runs[d] = IF d = e THEN row ELSE executions[d]
    BY <1>0, <2>2
  <2>5. Settles([store EXCEPT !.cases[c] = x], runs)
    BY <2>1 DEF row
  <2> HIDE DEF runs
  <2>6. RunsFit(store, runs)
    BY <1>0, <2>2, <2>3, <2>4 DEF RunsFit
  <2>7. /\ x \in CaseRow /\ x.exists = store.cases[c].exists /\ x.app = store.cases[c].app
        /\ x.request = store.cases[c].request /\ x.requirement = store.cases[c].requirement
    BY <1>0, ReadinessFact
  <2> HIDE DEF x
  <2>8. InApplication(x.request, x.app) /\ x.app = store.requirements[x.requirement].app
    BY <2>3, <2>7 DEF PlanningInv, AppsAgree, Linked
  <2> QED
    BY <2>3, <2>4, <2>5, <2>6, <2>7, <2>8, CaseChanges
<1>2. ASSUME NEW e \in Execution, LockOrUnlock(e) PROVE PlanningInv'
  <2> DEFINE row == [executions[e] EXCEPT !.locked = ~@]
             runs == [executions EXCEPT ![e] = row]
  <2>1. /\ row \in ExecutionRow /\ row.exists = executions[e].exists
        /\ row.case = executions[e].case /\ row.request = executions[e].request
        /\ row.app = executions[e].app
    BY <1>0 DEF ExecutionRow
  <2>2. runs = [executions EXCEPT ![e].locked = ~@]
    BY <1>0
  <2>3. Settles(store, runs)
    BY <1>2, <2>2 DEF LockOrUnlock
  <2> HIDE DEF row
  <2>4. /\ runs \in [Execution -> ExecutionRow]
        /\ \A d \in Execution : runs[d] = IF d = e THEN row ELSE executions[d]
    BY <1>0, <2>1
  <2> HIDE DEF runs
  <2>5. RunsFit(store, runs)
    BY <1>0, <2>1, <2>4 DEF RunsFit
  <2> QED
    BY <2>3, <2>4, <2>5, SettlesKeeps DEF PlanningInv
<1> QED
  BY <1>1, <1>2 DEF RunCall

(***************************************************************************)
(* The theorems.                                                           *)
(***************************************************************************)
LEMMA PlanningInvariant == PlanningSpec => []PlanningInv
<1>1. PlanningInit => PlanningInv
  <2> SUFFICES ASSUME PlanningInit PROVE PlanningInv
    OBVIOUS
  <2>1. [status |-> "DRAFT", selected |-> {}] \in RequestRow
    BY DEF RequestRow, RequestStatus
  <2>2. store \in StoreType /\ executions \in [Execution -> ExecutionRow]
    BY <2>1, NoRows DEF PlanningInit, StoreType
  <2>3. AppsAgree(store) /\ Linked(store) /\ RunsFit(store, executions)
    BY DEF PlanningInit, AppsAgree, Linked, RunsFit, NoRequirement, NoFlow, NoCase, NoExecution
  <2> QED
    BY <2>2, <2>3 DEF PlanningInv
<1>2. PlanningInv /\ [PlanningNext]_planningVars => PlanningInv'
  <2> SUFFICES ASSUME PlanningInv, [PlanningNext]_planningVars PROVE PlanningInv'
    OBVIOUS
  <2>1. CASE UNCHANGED planningVars
    BY <2>1 DEF planningVars, PlanningInv
  <2>2. CASE PlanningNext
    BY <2>2, RequestsKeep, RequirementsKeep, FlowsKeep, CasesKeep, RunsKeep DEF PlanningNext
  <2> QED
    BY <2>1, <2>2
<1> QED
  BY <1>1, <1>2, PTL DEF PlanningSpec

(* Both stores keep rows of their types.                                   *)
THEOREM PlanningTyped == PlanningSpec => []PlanningTypeOK
<1>1. PlanningInv => PlanningTypeOK
  BY DEF PlanningInv, PlanningTypeOK, StoreType
<1> QED
  BY <1>1, PlanningInvariant, PTL

(* No sequence of calls, saved, refused or cut short, links two            *)
(* applications.                                                           *)
THEOREM SameApplicationHolds == PlanningSpec => []SameApplication
<1>1. PlanningInv => SameApplication
  <2> SUFFICES ASSUME PlanningInv PROVE SameApplication
    OBVIOUS
  <2>1. \A q \in Request : \A r \in store.requests[q].selected : store.requirements[r].exists
    BY DEF PlanningInv, Linked
  <2>2. \A c \in Case : store.cases[c].exists =>
            store.requirements[store.cases[c].requirement].exists
    BY DEF PlanningInv, Linked
  <2> QED
    BY <2>1, <2>2 DEF PlanningInv, AppsAgree, RunsFit, SameApplication
<1> QED
  BY <1>1, PlanningInvariant, PTL

(* No row of either store names one that is gone.                          *)
THEOREM NothingIsOrphanedHolds == PlanningSpec => []NothingIsOrphaned
<1>1. PlanningInv => NothingIsOrphaned
  BY DEF PlanningInv, Linked, RunsFit, NothingIsOrphaned
<1> QED
  BY <1>1, PlanningInvariant, PTL

\* Only testRun.create makes a run exist.
LEMMA OnlyCreateTestRun ==
  ASSUME PlanningInv, PlanningNext, NEW e \in Execution,
         ~executions[e].exists, executions'[e].exists
  PROVE  \E c \in Case : MayExecute(c, executions'[e].request) /\ executions'[e].case = c
<1>1. CASE RequestCall \/ RequirementCall \/ FlowCall
  <2>1. executions' = executions
    BY <1>1 DEF RequestCall, RequirementCall, FlowCall, SelectRequirements, SubmitTestRequest,
       ReviewTestRequest, CreateRequirement, UpdateRequirement, ApproveRequirement,
       DeleteRequirement, CreateFlow, UpdateFlow, DeleteFlow, Settles
  <2> QED
    BY <2>1
<1>2. CASE CaseCall
  <2>1. ASSUME NEW c \in Case, NEW r \in Requirement, NEW f \in Flow,
               NEW q \in Request \cup {Nothing}, NEW v \in BOOLEAN,
               CreateTestCase(c, r, f, q, v)
        PROVE  executions' = executions
    BY <2>1 DEF CreateTestCase, Settles
  <2>2. ASSUME NEW c \in Case, NEW r \in Requirement, NEW f \in Flow,
               NEW q \in Request \cup {Nothing}, NEW w \in BOOLEAN, NEW v \in BOOLEAN,
               UpdateTestCase(c, r, f, q, w, v)
        PROVE  executions' = executions
    BY <2>2 DEF UpdateTestCase, Settles
  <2>3. ASSUME NEW c \in Case, DeleteTestCase(c) PROVE FALSE
    <3>1. executions' = [d \in Execution |->
                           IF d \in ExecutionsOf(c) THEN NoExecution ELSE executions[d]]
      BY <2>3 DEF DeleteTestCase, Settles
    <3>2. executions'[e] = executions[e] \/ executions'[e] = NoExecution
      BY <3>1
    <3> QED
      BY <3>2 DEF NoExecution
  <2> QED
    BY <1>2, <2>1, <2>2, <2>3 DEF CaseCall
<1>3. ASSUME NEW d \in Execution, NEW c \in Case, NEW q \in Request \cup {Nothing},
             CreateTestRun(d, c, q)
      PROVE  \E b \in Case : MayExecute(b, executions'[e].request) /\ executions'[e].case = b
  <2>1. PICK request \in Request :
           /\ MayExecute(c, request)
           /\ Settles([store EXCEPT !.cases[c] = WithReadiness(store, store.cases[c])],
                      [executions EXCEPT ![d] =
                         [exists |-> TRUE, case |-> c, request |-> request,
                          app |-> AppOf[request], locked |-> FALSE]])
    BY <1>3, CreatedRun
  <2>2. executions' = [executions EXCEPT ![d] =
                         [exists |-> TRUE, case |-> c, request |-> request,
                          app |-> AppOf[request], locked |-> FALSE]]
    BY <2>1 DEF Settles
  <2>3. executions'[e].request = request /\ executions'[e].case = c
    BY <2>2 DEF PlanningInv
  <2> QED
    BY <2>1, <2>3
<1>4. ASSUME NEW d \in Execution, LockOrUnlock(d) PROVE FALSE
  BY <1>4 DEF LockOrUnlock, Settles, PlanningInv, ExecutionRow
<1> QED
  BY <1>1, <1>2, <1>3, <1>4 DEF PlanningNext, RunCall

(* A run is made only of a case that is ready when it is made, whatever    *)
(* status was stored with the case.                                        *)
THEOREM RunsOfReadyCases == PlanningSpec => RunsAreOfReadyCases
<1> DEFINE Made ==
      \A e \in Execution : ~executions[e].exists /\ executions'[e].exists =>
         LET c == store.cases[executions'[e].case]
         IN  /\ c.exists /\ c.active /\ c.written
             /\ store.requirements[c.requirement].exists
             /\ IsFinished(store.requirements[c.requirement].status)
             /\ \E f \in Flow : /\ f = c.flow /\ store.flows[f].exists
                                /\ store.flows[f].requirement = c.requirement
<1>1. PlanningInv /\ [PlanningNext]_planningVars => [Made]_planningVars
  <2> SUFFICES ASSUME PlanningInv, PlanningNext, NEW e \in Execution,
                      ~executions[e].exists, executions'[e].exists
               PROVE  LET c == store.cases[executions'[e].case]
                      IN  /\ c.exists /\ c.active /\ c.written
                          /\ store.requirements[c.requirement].exists
                          /\ IsFinished(store.requirements[c.requirement].status)
                          /\ \E f \in Flow : /\ f = c.flow /\ store.flows[f].exists
                                             /\ store.flows[f].requirement = c.requirement
    OBVIOUS
  <2>1. PICK c \in Case : MayExecute(c, executions'[e].request) /\ executions'[e].case = c
    BY OnlyCreateTestRun
  <2>2. store.cases[c].active /\ Complete(store, store.cases[c])
    BY <2>1 DEF MayExecute, WithReadiness, PlanningInv, StoreType, CaseRow
  <2> QED
    BY <2>1, <2>2 DEF MayExecute, Complete, IsRequirementReadyForTestCase, FlowOf
<1> QED
  BY <1>1, PlanningInvariant, PTL DEF PlanningSpec, RunsAreOfReadyCases

-------------------------------------------------------------------------------
(* The browser's client, planning and the user's contexts side by side, each   *)
(* behaviour with one of them in focus: every step is a step of each model or  *)
(* leaves it alone, so what holds of the models holds of all three together.   *)
THEOREM ServicesAreTheirParts == ServicesSpec => ClientSpec /\ PlanningSpec /\ ContextSpec
<1>1. ServicesInit => ClientInit /\ PlanningInit /\ ContextInit
  BY DEF ServicesInit
<1>2. ASSUME [ServicesNext]_servicesVars
      PROVE  [ClientNext]_clientVars /\ [PlanningNext]_planningVars /\ [ContextNext]_contextVars
  <2>1. CASE ClientNext /\ UNCHANGED <<planningVars, contextVars>>
    BY <2>1
  <2>2. CASE PlanningNext /\ UNCHANGED <<clientVars, contextVars>>
    BY <2>2
  <2>3. CASE ContextNext /\ UNCHANGED <<clientVars, planningVars>>
    BY <2>3
  <2>4. CASE UNCHANGED servicesVars
    BY <2>4 DEF servicesVars
  <2> QED
    BY <1>2, <2>1, <2>2, <2>3, <2>4 DEF ServicesNext
<1> QED
  BY <1>1, <1>2, PTL DEF ServicesSpec, ClientSpec, PlanningSpec, ContextSpec

(* Calls and flights, the rows of both stores, the page and its calls under    *)
(* way keep their types in the three models together.                          *)
THEOREM ServicesTyping == ServicesSpec => []ServicesTypeOK
<1>1. ClientTypeOK /\ PlanningTypeOK /\ ContextTypeOK => ServicesTypeOK
  BY DEF ServicesTypeOK
<1> QED
  BY <1>1, ServicesAreTheirParts, ClientTyped, PlanningTyped, ContextTyped, PTL
=============================================================================
