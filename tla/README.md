# UTMS: models, model checks and proofs

This directory holds TLA+ models of the stateful core of UTMS (the test-management
system in `src/`), the TLC configurations that check them on small instances, and TLAPS
proofs of the results that matter most for every value of the constants. Line numbers
refer to `src/apps/web/src/services/api.ts` unless another file is named;
`PROJECT.json` has the exact lines of every definition.

## 1. Inventory of the system

UTMS is a React application (`apps/web`) and a Node process (`apps/api`). Domain logic
lives in one large file of services, `api.ts`, which is bundled and executed by the Node
process; the browser calls it through `POST /api/domain/rpc` with a service name, a
method name and arguments, and falls back to its own local copy when the server fails.
The API console has a server and a store of its own.

| component | state | operations | hard because |
|---|---|---|---|
| domain RPC bridge (`domain-rpc-server.cjs`) | memoised start-up promise, single-flight map, loaded services | start up, hydrate, dispatch, join, clear, persist | every request re-reads four collections, calls a method, writes everything back; requests interleave at each await |
| PostgreSQL state (`postgres-test-management-state.cjs`) | test requests, requirements, flows, test cases | four separate reads, one write transaction of a whole snapshot | torn reads, lost updates, failures, refusals by foreign keys |
| state file (`persistentStore.ts`) | copy of all collections | load once, save per command and by a timer | restarts; written before the transaction that may fail |
| RPC client (`domainRpcClient.ts`) | circuit, half-open probe, read cache, flights | call, join, answer from the cache, fall back, invalidate | answers out of order; fallback after a lost answer; context switches between key and request |
| page contexts (`authStore.ts`) and sessions (`auth-session-server.cjs`) | page: user, contexts, active context; server: session | login, refresh, switch, logout, reload, expiry | each call reads the store before its awaits and writes it after them |
| requirements, flows, test cases (`requirementApi`, `flowApi`, `testCaseApi`) | rows in the tables | create, update, approve, delete, select, make runs of | links between rows of different services; two stores saved one after the other |
| runs, bugs, retest tasks, run issues (`testRunApi`, `bugApi`, `retestTaskApi`, `runIssueApi`) | four collections in memory | create, edit, delete, hand off, retest, start, complete, lock, unlock | one method awaits another in the middle; cascades; idempotency keys; locks in several fields |
| test requests and version histories (`testRequestApi`, `releasePublishApi`) | requests, versions | submit to assignment, automatic versions, QA verdict, re-run, decide, publish | one version spans several requests; late runs re-open it; locks and verdicts live in different rows |
| security review (`securityChecklistApi`) | template, review, items, evidence, executions, QA report | item results, evidence, findings, remediation rounds, completion | four roles hand the review around, and its end moves the version |
| command cache and traces | results by idempotency key | remember, answer | a repeated command with the same key is not executed |
| API console, server (`api-console-server.cjs`) | rows, shares with revisions, consumers, references, executions, documentation rows, in one JSON store | save, version, share, review, take, execute, merge documentation | whole-row saves of old copies; reviewers and owners act on the same share; executions await their target |
| API console, page (`OnlineApiConsolePage.tsx`) | selection, derived views, three sequence numbers, a suppress token | select, save, execute, archive, reload | five kinds of answers in any order |
| user service (`postgres-user-service.cjs`) | users, roles, one-time codes | CRUD, reset by code, replace roles | check, then act across queries |
| notifications and outbox, comments, checklists, attachments, reports | rows | create, list, mark | independent of the rest |

Interactions: the page components call a service through the client; the bridge
hydrates, calls and persists; services call each other in memory (`retestTask.start`
calls `testRun.create`, run updates call `markQaRetestExecutionRegistered`, list reads
of versions create versions, the end of a review moves a version). Only test requests,
requirements, flows and test cases go to PostgreSQL; runs, bugs, tasks, issues, reviews
and versions live in the process's memory and, where it is written, in the state file.

What makes each part correct is stated as the properties of section 4.

## 2. Modules

    DomainStore            the atomic store the bridge promises its callers
      ^ refinement
    DomainRpc              the bridge: requests, PostgreSQL, memory, state file
      MC_DomainRpc
      DomainRpc_proofs, DomainRpcSerial_proofs

    RetestFlow             runs, bugs, retest tasks, run issues
      MC_RetestFlow, RetestFlow_proofs
      ^ extends
    ReleaseWorkflow        requests and version histories, on the same rows
      MC_ReleaseWorkflow, ReleaseWorkflow_proofs
      refines ReleaseLedger, what it promises an auditor
      ^ extends and refines
    SecurityReview         the review that holds a version back
      MC_SecurityReview, SecurityReview_proofs

    RpcClient              the browser's side of the bridge
    ContextStore           the contexts of the page and the server's session
    Planning               requirements, flows, cases, runs in the two stores
      MC_Services          all three, side by side
      Browser_proofs (RpcClient, ContextStore),
      Planning_proofs (Planning, and MC_Services from all three)

    ApiRegistry            rows, shares, repository, executions of the console
    ConsoleEditor          the console page's answers
    ConsoleDocs            documentation rows and their merge
      MC_ApiConsole        all three, side by side
      ApiConsole_proofs    the three, and MC_ApiConsole from them

`MC_Services` and `MC_ApiConsole` put models that share no state into one instance: a
behaviour chooses its *focus* at the start and is about one model. A focus also narrows
an instance to what can be explored (`RegistryFocus`, `OnFocus`): each says in a comment
what it leaves to the others.

### DomainRpc

A step begins and ends at an await of I/O or of a timer: Node runs one callback to its
end and drains the microtasks before the next, so whatever awaits only settled promises
is part of the same step. In particular a command's effect, `inFlightQueries.clear()`,
the save of the state file and the copy of the snapshot are one step (`Finish`), and so
are the replacement of the collections by what was read and the dispatch (`Call`,
`Lead`, `Join`). `pc[r]` names the await a request is suspended at. The rows of a
collection are abstracted to the set of *effects* visible in it, which is what the
properties distinguish: the effect of each request, the bundled seed rows, the rows of
an earlier deployment.

Three details are kept because they matter: the four `findMany` reads are separate
(`ReadCollection`), so a request may see a command half committed;
`getCurrentTestManagementState` copies arrays and shares their rows, so another command
can change a snapshot whose transaction is in progress (`aliased`, `Leaks`); and
`hydratePersistentState` looks for the state file once, at the first `delay()` of a
process (`LoadState`). The state file is only written if `persistentStore.ts` finds
`require` through `Function(...)`, that is, in the global scope. A CommonJS process has
no such global, so the constant `GlobalRequire` is `FALSE` for the deployment the
scripts describe (`node src/main.cjs`).

`Serial` is an assumption about the callers, not about the code: with `Serial = TRUE` a
call arrives beside another only if both are queries, so queries run side by side (and
join each other's flights) while a command has the bridge to itself. Some promises hold
only then, and the runs and theorems say which. A transaction that fails may have failed
before or after its commit (`PersistFail`), which the caller cannot tell.

`DomainStore` is the abstract specification: a store that is seeded once if it was empty
and then changes by one command's whole effect at a time, never by a query.

### RetestFlow

The rows keep the fields that guards read: status, run, request, `isLocked`
(`locked`), the decision lock `lockedBy` (`held`), the status before a dismissal,
whether the severity is blocker or critical, a task's bugs, source run and created run.
Every method first awaits `delay()` and then runs to its end, so it is one action; a
guard is the method's null answer or early return. `retestTask.start` is the exception:
it is split at its await of `testRunApi.create` (`StartTask`, then `FinishStart` or
`FailStart`), since that method's own `delay()` lets every other method run in between.
`remembered` and `createdFor` are the command cache: keys whose default is made of the
method and the row, and the run `testRun.create` remembers for a task's default start
key. `EnsureRetestTask` is the helper that creates, reuses or extends a retest task; it
is part of the callers' actions.

Callers are bounded by `Methods`: a run of the model uses only the methods its question
is about (hand-off, retest and start are always there). The web pages can indeed
interleave them freely: `TestRunsBugsPage.tsx` issues the run's creation, its status,
each bug's retest and the task's completion as separate calls.

### ReleaseWorkflow

Extends RetestFlow with requests and versions, and wraps its actions with what they do
to versions. `newer` is the age order `getLatestRunForTestCaseInRequest` sorts by: a run
is newer than the others when its `executedAt || updatedAt || createdAt` was last set, and `Restamp`
says which methods set it. A request has one ready test case; `GroupOf` is the triple of
application, version and build; `incomplete` is the set of requests with a requirement
that is not finished. The primary request of an automatic version is a free choice in
the model (the oldest `updatedAt` in the code). `ListVersions` is a *read* of the code
(`getAll`, `getPendingDecision`, `getPendingQAReview`) which creates and promotes
versions. Requests may start `ACCEPTED` (`ExistingRequests`), as left by an earlier
session. `SecurityReviewDone` stands for the successful end of the review.

`ReleaseLedger` is the abstract specification: which requests each version covers, what
was decided on it, under which request each run is filed, and which runs a decision
sealed. `Covers`, `Outcomes`, `Filed` and `Sealed` read these off the rows. Nothing in the
code keeps such a ledger: it is scattered over the links of versions (`Linked`), their
statuses, the `testRequestId` and the decision lock of runs, which a dozen methods write.

### SecurityReview

Extends ReleaseWorkflow and replaces that one step by the review itself. A review row
belongs to a request and is kept for ever (`Ensured`), its items are copied from the
template when it is made, a result is clean, a finding, or open. `complete` is two
actions by its outcome: `SubmitFindings` hands the review to the QA lead, `Complete`
ends it and moves the version. From there `QaLeadReview`, `CreateSecurityExecution`,
`ResolveSecurityExecution`, `SubmitQaReport` and `ReviewQaReport` make the remediation
round. `mustReview` is `securityTestRequired` of the requests, set by a verdict and
cleared by a later verdict without a test or by a re-run. Two readings of the code are
worth noting: a returned QA report goes back to `FIXED_PENDING_QA` and its attachment
still counts, and an item whose result was a finding may be set clean with no round at
all after `RETURN_SECURITY`.

### RpcClient

One page's calls (numbered in the order they are made), each a read with a fingerprint,
a read without one, or a mutation. A fetch is what `callDomainRpc` has under way;
`Serve` is the backend's side, so an answer can be lost after the method ran
(`LoseFetch` with `remote` changed). A timeout or a broken connection says nothing about
a method that has not run: such mutations are `abandoned`, and `ServeLate` may execute
them at any later time, when the page has long fallen back. Results are abstracted to the context they were
computed for and the mutations they had seen. `finally` is part of the steps that end a
call (`AfterFinally`), and clears whatever probe there is. `orderly` is an assumption
about the page, not about the code: no call of it overlaps a mutation.

### ContextStore

`login`, `refreshContexts` and `switchContext` are visits: `Begins` records what the
call read with `get()`, `Ask` is the server's answer to the login, the session check or
the selection (which looks at the *first* assignment of the context only), `Load` reads
applications and assignments, and a `Finish` action writes list and active context. The
administrator's `replaceRoleAssignments` and `setRoleActive` change the assignments at
any time; a reload keeps what `persist` saved and forgets the calls under way.

### Planning

The four tables are one record (`store`), the runs another variable, because they are
saved differently: every call of the bridge writes the file first and the tables in one
transaction afterwards. `Settles` is that end of a call: the runs are as the method left
them, and the tables follow only if the foreign keys accept them (`SaveIsAccepted`) and
nothing fails. `Saved` is what the transaction leaves: a flow goes with its requirement,
a case loses a flow that goes, a selection loses a requirement that goes. Calls do not
overlap here; that is DomainRpc's subject.

### ApiRegistry, ConsoleEditor, ConsoleDocs

*ApiRegistry*: every handler of the console's server runs from its read of the store to
`saveStore` without yielding, except `executeRequest`, which awaits its target between
`StartExecution` and `FinishExecution` and holds the row *object* it read. A save
replaces that object, a restart everything, so `flights` remember the definition that
was sent and the one the object holds. `tabs` are the copies of a row in the pages:
`SaveRow` puts a whole copy back, however old. `screens` are the reviewers' pages with
the `rowVersion` they read.

*ConsoleEditor*: the page's `useRef` sequence numbers appear as `Overtaken`: an answer
knows whether a newer call of its kind was made. React effects run after the state
change they depend on, so `SetSelected` is the change with its effect
(`SelectionEffect`) and its token.

*ConsoleDocs*: a documentation row is discovered or not, enabled or not, with or without
text, made by the user or by discovery; `Merge` is `mergeDocumentationParameters`, used
by saves, refreshes and the start. A call of the page is a record in `docCalls`: it is
sent (`SendSave`, `SendRefresh`, `SendPresave` for the save before an execution or a
document), executed by the server (`ServePut`, `ServePost`, `ServeGet` for the list a save
reads afterwards) and answered (`SavePutAnswered`, `RefreshPutAnswered`, `LastAnswered`),
and the editor's actions fall anywhere in between, because nothing disables the editor
during an await. `Shows` is `setSelectedRequest` with `setSavedRequest`: the answer takes
the place of the whole draft. A call may be lost at any point (`LoseDocCall`); one that
the server has not executed yet stays, no longer awaited, until it is executed or dropped.
`orderly`, chosen at the start, says that the page makes no call while another one is
under way, which is an assumption about the session and not about the code.

## 3. Runs and bounds

| run | asks | instance | distinct states |
|---|---|---|---|
| `rpc_serial` | does the bridge implement the atomic store when only queries overlap? | 5 calls (a command, a dashboard read, three queries, two of them the same), 2 bridged and 1 transitional collection, 2 restarts | 1,266,496 |
| `rpc_concurrent` | what holds when they do not? | 4 overlapping calls (a command, a query that writes, two identical reads), 1 bridged collection, map limited to 1 entry, 1 restart | 288,663 |
| `retest` | do concurrent starts, deletions and decisions keep the rows' links and locks? | 1 request, 3 runs, 1 bug, 2 tasks, 1 issue, 2 callers of start | 512,004 |
| `release_versions` | do late and repeated events keep versions and requests together, and the ledger of releases true? | 2 requests of one group, 3 runs, 2 versions, no bugs; decisions that approve or block | 391,367 |
| `security` | is the review a gate, and the rest of a version's life as ReleaseWorkflow says? | 1 request from `DRAFT`, 2 runs, 1 bug of either severity, 1 task, 1 issue, 1 version, 2 checklist items, 2 executions | 194,810 |
| `services` | client, planning, contexts | 3 calls in 2 contexts and 3 modes; 2 requests of 2 applications, 2 requirements, 1 flow, 1 case, 2 runs; 3 assignments of 2 roles, 2 overlapping calls of the store | 966,128 |
| `console` | registry, page, documentation | 2 users, 2 reviewers, 2 applications, 2 rows, 2 versions, 2 shares of 2 revisions, 2 executions under way; 2 listed rows, 2 environments, 2 calls of the page; 1 input field or 1 output field, with 1 documentation call at a time or 2 overlapping ones | 1,080,535 |

`rpc_lostupdate`, `rpc_nofile`, `retest_ready`, `release_risk` and `security_stuck` each
show one disagreement with a document (below).

Identifiers are never reused: `MaxRuns` and its like bound the rows *ever* created, which
makes the state space finite without bounding how often rows change. Three runs are the
least with which a task's source run, its created run and another run exist together; two
callers are the least that race; two requests the least with which a version has a related
request; two executions the least for a second remediation round; two overlapping calls
of a store or a page the least that overtake each other, and the third call of the client
the least that finds what two others left in cache, flights and probe. One bug is enough
for each property checked, because each is about one bug and its run; what several bugs
of one run can do is described in section 7. The instances of DomainRpc contain an
eviction, a join, a failure and a restart by construction: every action is reached.
Deadlock is not checked: a call is made once and rows run out, so an instance may come to
rest. `CallerSymmetry` permutes the callers of start and `RequestSymmetry` the requests
of the one group, which no definition tells apart; the runs that use them check no
liveness.

## 4. Properties

**DomainRpc**

- `StoreSpec` (refinement of `DomainStore`, `Serial`): the database starts empty or with
  old rows, is seeded once, and then changes by one command's whole effect at a time.
- `QueriesSeeCommitted`, `CommittedEffectsStay` (`Serial`): a query, the leader of a flight
  or one that joined it, answers from everything
  committed; nothing committed is taken back, restarts and failures included.
- `OriginIsSettled`: start-up races never mix seed rows into a database with rows.
- `TrackedIsRunning`, `JoinedHasLeader`: single-flight entries and joined calls are live.
- `SnapshotHoldsOwnEffect`: a command persists its own effect.
- `EveryCallSettles` (liveness): every accepted call is answered, refused or lost.

**RetestFlow**

- `OneRunPerTask`: one existing run carries a task, however often and concurrently it is
  started with its default key.
- `NothingDangles`: a task's runs and bugs, a bug's run and an issue's run exist.
- `LockedEvidenceStays`: a locked run or bug keeps its status, a locked bug its run; a run
  a decision covered is never deleted, not even after an administrator unlocks it.

**ReleaseWorkflow, SecurityReview**

- `OneVersionPerRequest`: a request is in at most one version, however it is linked.
- `RerunReachesQA`: a version that waits for a re-run is at QA review and all of its
  requests ask for the re-run, so the run that answers it is recognised.
- `LedgerSpec` (refinement of `ReleaseLedger`): versions and requests change as a ledger
  whose entries stand. A request stays in its version, a decided outcome is replaced by
  publication only, and a run that was part of a decision is neither moved to another
  request nor deleted, whoever unlocks it.
- `DecisionsAreFinal`: no late run, unlock or review undoes a decision.
- `LockedEvidenceIsClean`: no open critical bug enters the locked evidence of a version
  approved without risk acceptance.
- `SecurityGate`: a version whose request must be reviewed is decided on only with a
  completed review that has evidence and no finding.
- `OneOpenExecution`: a developer has exactly one open execution while the review waits
  for the fix, and none otherwise, round after round.
- `ReleaseSpec` (refinement): whatever happens inside the review, versions and requests
  change as ReleaseWorkflow's single step says.

**RpcClient, ContextStore**

- `AnswerIsOfContext`: neither the cache nor a shared flight hands a call the answer of
  another context.
- `ProbeHasCaller`: a probe that is set belongs to a call on its way to the `finally`.
- `CacheIsCurrent`: with mutations that overlap nothing, a cached read has seen every
  mutation the backend executed before the page gave it up, those whose answer was lost
  on the way back included. A mutation executed after the page fell back is excluded:
  nothing clears the cache for it (section 7).
- `ActiveIsAvailable`: the active context is in the page's list, whatever crossed.

**Planning**

- `SameApplication` (`docs/workflows/CARTABLE_REQUIREMENTS.md:20`): no row is linked to a
  row of another application.
- `NothingIsOrphaned`: no row names one that is gone, in either store, whatever was
  refused or cut short.
- `RunsAreOfReadyCases` (`docs/workflows/ASSUMPTIONS.md:65-66`): a run is made of a case
  that is complete at that moment, not of one that once was.

**ApiRegistry, ConsoleEditor, ConsoleDocs**

- `PublishedWasApproved`: a row is published, and a reference to it exists, only for an
  API and version a reviewer approved at some time, although versions clone published
  rows and saves put old copies back.
- `EvidenceIsOfOneDefinition`: the checks recorded with an execution are those of the
  definition that was sent.
- `DecidesWhatWasRead`: a decision is of the revision the reviewer's screen showed.
- `RevisionHistory`: a share only gains revisions, the content of one never changes and
  its verdict is given once.
- `ShownIsSelected`: in a session without failures, saves and executions (`calm`) a page
  that is not loading shows the history and exports of the selected row, whatever the
  order of the answers. A saved or executed row takes the selection back by design.
- `UserChoicesSurvive`: in an `orderly` session the answer that takes the place of the
  draft has every text of the draft that was *sent* and turns on no field that was off in
  it, whatever merges, restarts, responses, losses and late executions came between. It
  says nothing of what is typed during the await: the page drops it (section 7).
- `RestartKeepsDocs`: what is saved is already merged, so the merge of a restart changes
  nothing.

Each module's run also checks one type invariant (`TypeOK`, `RetestTypeOK`,
`ReleaseTypeOK`, `SecurityTypeOK`, `ServicesTypeOK`, `RegistryTypeOK`, `PageTypeOK`), and
each property is paired in `PROJECT.json` with a mutation of a modelled definition that
TLC shows to violate it.

### What the code does against its documents

Five runs show a disagreement, each with the quotation in `PROJECT.json`:

- `rpc_lostupdate`: a command writes back everything it read, without comparing versions;
  of two overlapping commands the later transaction undoes the earlier one.
- `rpc_nofile`: the state file is never written as deployed.
- `retest_ready`: the second hand-off of a bug is answered from the command cache and the
  bug stays `FIXED`.
- `release_risk`: publication does not ask again for risk acceptance when a critical bug
  appears after the approval.
- `security_stuck`: a version that needs a second security review finds the completed
  review of the first and stays in `SECURITY_REVIEW`.

## 5. Fairness

Only `EveryCallSettles` assumes fairness: weak fairness of the start-up promise and of
each request's own steps. Prisma bounds queries and transactions by timeouts, `delay()`
is a timer, and a continuation whose promise settled runs, so each suspended step
eventually succeeds or fails. Arrival of requests, the debounced save and restarts are
not fair. The other modules state safety only: a user need not act, a browser's `fetch`
has no timeout, and the target of an execution need not answer.

## 6. Proofs

All proofs hold for every value of the constants under the modules' named assumptions.

- `DomainRpc_proofs`: `TypeCorrect`; `OriginSettled`, from an invariant that relates the
  origin of database, memory, images and snapshots once the database holds data;
  `FlightsAreLive`, where tracked entries and joined calls have to be proved together,
  since clearing the map and settling a promise touch both, and its two halves
  `TrackedHolds` and `JoinedHolds`; `OwnEffectPersisted`.
  `OnDiskHolds` assumes `GlobalRequire`, where the lookup of `require` succeeds: then the
  effect of every answered command is in the state file and stays there. What `rpc_nofile`
  shows has no other cause. (`NoFileAssumption` says that the value for "no file" is not
  a file.)
- `DomainRpcSerial_proofs`: with `Serial` and no state file, an invariant (`SerialInv`)
  says where database, memory, image and snapshot may differ at each await: what an active
  call has read is what is committed, a query runs on at least that, and a command on
  exactly that, since nothing runs beside it. From it follow the refinement of
  `DomainStore` (`SerialRefinesStore`), `SerialKeepsCommitted` and
  `SerialQueriesSeeCommitted`.
- `RetestFlow_proofs`: the lemmas are about the actions themselves, whichever of them
  `Methods` lets the callers use, so that they can be used in modules that extend
  RetestFlow. `RetestInv` (types, and the links of rows: an absent row is linked to
  nothing and not locked) is needed already for types, because handing off a bug looks
  up its run; it is inductive (`RetestInvariant`) and gives `RetestTyped` and
  `LockedEvidenceHolds`. `OneRunHolds` adds that the run of a task is the one the command
  cache remembers for it: `OneRunPerTask` by itself is not inductive, since nothing in
  it says why the second start finds a run. `NothingDanglesHolds` adds that the created
  run of an existing task is the remembered one, hence a run a suspended start gets back
  from the cache exists as long as its task does. Both assume `~FreshKeys`: no caller
  sends a start key of its own.
- `Browser_proofs`: `ProbeHolds` is inductive beside the types. `AnswersHold` needs that
  what is cached or in flight under a key is of the key's context, and every caller of a
  flight of the flight's. `CacheHolds` rests on the flights of an orderly session: the
  callers of a flight wait for it and for no other, a mutation flies alone over an empty
  cache, and what a read was given has seen all that was executed and not given up before
  (`Known`); a late execution adds only to what was given up. `ActiveHolds` is
  inductive once it is stated of the calls under way as well (a switch's context is in
  the list it read) and a list holds one context of a role.
- `Planning_proofs`: what a method computes is right wherever its rows will still be there
  (`AppsAgree`), the transaction leaves nothing that points at a row gone, and the runs in
  memory fit the cases of the tables before and after it (`SettlesKeeps`). From that
  invariant follow `SameApplicationHolds` and `NothingIsOrphanedHolds`;
  `RunsOfReadyCases` follows from the one action that makes runs. `ServicesAreTheirParts`
  projects a behaviour of `MC_Services` to one of each of its three parts, so that the
  theorems about them, `ServicesTyping` among others, hold of the composition.
- `ReleaseWorkflow_proofs` (which extends `RetestFlow_proofs`): `ReleaseInv` adds to
  `RetestInv` that what a version links to are existing requests (`VersionsLinked`),
  that versions share no request (`VersionsApart`), and that a locked bug belongs to a
  run a decision holds (`HeldBugs`).
  `RerunReachesQA` and `LockedEvidenceIsClean` are not inductive without them: a verdict
  on one version must not touch the requests of another. The lemmas are about steps of
  one kind (`RequestStep`, `VersionStep`, `LockingStep`, ...), whoever takes them, so
  that `SecurityReview_proofs` cites them too.
  RetestFlow's promises carry over: every step of the composition is, on RetestFlow's
  rows, a step of its methods, a lock by a decision, or none, and each keeps
  `LockedEvidenceStays`, `OneRunPerTask` and `NothingDangles` (`ReleaseKeepsEvidence`,
  `ReleaseOneRun`, `ReleaseNothingDangles`, the last two with `~FreshKeys`).
  `ReleaseKeepsLedger` maps each kind of step to a step of `ReleaseLedger`: a new version
  to a bundling (this needs `VersionsApart`), a step of RetestFlow to the filing of at
  most one unsealed run, a decision or publication to a seal (of all runs of the requests
  the version links to, which is what `lockRunsForVersionHistory` computes), the rest to
  stutters. `OpenBugsComeLater` says how far `release_risk` reaches: without
  administrator unlocks a run held by a decision and its bugs stay locked, so an open
  critical bug of a version approved without risk acceptance is on a run no decision
  held, one registered or moved to the version's requests later.
- `SecurityReview_proofs`: `SecurityRefinesRelease` maps `Complete` of a waiting version to
  `SecurityReviewDone` and the rest of the review to stutters; `ReviewedEvidenceClean`
  and `ReviewedDecisionsHold` follow from it and the theorems above. `SecurityInvariant`
  adds how executions and report fit the status of the review (`ExecutionsFit`), from
  which come `SecurityGateHolds` and `OneOpenExecutionHolds`. By the refinement the
  promises of RetestFlow and the ledger hold with the review in between
  (`ReviewedEvidenceStays`, `ReviewedRowsWhole`, `ReviewedLedger`). `StuckVersionsStay` is
  the other half of `security_stuck`: the run reaches a version in `SECURITY_REVIEW` whose primary
  request's review is `COMPLETED` (`Stuck`), the theorem says that no step of anyone, verdicts, template changes
  and related requests included, takes it out of that state.
- `ApiConsole_proofs`: of the registry, that whatever a page, a screen or an execution
  under way remembers still fits the store: the copy in a tab was approved if it says so
  (`TabsFit`, which is why an old copy put back publishes nothing unapproved), the
  revision on a reviewer's screen is the one of its `rowVersion` (`ScreensFit`, which is
  why the check of the `rowVersion` is enough), the object of an execution is the
  definition it sent (`FlightsFit`). Of the editor, that the calls under way of a calm
  session are for the selected row or overtaken (`CalmFits`). Of the documentation, that
  merging what was merged changes nothing, field by field (`SavedIsMerged`,
  `RefreshedIsMerged`), and that, through every stage of an orderly call, the server's
  row, the answer and the next request of the same handler keep the choices of the draft
  it sent (`SentIsKept`; `OneCallKept` is the reason why overlapping calls are left out).
  `ConsoleIsItsParts` projects a behaviour of `MC_ApiConsole` to one
  of each part, whatever the focus; `PageTyping` and every theorem about a part follow
  for the composition.

Only model-checked: `EveryCallSettles`, as liveness under fairness is outside what the
prover handles. Every other property of a passing run is stated by a theorem. That the
properties of the violation runs fail is TLC's to show; what the theorems add is how far
some of those violations go. The assumptions are those named above: `~FreshKeys` for the
callers of start, `Serial` and `~GlobalRequire` for `DomainRpcSerial_proofs`,
`GlobalRequire` for `OnDiskHolds`, no unlocks for `OpenBugsComeLater`, `orderly` and
`calm` inside the properties.

## 7. Behaviour the models contain and no run states

These follow from the code as modelled; the documents leave them open, or a run of their
own would say little more than the definition.

Runs and bugs:

- Two starts with different keys of the callers' own each create a run (2946-2984); the
  pages use the default key.
- A start suspended in `testRun.create` writes `IN_PROGRESS` over a task completed
  meanwhile (3001), although a start of a completed task is refused (2966).
- `ensureRetestTaskForBug` (1231) takes in every unfinished bug of the run, locked ones
  too, and a bug moved to another run while its task is open can be in two open tasks.
- If the last bug a hand-off waits for is dismissed, closed or deleted instead, the ready
  ones get no task until somebody hands one off again or asks for the task (1235).
- A second `unlock` with the default key is answered from the cache and unlocks nothing
  (2350, 2812).

Versions and reviews:

- A re-run is recognised by a larger count of final runs (2055); a run deleted meanwhile
  hides it.
- When a related request answers the re-run, the primary request keeps
  `RETEST_REQUIRED` (2058).
- A `BLOCKED` decision returns the version to `DRAFT`, and the next list read promotes it
  again if its old runs still look ready (3562).
- An approval or a re-run moves a cancelled request of the version to `COMPLETED` or
  `IN_PROGRESS` (3356).
- Security evidence and the QA report of an earlier round satisfy a later one (5979); a
  review made from an emptied template completes with no result at all; findings can be
  set clean without a remediation once the QA lead returns the review.

Planning:

- A finished requirement can lose its flow; a stored `READY` is stale until the case is
  read. Deleting a requirement that has a case is refused only by the database. When
  `testCase.delete` is refused or fails in the transaction, its runs are gone from the
  file and the case stays.

Client and contexts:

- With overlapping calls a read answered after a mutation leaves its older answer in the
  cache (`domainRpcClient.ts:309`), and a read begun after a mutation may join an older
  flight (302). A mutation whose answer is lost is executed again by the fallback (374);
  a request that timed out may reach the backend later still (172-178 treat a 504 and a
  broken connection alike), and a read cached in between stays cached without it.
  Any call's `finally` clears the probe (378), and a read answered from the cache closes
  the circuit. Reads with an undefined field have no key and clear the cache.
- A refresh that read before a switch brings the old context back; a switch that ends
  after the logout leaves a page that is authenticated without a user; of two crossed
  switches page and session can keep different ones. The server checks the first
  assignment of a context only. `switchContext` uses the list it holds, and `merge` only
  matches the saved context against the saved list.

Console:

- A whole-row save of an old copy can unpublish or republish a row, or revive an archived
  one; the owner edits an approved row in place; a share after such a save can open a
  second pending share of the row.
- An approved share's row is not always published: the owner's page may have put a
  `DRAFT` copy back.
- The page's loading flag belongs to the newest derived load only (`finally`, 1350); when
  that load fails, the rows of the earlier selection stay. A row saved or executed takes
  the selection back; an executed answer after moving on shows the old row's history. The
  suppress token may be left over for the next selection.
- What is typed into the editor while a save, the list after it, a refresh, its save or
  the save before an execution is awaited is lost when the answer replaces the draft
  (`OnlineApiConsolePage.tsx` 1695-1701, 1799-1806, 1715-1718). Save and refresh disable
  their own button only, so the two can overlap and the later answer can show an older
  row, with a text or a choice of the later save missing from the draft; the next save
  puts it back as it is shown. After a lost answer `savedRequest` is behind the server.
- A documentation row made by discovery, disabled, gone and discovered again stays
  disabled. Executions under way are lost at a restart.

Bridge:

- The single-flight map may exceed its limit by the calls in progress, since it evicts
  before it inserts (`domain-rpc-server.cjs:228`). A version made by `getAll`, which the
  bridge treats as a query, is saved with the next mutation only. A start whose seed was
  committed although its answer was lost (`ReadyFail`) leaves the database seeded and the
  start to be tried again; a database emptied by deletions is seeded again (342).

## 8. Not modelled, and why

In the modelled components: HTTP framing, logging, formatting, role and scope checks,
CSRF, notifications and audit records; `testRun.finalize` (a stamp no guard reads);
`testRequest.update`'s status (the pages never send one); `setMissingBuildNumber` (it
changes the constant group); snapshots and revisions of versions; the direct PostgreSQL
services of users, applications and policies; a restart in RetestFlow and
ReleaseWorkflow, whose rows a restart loses altogether; a `retestTaskId` given by the
caller of `testRun.create` (2201, 2277: in the models the runs of a task come from its
start only); a share decision sent without a `rowVersion`, whose check the server then
skips (4277; the page always sends it); `loadAll`, which clears a selection that is not on
the list it read (in ConsoleEditor only `ArchiveSelected` clears it); changes of an assignment's
systems; the console's variable resolution, scripts, URL policy, cURL, import, export
and mock responses, which transform data and keep none.

Whole components:

- *Reports* are pure aggregation; *checklists, comments and attachments* independent
  records; *schema, seeds and scripts* have no behaviour (the foreign keys are in
  Planning).
- *Notifications and outbox*: delivery is simulated. `createNotification` queues and
  delivers its rows in one step, so nothing stays queued and nothing is retried.
- *Users, passwords and one-time codes*: two queries each with a window between them
  (listed as hazards); no document says what must hold across it, and the uniqueness of
  users is the database's.
- *The browser's IndexedDB path* of `persistentStore.ts` runs only with the local
  services, as does the fallback's copy of the data.
- *The web pages* other than the console's appear as the freedom of the callers. The run
  wizard of `TestRunsBugsPage.tsx` is the one with a protocol of its own: it creates a
  run, its bugs and comments and a status by separate calls. Read beside RetestFlow, a
  failure after the create makes a second run at the retry, since the wizard forgets the
  run it made; a retry of its second step repeats bugs and comments; and cancelling while
  a step runs lets its late end reach the next wizard. It has no state on the server
  that RetestFlow lacks, so a model of it would only restate its `useState`.

## 9. Possible extensions

1. The composition of DomainRpc with the methods' rows, to state what a restart and an
   unpersisted query change about ReleaseWorkflow. The effects of DomainRpc would have to
   become the rows of RetestFlow, which multiplies the two state spaces.
2. Sessions and users: the password upgrade at login, one-time codes, revocation.
3. The run wizard on top of RetestFlow, with its retries.
