------------------------------ MODULE DomainRpc ------------------------------
(***************************************************************************)
(* The domain RPC bridge of the API process (domain-rpc-server.cjs) with   *)
(* the state it moves: the in-memory collections of the bundled domain     *)
(* services, the PostgreSQL snapshot of four of them, and the state file.  *)
(*                                                                         *)
(* Node runs one callback at a time and drains its microtasks before the   *)
(* next one, so everything between two awaits of real I/O or of a timer is *)
(* one step: the steps below begin and end at those awaits.  The rows of a *)
(* collection are abstracted to the set of EFFECTS visible in it: the      *)
(* effect of a request (whatever it created, changed or deleted there),    *)
(* the bundled seed rows, or the rows of an earlier deployment.            *)
(***************************************************************************)
EXTENDS Naturals, FiniteSets

CONSTANTS
    Requests,      \* the calls POSTed to /api/domain/rpc
    Queries,       \* those whose method is in QUERY_OPERATION_POLICIES
    SingleFlight,  \* those whose method is in SINGLE_FLIGHT_OPERATION_POLICIES
    Keys,          \* query fingerprints
    KeyOf,         \* KeyOf[r]: buildQueryFingerprint of a single-flight call
    Bridged,       \* testRequests, requirements, flows, testCases
    Transitional,  \* the collections that only live in the process
    Writes,        \* Writes[r]: the collections the method of r changes
    SeedData,      \* the bundled mock rows
    OldData,       \* the rows an earlier deployment left in PostgreSQL
    None,          \* no leader, no file
    MaxEntries,    \* SINGLE_FLIGHT_MAX_ENTRIES
    Serial,        \* TRUE: a call overlaps another only if both are queries; FALSE: any two
                   \* may (an assumption on the callers)
    GlobalRequire, \* whether `require` is visible to Function('return require')
    MaxCrashes     \* bound on the number of restarts

Effect == Requests \cup {SeedData, OldData}

ASSUME DomainRpcAssumption ==
    /\ Queries \subseteq SingleFlight
    /\ SingleFlight \subseteq Requests
    /\ KeyOf \in [SingleFlight -> Keys]
    /\ Bridged # {}
    /\ Bridged \cap Transitional = {}
    /\ Writes \in [Requests -> SUBSET (Bridged \cup Transitional)]
    /\ SeedData \notin Requests
    /\ OldData \notin Requests
    /\ SeedData # OldData
    /\ None \notin Requests
    /\ MaxEntries \in Nat
    /\ Serial \in BOOLEAN
    /\ GlobalRequire \in BOOLEAN
    /\ MaxCrashes \in Nat

VARIABLES
    mem,       \* mem[c]: the process's copy of bridged collection c
    local,     \* local[c]: the process's transitional collection c
    db,        \* db[c]: committed rows of bridged collection c
    file,      \* the state file: None or a copy of mem and local
    hydrated,  \* persistenceHydrated: the state file has been looked for
    ready,     \* testManagementReadyPromise: "none", "reading", "seeding", "done"
    pc,        \* pc[r]: the await at which request r is suspended
    unread,    \* unread[r]: the collections whose findMany has not answered
    image,     \* image[r]: the rows read so far for r
    snapshot,  \* snapshot[r]: what r's persist transaction writes
    aliased,   \* the persisting calls whose snapshot shares its rows with mem
    flight,    \* inFlightQueries: flight[k] is the leader tracked under k
    leader,    \* leader[r]: the call whose promise a joined call awaits
    crashes    \* restarts so far

vars == <<mem, local, db, file, hydrated, ready, pc, unread, image, snapshot,
          aliased, flight, leader, crashes>>

MemState == [Bridged -> SUBSET Effect]
LocalState == [Transitional -> SUBSET Effect]

ASSUME NoFileAssumption == None \notin [bridged : MemState, local : LocalState]

Empty == [c \in Bridged |-> {}]
SeedState == [c \in Bridged |-> {SeedData}]
SeedLocal == [c \in Transitional |-> {SeedData}]

Active == {r \in Requests :
             pc[r] \in {"ensuring", "reading", "running", "joined", "persisting"}}

HasData(s) == \E c \in Bridged : s[c] # {}

(* The effect of the method of r on a map from collections to effects. *)
WithEffect(s, r) ==
    [c \in DOMAIN s |-> IF c \in Writes[r] THEN s[c] \cup {r} ELSE s[c]]

TypeOK ==
    /\ mem \in MemState
    /\ local \in LocalState
    /\ db \in MemState
    /\ file \in [bridged : MemState, local : LocalState] \cup {None}
    /\ hydrated \in BOOLEAN
    /\ ready \in {"none", "reading", "seeding", "done"}
    /\ pc \in [Requests -> {"idle", "ensuring", "reading", "running", "joined",
                            "persisting", "ok", "error", "lost"}]
    /\ unread \in [Requests -> SUBSET Bridged]
    /\ image \in [Requests -> MemState]
    /\ snapshot \in [Requests -> MemState]
    /\ aliased \in SUBSET Requests
    /\ flight \in [Keys -> Requests \cup {None}]
    /\ leader \in [Requests -> Requests \cup {None}]
    /\ crashes \in Nat

Init ==
    /\ mem = SeedState
    /\ local = SeedLocal
    /\ db \in [Bridged -> {{}, {OldData}}]
    /\ file = None
    /\ hydrated = FALSE
    /\ ready = "none"
    /\ pc = [r \in Requests |-> "idle"]
    /\ unread = [r \in Requests |-> {}]
    /\ image = [r \in Requests |-> Empty]
    /\ snapshot = [r \in Requests |-> Empty]
    /\ aliased = {}
    /\ flight = [k \in Keys |-> None]
    /\ leader = [r \in Requests |-> None]
    /\ crashes = 0
------------------------------------------------------------------------------
(* ensureTestManagementReady: the first caller creates the memoised        *)
(* promise, the others await it.                                           *)
Arrive(r) ==
    /\ pc[r] = "idle"
    /\ Serial => \A s \in Active : {r, s} \subseteq Queries
    /\ pc' = [pc EXCEPT ![r] = "ensuring"]
    /\ ready' = IF ready = "none" THEN "reading" ELSE ready
    /\ UNCHANGED <<mem, local, db, file, hydrated, unread, image, snapshot, aliased,
                   flight, leader, crashes>>

(* The promise's read answers: rows found hydrate the process's memory.    *)
ReadyHydrate ==
    /\ ready = "reading"
    /\ HasData(db)
    /\ mem' = db
    /\ aliased' = {}
    /\ ready' = "done"
    /\ UNCHANGED <<local, db, file, hydrated, pc, unread, image, snapshot,
                   flight, leader, crashes>>

(* The promise's read finds nothing: the process's own rows are persisted. *)
ReadyIsEmpty ==
    /\ ready = "reading"
    /\ ~HasData(db)
    /\ ready' = "seeding"
    /\ UNCHANGED <<mem, local, db, file, hydrated, pc, unread, image, snapshot, aliased,
                   flight, leader, crashes>>

ReadySeed ==
    /\ ready = "seeding"
    /\ db' = mem
    /\ ready' = "done"
    /\ UNCHANGED <<mem, local, file, hydrated, pc, unread, image, snapshot, aliased,
                   flight, leader, crashes>>

(* The read or the persist of the promise fails, the latter perhaps after  *)
(* its commit: the promise is forgotten, and every call that awaits it     *)
(* fails with it.                                                          *)
ReadyFail ==
    /\ \/ ready = "reading" /\ UNCHANGED db
       \/ ready = "seeding" /\ db' \in {db, mem}
    /\ ready' = "none"
    /\ pc' = [r \in Requests |-> IF pc[r] = "ensuring" THEN "error" ELSE pc[r]]
    /\ UNCHANGED <<mem, local, file, hydrated, unread, image, snapshot, aliased,
                   flight, leader, crashes>>

(* Mutants of StartRead: one does not await the promise, one reads what is *)
(* not in PostgreSQL.                                                      *)
StartReadUnready(r) ==
    /\ pc[r] = "ensuring"
    /\ pc' = [pc EXCEPT ![r] = "reading"]
    /\ unread' = [unread EXCEPT ![r] = Bridged]
    /\ UNCHANGED <<mem, local, db, file, hydrated, ready, image, snapshot, aliased,
                   flight, leader, crashes>>

StartReadAll(r) ==
    /\ pc[r] = "ensuring"
    /\ ready = "done"
    /\ pc' = [pc EXCEPT ![r] = "reading"]
    /\ unread' = [unread EXCEPT ![r] = Bridged \cup Transitional]
    /\ UNCHANGED <<mem, local, db, file, hydrated, ready, image, snapshot, aliased,
                   flight, leader, crashes>>

(* refreshTestManagementState starts the four parallel findMany calls.     *)
StartRead(r) ==
    /\ pc[r] = "ensuring"
    /\ ready = "done"
    /\ pc' = [pc EXCEPT ![r] = "reading"]
    /\ unread' = [unread EXCEPT ![r] = Bridged]
    /\ UNCHANGED <<mem, local, db, file, hydrated, ready, image, snapshot, aliased,
                   flight, leader, crashes>>

(* PostgreSQL evaluates one of them; the four are not one transaction.     *)
ReadCollection(r, c) ==
    /\ pc[r] = "reading"
    /\ c \in unread[r]
    /\ image' = [image EXCEPT ![r][c] = db[c]]
    /\ unread' = [unread EXCEPT ![r] = @ \ {c}]
    /\ UNCHANGED <<mem, local, db, file, hydrated, ready, pc, snapshot, aliased,
                   flight, leader, crashes>>

ReadFail(r) ==
    /\ pc[r] = "reading"
    /\ pc' = [pc EXCEPT ![r] = "error"]
    /\ unread' = [unread EXCEPT ![r] = {}]
    /\ image' = [image EXCEPT ![r] = Empty]
    /\ UNCHANGED <<mem, local, db, file, hydrated, ready, snapshot, aliased,
                   flight, leader, crashes>>
------------------------------------------------------------------------------
(* The last findMany answers.  In one callback the four collections are    *)
(* replaced by what was read, the method is looked up, and its call runs   *)
(* to its first await.                                                     *)
Refreshed(r) ==
    /\ pc[r] = "reading"
    /\ unread[r] = {}
    /\ image' = [image EXCEPT ![r] = Empty]
    /\ aliased' = {}

(* Mutants of LoadState: the refresh is skipped; the first load restores   *)
(* the bundled rows when there is no file.                                 *)
LoadStateStale(bridged) == hydrated' = TRUE /\ UNCHANGED <<mem, local>>

LoadStateDefaults(bridged) ==
    /\ hydrated' = TRUE
    /\ mem' = IF hydrated THEN bridged ELSE SeedState
    /\ UNCHANGED local

(* hydratePersistentState, which the first `await delay()` of the process  *)
(* triggers: the state file, when there is one, replaces every collection. *)
LoadState(bridged) ==
    /\ hydrated' = TRUE
    /\ IF ~hydrated /\ file # None
         THEN mem' = file.bridged /\ local' = file.local
         ELSE mem' = bridged /\ UNCHANGED local

Tracked(f) == {k \in Keys : f[k] # None}

(* evictExpiredSingleFlights: entries older than SINGLE_FLIGHT_MAX_AGE_MS  *)
(* go (which ones is the clock's choice), then the oldest until at most    *)
(* SINGLE_FLIGHT_MAX_ENTRIES are left.                                     *)
Evictions ==
    {[k \in Keys |-> IF k \in kept THEN flight[k] ELSE None] :
        kept \in {s \in SUBSET Tracked(flight) : Cardinality(s) <= MaxEntries}}

(* A method outside the single-flight policy: execute() directly.          *)
Call(r) ==
    /\ Refreshed(r)
    /\ r \notin SingleFlight
    /\ LoadState(image[r])
    /\ pc' = [pc EXCEPT ![r] = "running"]
    /\ UNCHANGED <<db, file, ready, unread, snapshot, flight, leader, crashes>>

(* executeSingleFlight with no entry under the fingerprint: lead.          *)
Lead(r) ==
    /\ Refreshed(r)
    /\ r \in SingleFlight
    /\ LoadState(image[r])
    /\ \E f \in Evictions :
         /\ f[KeyOf[r]] = None
         /\ flight' = [f EXCEPT ![KeyOf[r]] = r]
    /\ pc' = [pc EXCEPT ![r] = "running"]
    /\ UNCHANGED <<db, file, ready, unread, snapshot, leader, crashes>>

(* executeSingleFlight with an entry: await the leader's promise.          *)
Join(r) ==
    /\ Refreshed(r)
    /\ r \in SingleFlight
    /\ mem' = image[r]
    /\ \E f \in Evictions :
         /\ f[KeyOf[r]] # None
         /\ flight' = f
         /\ leader' = [leader EXCEPT ![r] = f[KeyOf[r]]]
    /\ pc' = [pc EXCEPT ![r] = "joined"]
    /\ UNCHANGED <<local, db, file, hydrated, ready, unread, snapshot, crashes>>

(* Unknown service or method: the refresh has happened, the call fails.    *)
Unknown(r) ==
    /\ Refreshed(r)
    /\ mem' = image[r]
    /\ pc' = [pc EXCEPT ![r] = "error"]
    /\ UNCHANGED <<local, db, file, hydrated, ready, unread, snapshot, flight,
                   leader, crashes>>
------------------------------------------------------------------------------
(* Mutant of Party: the calls that joined are forgotten.                   *)
PartyOfLeader(r) == {r}

(* The calls that a promise settles: its leader and those that joined it.  *)
Party(r) == {r} \cup {j \in Requests : pc[j] = "joined" /\ leader[j] = r}

(* Mutant of Forget: there is no `finally`.                                *)
ForgetNothing(r) == flight

(* The `finally` of executeSingleFlight: only the entry that still holds   *)
(* this very promise is deleted.                                           *)
Forget(r) ==
    [k \in Keys |-> IF flight[k] = r THEN None ELSE flight[k]]

LeaveFlight(party) ==
    leader' = [j \in Requests |-> IF j \in party THEN None ELSE leader[j]]

(* writeStateToNodeFile: a no-op unless the module finds `require`.        *)
SaveFile(bridged, loc) ==
    file' = IF GlobalRequire THEN [bridged |-> bridged, local |-> loc] ELSE file

(* getCurrentTestManagementState copies the arrays and shares their rows.  *)
(* A transaction in progress over rows that are still the process's own    *)
(* (no refresh has replaced them) therefore writes what the method of r    *)
(* did to the rows it has not reached yet, in some of the collections.     *)
Leaks(r) == [aliased -> SUBSET (Bridged \cap Writes[r])]

WithLeak(s, r, leaked) ==
    [c \in Bridged |-> IF c \in leaked THEN s[c] \cup {r} ELSE s[c]]

(* The calls that will persist take their snapshot; the mutant takes the   *)
(* rows the method started from.                                           *)
TakeSnapshotEarly(r, calls, rows) ==
    /\ snapshot' = [j \in Requests |-> IF j \in calls THEN mem ELSE snapshot[j]]
    /\ aliased' = aliased \cup calls

TakeSnapshot(r, calls, rows) ==
    /\ \E leak \in Leaks(r) :
         snapshot' = [j \in Requests |->
                        IF j \in calls THEN rows
                        ELSE IF j \in aliased THEN WithLeak(snapshot[j], r, leak[j])
                        ELSE snapshot[j]]
    /\ aliased' = aliased \cup calls

(* The method of r returns after its delay(): it changes the collections,  *)
(* and every call awaiting it goes on in the same callback.  A query is    *)
(* answered; any other call clears inFlightQueries, saves the state file   *)
(* and takes the snapshot its transaction will write.                      *)
Finish(r) ==
    LET after == WithEffect(mem, r)
        persisting == Party(r) \ Queries
    IN
    /\ pc[r] = "running"
    /\ mem' = after
    /\ local' = WithEffect(local, r)
    /\ pc' = [j \in Requests |-> IF j \in persisting THEN "persisting"
                                 ELSE IF j \in Party(r) THEN "ok" ELSE pc[j]]
    /\ TakeSnapshot(r, persisting, after)
    /\ flight' = IF persisting # {} THEN [k \in Keys |-> None] ELSE Forget(r)
    /\ LeaveFlight(Party(r))
    /\ IF persisting # {} THEN SaveFile(after, WithEffect(local, r)) ELSE UNCHANGED file
    /\ UNCHANGED <<db, hydrated, ready, unread, image, crashes>>

(* The method rejects the command before changing anything.                *)
Throw(r) ==
    /\ pc[r] = "running"
    /\ pc' = [j \in Requests |-> IF j \in Party(r) THEN "error" ELSE pc[j]]
    /\ flight' = Forget(r)
    /\ LeaveFlight(Party(r))
    /\ UNCHANGED <<mem, local, db, file, hydrated, ready, unread, image,
                   snapshot, aliased, crashes>>

(* persistTestManagementState commits: rows of the snapshot are upserted,  *)
(* rows outside it are deleted, in one transaction; then the call answers. *)
Commit(r) ==
    /\ pc[r] = "persisting"
    /\ db' = snapshot[r]
    /\ pc' = [pc EXCEPT ![r] = "ok"]
    /\ snapshot' = [snapshot EXCEPT ![r] = Empty]
    /\ aliased' = aliased \ {r}
    /\ UNCHANGED <<mem, local, file, hydrated, ready, unread, image, flight,
                   leader, crashes>>

(* The transaction fails, or its outcome is lost with the connection: the  *)
(* caller gets an error, memory keeps the effect until the next refresh.   *)
PersistFail(r) ==
    /\ pc[r] = "persisting"
    /\ db' \in {db, snapshot[r]}
    /\ pc' = [pc EXCEPT ![r] = "error"]
    /\ snapshot' = [snapshot EXCEPT ![r] = Empty]
    /\ aliased' = aliased \ {r}
    /\ UNCHANGED <<mem, local, file, hydrated, ready, unread, image,
                   flight, leader, crashes>>

(* The debounced save, armed by hydratePersistentState and by each report. *)
TimerSave ==
    /\ hydrated
    /\ SaveFile(mem, local)
    /\ UNCHANGED <<mem, local, db, hydrated, ready, pc, unread, image, snapshot, aliased,
                   flight, leader, crashes>>

(* The process dies and is started again: only db and file are left, and   *)
(* open transactions roll back.                                            *)
Crash ==
    /\ crashes < MaxCrashes
    /\ crashes' = crashes + 1
    /\ mem' = SeedState
    /\ local' = SeedLocal
    /\ hydrated' = FALSE
    /\ ready' = "none"
    /\ pc' = [r \in Requests |-> IF r \in Active THEN "lost" ELSE pc[r]]
    /\ unread' = [r \in Requests |-> {}]
    /\ image' = [r \in Requests |-> Empty]
    /\ snapshot' = [r \in Requests |-> Empty]
    /\ aliased' = {}
    /\ flight' = [k \in Keys |-> None]
    /\ leader' = [r \in Requests |-> None]
    /\ UNCHANGED <<db, file>>

Step(r) ==
    \/ StartRead(r)
    \/ \E c \in Bridged : ReadCollection(r, c)
    \/ ReadFail(r)
    \/ Call(r)
    \/ Lead(r)
    \/ Join(r)
    \/ Unknown(r)
    \/ Finish(r)
    \/ Throw(r)
    \/ Commit(r)
    \/ PersistFail(r)

ReadyStep == ReadyHydrate \/ ReadyIsEmpty \/ ReadySeed \/ ReadyFail

Next ==
    \/ \E r \in Requests : Arrive(r) \/ Step(r)
    \/ ReadyStep
    \/ TimerSave
    \/ Crash

Spec == Init /\ [][Next]_vars

(* Every query, transaction and timer eventually settles, one way or the   *)
(* other: Prisma bounds its queries and transactions, delay() is a timer.  *)
FairSpec ==
    /\ Spec
    /\ WF_vars(ReadyStep)
    /\ \A r \in Requests : WF_vars(Step(r))
------------------------------------------------------------------------------
(* The data a deployment starts from is settled once: as soon as the       *)
(* database holds anything, no start-up race, failed read, concurrent      *)
(* snapshot or restart mixes the bundled seed rows into it or removes the  *)
(* rows it held (ensureTestManagementReady is awaited before every read).  *)
Origin(s) == [c \in Bridged |-> s[c] \cap {SeedData, OldData}]

OriginIsSettled == [][HasData(db) => Origin(db') = Origin(db)]_vars

(* No entry of inFlightQueries outlives its execution, whatever clear(),   *)
(* eviction and a newer leader did in between: an entry that did would     *)
(* hand the same old answer to every later query of that fingerprint.      *)
TrackedIsRunning ==
    \A k \in Keys : flight[k] # None =>
        /\ pc[flight[k]] = "running"
        /\ flight[k] \in SingleFlight
        /\ KeyOf[flight[k]] = k

(* A joined call waits on a promise that is still going to settle.         *)
JoinedHasLeader ==
    \A r \in Requests : pc[r] = "joined" =>
        /\ leader[r] # None
        /\ pc[leader[r]] = "running"
        /\ KeyOf[leader[r]] = KeyOf[r]

(* What a mutation persists includes its own effect: no refresh of another *)
(* call can come between the method and its snapshot.                      *)
SnapshotHoldsOwnEffect ==
    \A r \in Requests : pc[r] = "persisting" /\ r \notin SingleFlight =>
        \A c \in Bridged \cap Writes[r] : r \in snapshot[r][c]

(* Committed effects are never taken back.  True when only queries         *)
(* overlap; lost updates break it when commands do.                        *)
CommittedEffectsStay == [][\A c \in Bridged : db[c] \subseteq db'[c]]_vars

(* While only queries overlap the bridge is an atomic store.               *)
Store == INSTANCE DomainStore WITH store <- db

StoreSpec == Store!Spec

(* While only queries overlap a query answers from everything that has     *)
(* been committed, whether it leads or has joined another's flight.        *)
QueriesSeeCommitted ==
    [][\A r \in Queries : pc[r] # "ok" /\ pc'[r] = "ok" =>
         \A c \in Bridged : db[c] \subseteq mem[c]]_vars

(* After a non-query call the state of the transitional collections is in  *)
(* the state file when the caller gets its answer, and stays there.        *)
AnsweredIsOnDisk ==
    \A r \in Requests \ SingleFlight : pc[r] = "ok" =>
        \A c \in Transitional \cap Writes[r] :
            file # None /\ r \in file.local[c]

(* Every call is answered, lost with the process, or not yet made.         *)
EveryCallSettles ==
    \A r \in Requests :
        pc[r] = "ensuring" ~> pc[r] \in {"ok", "error", "lost"}
==============================================================================
