------------------------ MODULE DomainRpcSerial_proofs ------------------------
(***************************************************************************)
(* Callers whose commands overlap nothing see an atomic store: DomainRpc   *)
(* implements DomainStore, however many queries run side by side, whatever *)
(* fails and however often the process restarts, as long as the process    *)
(* writes no state file (as deployed).  The theorems state these two       *)
(* conditions as their assumptions; DomainRpc_lostupdate shows that the    *)
(* first cannot be dropped.                                                *)
(***************************************************************************)
EXTENDS DomainRpc_proofs

(* While only queries overlap, what a call has read is what is committed;  *)
(* a method runs on at least that, a command's on exactly that, for no     *)
(* query has changed the rows under it; and the command's snapshot is that *)
(* with its effect.                                                        *)
SerialCall(r) ==
    /\ pc[r] = "reading" => \A c \in Bridged \ unread[r] : image[r][c] = db[c]
    /\ pc[r] = "running" => \A c \in Bridged : db[c] \subseteq mem[c]
    /\ pc[r] = "running" /\ r \notin Queries => mem = db
    /\ pc[r] = "persisting" => r \notin Queries /\ snapshot[r] = WithEffect(db, r)
    /\ r \in aliased => pc[r] = "persisting"

Compatible(r, s) == r = s \/ {r, s} \subseteq Queries

SerialInv ==
    /\ file = None
    /\ \A r, s \in Active : Compatible(r, s)
    /\ \A r \in Requests : SerialCall(r)

(* A step of one call leaves what the calls beside it rely on: they are    *)
(* queries, and nothing is committed while they are under way.             *)
LEMMA SerialFrame ==
    ASSUME SerialInv, NEW r \in Requests, r \in Active,
           \A s \in Requests \ {r} : pc'[s] = pc[s], file' = file,
           aliased' \subseteq aliased \cup {r},
           \A s \in Requests \ {r} : image'[s] = image[s] /\ unread'[s] = unread[s],
           r \in Queries => db' = db /\ \A c \in Bridged : mem[c] \subseteq mem'[c] \/ mem'[c] = db[c],
           SerialCall(r)'
    PROVE  SerialInv'
<1>1. \A s \in Requests \ {r} : s \in Active => {r, s} \subseteq Queries
  BY DEF SerialInv, Compatible
<1>2. \A s \in Requests \ {r} : s \in Active' => s \in Active
  BY DEF Active
<1>3. ASSUME NEW s \in Requests \ {r} PROVE SerialCall(s)'
  <2>1. s \notin aliased'
    BY <1>1 DEF SerialInv, SerialCall, Active
  <2>2. CASE s \in Active
    <3>1. r \in Queries /\ s \in Queries
      BY <1>1, <2>2
    <3>2. QED
      BY <2>1, <3>1 DEF SerialInv, SerialCall
  <2>3. CASE s \notin Active
    BY <2>1, <2>3 DEF SerialCall, Active
  <2>4. QED
    BY <2>2, <2>3
<1>4. \A s, t \in Active' : Compatible(s, t)
  BY <1>1, <1>2 DEF SerialInv, Compatible, Active
<1>5. QED
  BY <1>3, <1>4 DEF SerialInv

(* Only queries settle with a query, and a command settles alone.          *)
LEMMA QueryParty ==
    ASSUME SerialInv, NEW r \in Requests, pc[r] = "running"
    PROVE  /\ r \in Party(r) /\ Party(r) \subseteq Active
           /\ r \in Queries => Party(r) \subseteq Queries
           /\ r \notin Queries => Party(r) = {r}
BY DEF SerialInv, Compatible, Active, Party

(* A completed refresh has read exactly what is committed.                 *)
LEMMA RefreshedIsCommitted ==
    ASSUME TypeOK, SerialInv, NEW r \in Requests, Refreshed(r)
    PROVE  image[r] = db
<1>1. \A c \in Bridged : image[r][c] = db[c]
  BY DEF SerialInv, SerialCall, Refreshed
<1>2. image[r] \in MemState /\ db \in MemState
  BY DEF TypeOK
<1>3. QED
  BY <1>1, <1>2 DEF MemState

LEMMA SerialInit == Init => SerialInv
BY DEF Init, SerialInv, SerialCall, Active

LEMMA SerialStep ==
    ASSUME Serial = TRUE, GlobalRequire = FALSE
    PROVE  TypeOK /\ OriginInv /\ SerialInv /\ [Next]_vars => SerialInv'
<1> SUFFICES ASSUME TypeOK, OriginInv, SerialInv, [Next]_vars PROVE SerialInv'
  OBVIOUS
<1>1. ASSUME NEW r \in Requests, Arrive(r) PROVE SerialInv'
  <2>1. \A s \in Active : {r, s} \subseteq Queries
    BY <1>1 DEF Arrive
  <2>2. \A s \in Requests \ {r} : pc'[s] = pc[s]
    BY <1>1 DEF Arrive, TypeOK
  <2>3. /\ pc[r] = "idle" /\ pc'[r] = "ensuring" /\ file' = None
        /\ UNCHANGED <<mem, db, unread, image, snapshot, aliased>>
    BY <1>1 DEF Arrive, TypeOK, SerialInv
  <2>4. \A s \in Active' : s = r \/ s \in Active
    BY <2>2 DEF Active
  <2>5. \A s, t \in Active' : Compatible(s, t)
    BY <2>1, <2>4 DEF SerialInv, Compatible
  <2>6. \A s \in Requests : SerialCall(s)'
    BY <2>2, <2>3 DEF SerialInv, SerialCall, WithEffect
  <2>7. QED
    BY <2>3, <2>5, <2>6 DEF SerialInv
<1>2. ASSUME ready # "done", file' = file, aliased' \subseteq aliased,
             \A s \in Requests : pc'[s] = pc[s] \/ pc'[s] = "error"
      PROVE  SerialInv'
  <2>1. \A s \in Requests : pc[s] \notin {"reading", "running", "joined", "persisting"}
    BY <1>2 DEF OriginInv
  <2>2. \A s \in Requests : pc'[s] \notin {"reading", "running", "joined", "persisting"}
    BY <1>2, <2>1
  <2>3. \A s \in Requests : s \in Active' => s \in Active
    BY <1>2, <2>1, <2>2 DEF Active
  <2>4. \A s \in Requests : s \notin aliased'
    BY <1>2, <2>1 DEF SerialInv, SerialCall
  <2>5. QED
    BY <1>2, <2>2, <2>3, <2>4 DEF SerialInv, SerialCall, Active
<1>3. CASE ReadyStep
  BY <1>2, <1>3 DEF ReadyStep, ReadyHydrate, ReadyIsEmpty, ReadySeed, ReadyFail, TypeOK
<1>4. ASSUME NEW r \in Requests, StartRead(r) PROVE SerialInv'
  <2>1. pc[r] = "ensuring" /\ UNCHANGED <<file, aliased, mem, db, image>>
    BY <1>4 DEF StartRead
  <2>2. /\ pc'[r] = "reading" /\ unread'[r] = Bridged
        /\ \A s \in Requests \ {r} : pc'[s] = pc[s] /\ unread'[s] = unread[s]
    BY <1>4 DEF StartRead, TypeOK
  <2>3. r \notin aliased
    BY <2>1 DEF SerialInv, SerialCall
  <2>4. SerialCall(r)'
    BY <2>1, <2>2, <2>3 DEF SerialCall
  <2>5. QED
    BY <2>1, <2>2, <2>4, SerialFrame DEF Active
<1>5. ASSUME NEW r \in Requests, NEW c \in Bridged, ReadCollection(r, c) PROVE SerialInv'
  <2>1. image[r] \in [Bridged -> SUBSET Effect]
    BY DEF TypeOK, MemState
  <2>2. image'[r] = [image[r] EXCEPT ![c] = db[c]] /\ unread'[r] = unread[r] \ {c}
    BY <1>5 DEF ReadCollection, TypeOK
  <2>3. /\ pc[r] = "reading" /\ UNCHANGED <<pc, mem, db, file, aliased>>
        /\ \A s \in Requests \ {r} : image'[s] = image[s] /\ unread'[s] = unread[s]
    BY <1>5 DEF ReadCollection, TypeOK
  <2>4. SerialCall(r)'
    BY <2>1, <2>2, <2>3 DEF SerialCall, SerialInv
  <2>5. QED
    BY <2>3, <2>4, SerialFrame DEF Active
(* A call that leaves the process's rows alone, or replaces them by what is *)
(* committed, and is no longer reading, running or persisting               *)
<1>6. ASSUME NEW r \in Requests, r \in Active, file' = file,
             aliased' \subseteq aliased, r \in aliased' => pc[r] # "persisting",
             \A s \in Requests \ {r} : image'[s] = image[s] /\ unread'[s] = unread[s],
             r \in Queries => db' = db, mem' = mem \/ mem' = db,
             NEW p \in {"error", "ok", "joined"}, pc' = [pc EXCEPT ![r] = p]
      PROVE  SerialInv'
  <2>1. pc'[r] = p /\ \A s \in Requests \ {r} : pc'[s] = pc[s]
    BY <1>6 DEF TypeOK
  <2>2. r \notin aliased'
    BY <1>6 DEF SerialInv, SerialCall
  <2>3. SerialCall(r)'
    BY <2>1, <2>2 DEF SerialCall
  <2>4. QED
    BY <1>6, <2>1, <2>3, SerialFrame
<1>7. ASSUME NEW r \in Requests,
             ReadFail(r) \/ Unknown(r) \/ Join(r) \/ PersistFail(r) \/ Commit(r)
      PROVE  SerialInv'
  <2>1. r \in Active /\ file' = file
    BY <1>7 DEF ReadFail, Unknown, Join, PersistFail, Commit, Refreshed, Active
  <2>2. aliased' \subseteq aliased /\ (r \in aliased' => pc[r] # "persisting")
    BY <1>7 DEF ReadFail, Unknown, Join, PersistFail, Commit, Refreshed
  <2>3. \E p \in {"error", "ok", "joined"} : pc' = [pc EXCEPT ![r] = p]
    BY <1>7 DEF ReadFail, Unknown, Join, PersistFail, Commit
  <2>4. \A s \in Requests \ {r} : image'[s] = image[s] /\ unread'[s] = unread[s]
    BY <1>7 DEF ReadFail, Unknown, Join, PersistFail, Commit, Refreshed, TypeOK
  <2>5. mem' = mem \/ mem' = db
    BY <1>7, RefreshedIsCommitted DEF ReadFail, Unknown, Join, PersistFail, Commit
  <2>6. r \in Queries => db' = db
    BY <1>7 DEF ReadFail, Unknown, Join, PersistFail, Commit, SerialInv, SerialCall
  <2>7. QED
    BY <1>6, <2>1, <2>2, <2>3, <2>4, <2>5, <2>6
<1>8. ASSUME NEW r \in Requests, Call(r) \/ Lead(r) PROVE SerialInv'
  <2>1. mem' = db /\ db' = db
    BY <1>8, RefreshedIsCommitted DEF Call, Lead, LoadState, SerialInv
  <2>2. pc' = [pc EXCEPT ![r] = "running"] /\ pc[r] = "reading" /\ file' = file /\ aliased' = {}
    BY <1>8 DEF Call, Lead, Refreshed
  <2>3. /\ pc'[r] = "running" /\ \A s \in Requests \ {r} : pc'[s] = pc[s]
        /\ \A s \in Requests \ {r} : image'[s] = image[s] /\ unread'[s] = unread[s]
    BY <1>8, <2>2 DEF Call, Lead, Refreshed, TypeOK
  <2>4. SerialCall(r)'
    BY <2>1, <2>2, <2>3 DEF SerialCall
  <2>5. QED
    BY <2>1, <2>2, <2>3, <2>4, SerialFrame DEF Active
<1>9. ASSUME NEW r \in Requests, Finish(r), r \in Queries PROVE SerialInv'
  <2>1. /\ pc[r] = "running" /\ Party(r) \subseteq Queries \cap Active /\ r \in Party(r)
        /\ Party(r) \ Queries = {}
    BY <1>9, QueryParty DEF Finish
  <2>2. \A s \in aliased : s \notin Requests
    BY <2>1 DEF SerialInv, SerialCall, Active, Compatible
  <2>3. /\ UNCHANGED <<db, file, image, unread>>
        /\ \A s \in Requests : pc'[s] = IF s \in Party(r) THEN "ok" ELSE pc[s]
        /\ aliased' = aliased
    BY <1>9, <2>1 DEF Finish, TakeSnapshot
  <2>4. \A c \in Bridged : mem[c] \subseteq mem'[c]
    BY <1>9 DEF Finish, WithEffect, TypeOK, MemState
  <2>5. \A s, t \in Active' : s \in Active /\ t \in Active
    BY <2>3 DEF Active
  <2>6. ASSUME NEW s \in Requests PROVE SerialCall(s)'
    <3>1. s \notin aliased'
      BY <2>2, <2>3
    <3>2. CASE s \in Active
      <4>1. s \in Queries /\ pc[s] # "persisting"
        BY <2>1, <3>2 DEF SerialInv, Compatible, SerialCall, Active
      <4>2. QED
        BY <2>3, <2>4, <3>1, <4>1 DEF SerialInv, SerialCall
    <3>3. CASE s \notin Active
      BY <2>3, <3>1, <3>3 DEF SerialCall, Active
    <3>4. QED
      BY <3>2, <3>3
  <2>7. QED
    BY <2>3, <2>5, <2>6 DEF SerialInv
<1>10. ASSUME NEW r \in Requests, Finish(r), r \notin Queries PROVE SerialInv'
  <2>1. Party(r) = {r} /\ mem = db
    BY <1>10, QueryParty DEF Finish, SerialInv, SerialCall
  <2>2. UNCHANGED <<db, file, image, unread>> /\ pc[r] = "running"
    BY <1>10 DEF Finish, SaveFile
  <2>3. \A s \in Requests \ {r} : pc'[s] = pc[s]
    BY <1>10, <2>1 DEF Finish
  <2>4. aliased' = aliased \cup {r}
    BY <1>10, <2>1 DEF Finish, TakeSnapshot
  <2>5. pc'[r] = "persisting" /\ snapshot'[r] = WithEffect(mem, r)
    BY <1>10, <2>1 DEF Finish, TakeSnapshot
  <2>6. SerialCall(r)'
    BY <1>10, <2>1, <2>2, <2>5 DEF SerialCall, WithEffect
  <2>7. QED
    BY <1>10, <2>2, <2>3, <2>4, <2>6, SerialFrame DEF Active
<1>11. ASSUME NEW r \in Requests, Throw(r) PROVE SerialInv'
  <2>1. /\ pc[r] = "running" /\ UNCHANGED <<mem, db, file, aliased, image, unread, snapshot>>
        /\ \A s \in Requests : pc'[s] = IF s \in Party(r) THEN "error" ELSE pc[s]
    BY <1>11 DEF Throw
  <2>2. Party(r) \subseteq Active /\ \A s \in Party(r) : s = r \/ s \in Queries
    BY <2>1, QueryParty
  <2>3. \A s \in Active' : s \in Active
    BY <2>1 DEF Active
  <2>4. \A s \in Party(r) : s \notin aliased
    BY <2>1, <2>2 DEF SerialInv, SerialCall, Party
  <2>5. ASSUME NEW s \in Requests PROVE SerialCall(s)'
    BY <2>1, <2>4 DEF SerialInv, SerialCall, WithEffect
  <2>6. QED
    BY <2>1, <2>3, <2>5 DEF SerialInv
<1>12. CASE TimerSave \/ UNCHANGED vars
  <2>1. UNCHANGED <<mem, db, pc, unread, image, snapshot, aliased, file>>
    BY <1>12 DEF TimerSave, SaveFile, vars
  <2>2. QED
    BY <2>1 DEF SerialInv, SerialCall, Active, WithEffect
<1>13. CASE Crash
  <2>1. file' = None /\ aliased' = {} /\ \A s \in Requests : s \notin Active'
    BY <1>13 DEF Crash, Active, SerialInv, TypeOK
  <2>2. QED
    BY <2>1 DEF SerialInv, SerialCall, Active
<1>14. QED
  BY <1>1, <1>3, <1>4, <1>5, <1>7, <1>8, <1>9, <1>10, <1>11, <1>12, <1>13 DEF Next, Step

LEMMA SerialAlways ==
    ASSUME Serial = TRUE, GlobalRequire = FALSE
    PROVE  Spec => [](TypeOK /\ OriginInv /\ SerialInv)
<1>1. Spec => []OriginInv
  BY OriginInit, OriginStep, TypeCorrect, PTL DEF Spec
<1>2. QED
  BY <1>1, SerialInit, SerialStep, TypeCorrect, PTL DEF Spec

(* Every step changes the database as a seed or as the whole effect of one *)
(* command, or not at all.                                                 *)
LEMMA StepIsStoreStep ==
    ASSUME TypeOK, OriginInv, SerialInv, [Next]_vars
    PROVE  [Store!Next]_db
<1>1. DOMAIN db = Bridged
  BY DEF TypeOK, MemState
<1>2. CASE ReadySeed \/ ReadyFail
  <2>1. UNCHANGED db \/ (~HasData(db) /\ db' = SeedState)
    BY <1>2 DEF ReadySeed, ReadyFail, OriginInv
  <2>2. QED
    BY <2>1 DEF Store!Next, Store!Seed, Store!HasData, Store!SeedState, HasData, SeedState
<1>3. ASSUME NEW r \in Requests, Commit(r) \/ PersistFail(r)
      PROVE  r \notin Queries /\ (Store!Write(r) \/ UNCHANGED db)
  <2>1. r \notin Queries /\ HasData(db) /\ db' \in {db, WithEffect(db, r)}
    BY <1>3 DEF Commit, PersistFail, OriginInv, SerialInv, SerialCall
  <2>2. WithEffect(db, r) = Store!WithEffect(db, r)
    BY <1>1 DEF WithEffect, Store!WithEffect
  <2>3. QED
    BY <2>1, <2>2 DEF Store!Write, Store!HasData, HasData
<1>4. CASE UNCHANGED db
  BY <1>4
<1>5. QED
  BY <1>2, <1>3, <1>4 DEF Store!Next, Next, Step, ReadyStep, Arrive, ReadyHydrate, ReadyIsEmpty,
     StartRead, ReadCollection, ReadFail, Call, Lead, Join, Unknown, Finish,
     Throw, TimerSave, Crash, vars

(* While only queries overlap the bridge and its database are the atomic   *)
(* store of DomainStore.                                                   *)
THEOREM SerialRefinesStore ==
    ASSUME Serial = TRUE, GlobalRequire = FALSE
    PROVE  Spec => StoreSpec
<1>1. Init => Store!Init
  BY DEF Init, Store!Init
<1>2. TypeOK /\ OriginInv /\ SerialInv /\ [Next]_vars => [Store!Next]_db
  BY StepIsStoreStep
<1>3. QED
  BY <1>1, <1>2, SerialAlways, PTL DEF Spec, StoreSpec, Store!Spec

(* While only queries overlap no committed effect is ever lost.            *)
THEOREM SerialKeepsCommitted ==
    ASSUME Serial = TRUE, GlobalRequire = FALSE
    PROVE  Spec => CommittedEffectsStay
<1>1. TypeOK /\ OriginInv /\ SerialInv /\ [Next]_vars
        => [\A c \in Bridged : db[c] \subseteq db'[c]]_vars
  <2> SUFFICES ASSUME TypeOK, OriginInv, SerialInv, [Next]_vars, NEW c \in Bridged
               PROVE  db[c] \subseteq db'[c]
    BY DEF vars
  <2>1. DOMAIN db = Bridged
    BY DEF TypeOK, MemState
  <2>2. [Store!Next]_db
    BY StepIsStoreStep
  <2>3. CASE Store!Seed
    BY <2>3 DEF Store!Seed, Store!HasData
  <2>4. ASSUME NEW r \in Requests, Store!Write(r) PROVE db[c] \subseteq db'[c]
    BY <2>4 DEF Store!Write, Store!WithEffect
  <2>5. QED
    BY <2>2, <2>3, <2>4 DEF Store!Next
<1>2. QED
  BY <1>1, SerialAlways, PTL DEF Spec, CommittedEffectsStay

(* While only queries overlap every query that is answered, as a leader or *)
(* as a joined call, has its answer from all that was committed.           *)
THEOREM SerialQueriesSeeCommitted ==
    ASSUME Serial = TRUE, GlobalRequire = FALSE
    PROVE  Spec => QueriesSeeCommitted
<1>1. ASSUME TypeOK, SerialInv, Next, NEW r \in Queries, pc[r] # "ok", pc'[r] = "ok",
             NEW c \in Bridged
      PROVE  db[c] \subseteq mem[c]
  <2>1. r \in Requests
    BY DomainRpcAssumption
  <2>2. ASSUME NEW l \in Requests, Finish(l) PROVE db[c] \subseteq mem[c]
    BY <1>1, <2>2 DEF Finish, SerialInv, SerialCall
  <2>3. ASSUME NEW l \in Requests, Commit(l) PROVE FALSE
    <3>1. l = r /\ pc[r] = "persisting"
      BY <1>1, <2>1, <2>3 DEF Commit, TypeOK
    <3>2. QED
      BY <1>1, <2>1, <3>1 DEF SerialInv, SerialCall
  <2>4. ASSUME NEW l \in Requests,
               Arrive(l) \/ StartRead(l) \/ ReadFail(l) \/ Call(l) \/ Lead(l) \/ Join(l)
                 \/ Unknown(l) \/ Throw(l) \/ PersistFail(l) \/ \E d \in Bridged : ReadCollection(l, d)
        PROVE  FALSE
    BY <1>1, <2>1, <2>4 DEF Arrive, StartRead, ReadFail, Call, Lead, Join, Unknown, Throw,
       PersistFail, ReadCollection, TypeOK
  <2>5. ASSUME ReadyStep \/ TimerSave \/ Crash PROVE FALSE
    BY <1>1, <2>1, <2>5 DEF ReadyStep, ReadyHydrate, ReadyIsEmpty, ReadySeed, ReadyFail, TimerSave,
       Crash, TypeOK
  <2>6. QED
    BY <1>1, <2>2, <2>3, <2>4, <2>5 DEF Next, Step
<1>2. TypeOK /\ SerialInv /\ [Next]_vars
        => [\A r \in Queries : pc[r] # "ok" /\ pc'[r] = "ok" =>
              \A c \in Bridged : db[c] \subseteq mem[c]]_vars
  BY <1>1
<1>3. QED
  BY <1>2, SerialAlways, PTL DEF Spec, QueriesSeeCommitted
==============================================================================
