--------------------------- MODULE DomainRpc_proofs ---------------------------
(***************************************************************************)
(* Proofs about DomainRpc, for every set of calls, collections, fingerprint *)
(* assignment, limit and number of restarts.                               *)
(***************************************************************************)
EXTENDS DomainRpc, TLAPS

(* What WithEffect returns on a well-formed map.                           *)
LEMMA WithEffectType ==
    ASSUME NEW D, NEW s \in [D -> SUBSET Effect], NEW r \in Requests
    PROVE  WithEffect(s, r) \in [D -> SUBSET Effect]
BY DEF WithEffect, Effect

(* A request's effect is neither the seed rows nor the old rows.           *)
LEMMA WithEffectOrigin ==
    ASSUME NEW s \in MemState, NEW r \in Requests
    PROVE  Origin(WithEffect(s, r)) = Origin(s)
<1>1. r \notin {SeedData, OldData}
  BY DomainRpcAssumption
<1>2. DOMAIN s = Bridged
  BY DEF MemState
<1>3. ASSUME NEW c \in Bridged
      PROVE  WithEffect(s, r)[c] \cap {SeedData, OldData} = s[c] \cap {SeedData, OldData}
  BY <1>1, <1>2 DEF WithEffect
<1>4. QED
  BY <1>3 DEF Origin

(* Neither do the rows a transaction shares with memory change the origin   *)
(* of what it writes.                                                      *)
LEMMA WithLeakType ==
    ASSUME NEW s \in MemState, NEW r \in Requests, NEW leaked \in SUBSET Bridged
    PROVE  WithLeak(s, r, leaked) \in MemState
BY DEF WithLeak, MemState, Effect

LEMMA WithLeakOrigin ==
    ASSUME NEW s \in MemState, NEW r \in Requests, NEW leaked \in SUBSET Bridged
    PROVE  Origin(WithLeak(s, r, leaked)) = Origin(s)
<1>1. r \notin {SeedData, OldData}
  BY DomainRpcAssumption
<1>2. ASSUME NEW c \in Bridged
      PROVE  WithLeak(s, r, leaked)[c] \cap {SeedData, OldData} = s[c] \cap {SeedData, OldData}
  BY <1>1 DEF WithLeak
<1>3. QED
  BY <1>2 DEF Origin

(* Every entry of the evicted map is an entry of the map.                  *)
LEMMA EvictionsKeepEntries ==
    ASSUME flight \in [Keys -> Requests \cup {None}], NEW f \in Evictions
    PROVE  /\ f \in [Keys -> Requests \cup {None}]
           /\ \A k \in Keys : f[k] = None \/ f[k] = flight[k]
BY DEF Evictions

(* Every variable keeps its type (TypeOK), whatever the calls do.          *)
THEOREM TypeCorrect == Spec => []TypeOK
<1>1. Init => TypeOK
  <2> SUFFICES ASSUME Init PROVE TypeOK
    OBVIOUS
  <2>1. mem \in MemState /\ local \in LocalState /\ db \in MemState
    BY DEF Init, MemState, LocalState, SeedState, SeedLocal, Effect
  <2>2. image \in [Requests -> MemState] /\ snapshot \in [Requests -> MemState]
    BY DEF Init, Empty, MemState
  <2>3. QED
    BY <2>1, <2>2 DEF Init, TypeOK
<1>2. TypeOK /\ [Next]_vars => TypeOK'
  <2> SUFFICES ASSUME TypeOK, [Next]_vars PROVE TypeOK'
    OBVIOUS
  <2> USE DEF TypeOK
  <2>a. Empty \in MemState /\ SeedState \in MemState /\ SeedLocal \in LocalState
    BY DEF Empty, SeedState, SeedLocal, MemState, LocalState, Effect
  <2>1. ASSUME NEW r \in Requests, Arrive(r) PROVE TypeOK'
    BY <2>1 DEF Arrive
  <2>2. CASE ReadyStep
    BY <2>2 DEF ReadyStep, ReadyHydrate, ReadyIsEmpty, ReadySeed, ReadyFail
  <2>3. ASSUME NEW r \in Requests, StartRead(r) PROVE TypeOK'
    BY <2>3 DEF StartRead
  <2>4. ASSUME NEW r \in Requests, NEW c \in Bridged, ReadCollection(r, c) PROVE TypeOK'
    <3>1. [image[r] EXCEPT ![c] = db[c]] \in MemState
      BY DEF MemState
    <3>2. image' \in [Requests -> MemState]
      BY <2>4, <3>1 DEF ReadCollection
    <3>3. QED
      BY <2>4, <3>2 DEF ReadCollection
  <2>5. ASSUME NEW r \in Requests, ReadFail(r) PROVE TypeOK'
    BY <2>5, <2>a DEF ReadFail
  <2>6. ASSUME NEW r \in Requests, Call(r) PROVE TypeOK'
    BY <2>6, <2>a DEF Call, Refreshed, LoadState
  <2>7. ASSUME NEW r \in Requests, Lead(r) PROVE TypeOK'
    <3>1. flight' \in [Keys -> Requests \cup {None}]
      <4>1. PICK f \in Evictions : flight' = [f EXCEPT ![KeyOf[r]] = r]
        BY <2>7 DEF Lead
      <4>2. f \in [Keys -> Requests \cup {None}]
        BY EvictionsKeepEntries
      <4>3. QED
        BY <4>1, <4>2
    <3>2. aliased' \in SUBSET Requests /\ image' \in [Requests -> MemState]
      BY <2>7, <2>a DEF Lead, Refreshed
    <3>3. mem' \in MemState /\ local' \in LocalState /\ hydrated' \in BOOLEAN
      BY <2>7 DEF Lead, LoadState
    <3>4. QED
      BY <2>7, <3>1, <3>2, <3>3 DEF Lead
  <2>8. ASSUME NEW r \in Requests, Join(r) PROVE TypeOK'
    <3>0. KeyOf[r] \in Keys
      BY <2>8, DomainRpcAssumption DEF Join
    <3>1. /\ flight' \in [Keys -> Requests \cup {None}]
          /\ leader' \in [Requests -> Requests \cup {None}]
      BY <2>8, <3>0, EvictionsKeepEntries DEF Join
    <3>2. QED
      BY <2>8, <2>a, <3>1 DEF Join, Refreshed
  <2>9. ASSUME NEW r \in Requests, Unknown(r) PROVE TypeOK'
    BY <2>9, <2>a DEF Unknown, Refreshed
  <2>10. ASSUME NEW r \in Requests, Finish(r) PROVE TypeOK'
    <3>1. WithEffect(mem, r) \in MemState /\ WithEffect(local, r) \in LocalState
      BY WithEffectType DEF MemState, LocalState
    <3>2. snapshot' \in [Requests -> MemState] /\ aliased' \in SUBSET Requests
      <4>1. PICK leak \in Leaks(r) :
              snapshot' = [j \in Requests |->
                             IF j \in Party(r) \ Queries THEN WithEffect(mem, r)
                             ELSE IF j \in aliased THEN WithLeak(snapshot[j], r, leak[j])
                             ELSE snapshot[j]]
        BY <2>10 DEF Finish, TakeSnapshot
      <4>2. \A j \in aliased : WithLeak(snapshot[j], r, leak[j]) \in MemState
        BY <4>1, WithLeakType DEF Leaks
      <4>3. aliased' = aliased \cup (Party(r) \ Queries)
        BY <2>10 DEF Finish, TakeSnapshot
      <4>4. QED
        BY <3>1, <4>1, <4>2, <4>3 DEF Party
    <3>3. flight' \in [Keys -> Requests \cup {None}]
      BY <2>10 DEF Finish, Forget
    <3>4. leader' \in [Requests -> Requests \cup {None}]
      BY <2>10 DEF Finish, LeaveFlight
    <3>5. file' \in [bridged : MemState, local : LocalState] \cup {None}
      BY <2>10, <3>1 DEF Finish, SaveFile
    <3>6. QED
      BY <2>10, <3>1, <3>2, <3>3, <3>4, <3>5 DEF Finish
  <2>11. ASSUME NEW r \in Requests, Throw(r) PROVE TypeOK'
    BY <2>11 DEF Throw, Forget, LeaveFlight
  <2>12. ASSUME NEW r \in Requests, Commit(r) PROVE TypeOK'
    BY <2>12, <2>a DEF Commit
  <2>13. ASSUME NEW r \in Requests, PersistFail(r) PROVE TypeOK'
    BY <2>13, <2>a DEF PersistFail
  <2>14. CASE TimerSave
    BY <2>14 DEF TimerSave, SaveFile
  <2>15. CASE Crash
    <3>1. mem' \in MemState /\ local' \in LocalState /\ db' \in MemState
      BY <2>15, <2>a DEF Crash
    <3>2. image' \in [Requests -> MemState] /\ snapshot' \in [Requests -> MemState]
      BY <2>15, <2>a DEF Crash
    <3>3. pc' \in [Requests -> {"idle", "ensuring", "reading", "running", "joined",
                                "persisting", "ok", "error", "lost"}]
      BY <2>15 DEF Crash
    <3>4. /\ unread' \in [Requests -> SUBSET Bridged]
          /\ flight' \in [Keys -> Requests \cup {None}]
          /\ leader' \in [Requests -> Requests \cup {None}]
      BY <2>15 DEF Crash
    <3>5. file' \in [bridged : MemState, local : LocalState] \cup {None}
      BY <2>15 DEF Crash
    <3>6. hydrated' \in BOOLEAN /\ ready' \in {"none", "reading", "seeding", "done"}
      BY <2>15 DEF Crash
    <3>7. crashes' \in Nat
      <4>1. crashes \in Nat /\ crashes' = crashes + 1
        BY <2>15 DEF Crash
      <4>2. QED
        BY ONLY <4>1
    <3>8. aliased' \in SUBSET Requests
      BY <2>15 DEF Crash
    <3>9. QED
      BY <3>1, <3>2, <3>3, <3>4, <3>5, <3>6, <3>7, <3>8
  <2>16. CASE UNCHANGED vars
    BY <2>16 DEF vars
  <2>17. QED
    BY <2>1, <2>2, <2>3, <2>4, <2>5, <2>6, <2>7, <2>8, <2>9, <2>10, <2>11, <2>12,
       <2>13, <2>14, <2>15, <2>16 DEF Next, Step
<1>3. QED
  BY <1>1, <1>2, PTL DEF Spec
------------------------------------------------------------------------------
(* The inductive invariant behind OriginIsSettled: until the readiness     *)
(* promise is settled nothing has touched the process's own rows, and from *)
(* then on memory, reads in progress, snapshots and the state file agree   *)
(* with the database about the seed rows and the old rows.                 *)
HasOrigin(s) == \E c \in Bridged : s[c] \cap {SeedData, OldData} # {}

OriginInv ==
    /\ HasData(db) => HasOrigin(db)
    /\ ready # "done" => mem = SeedState /\ ~hydrated
    /\ ready = "seeding" => ~HasData(db)
    /\ ready = "done" => HasData(db) /\ Origin(mem) = Origin(db)
    /\ file # None => HasData(db) /\ Origin(file.bridged) = Origin(db)
    /\ \A r \in Requests :
         /\ pc[r] \in {"reading", "running", "joined", "persisting"} => ready = "done"
         /\ pc[r] = "reading" => \A c \in Bridged \ unread[r] :
              image[r][c] \cap {SeedData, OldData} = db[c] \cap {SeedData, OldData}
         /\ pc[r] = "persisting" => Origin(snapshot[r]) = Origin(db)

(* A map with the origin of a map that has one holds data.                 *)
LEMMA SameOriginHasData ==
    ASSUME NEW s \in MemState, NEW t \in MemState, HasOrigin(s), Origin(t) = Origin(s)
    PROVE  HasData(t) /\ HasOrigin(t)
<1>1. PICK c \in Bridged : s[c] \cap {SeedData, OldData} # {}
  BY DEF HasOrigin
<1>2. t[c] \cap {SeedData, OldData} = s[c] \cap {SeedData, OldData}
  BY DEF Origin
<1>3. QED
  BY <1>1, <1>2 DEF HasData, HasOrigin

(* A completed refresh read agrees with the database about its origin.     *)
LEMMA RefreshedOrigin ==
    ASSUME TypeOK, OriginInv, NEW r \in Requests, Refreshed(r)
    PROVE  ready = "done" /\ Origin(image[r]) = Origin(db)
<1>1. ready = "done"
  BY DEF Refreshed, OriginInv
<1>2. \A c \in Bridged :
        image[r][c] \cap {SeedData, OldData} = db[c] \cap {SeedData, OldData}
  BY DEF Refreshed, OriginInv
<1>3. QED
  BY <1>1, <1>2 DEF Origin

LEMMA OriginInit == Init => OriginInv
<1> SUFFICES ASSUME Init PROVE OriginInv
  OBVIOUS
<1>1. HasData(db) => HasOrigin(db)
  <2> SUFFICES ASSUME HasData(db) PROVE HasOrigin(db)
    OBVIOUS
  <2>1. PICK c \in Bridged : db[c] # {}
    BY DEF HasData
  <2>2. db[c] = {OldData}
    BY <2>1 DEF Init
  <2>3. QED
    BY <2>2 DEF HasOrigin
<1>2. QED
  BY <1>1 DEF Init, OriginInv

(* Every step keeps the invariant.                                         *)
LEMMA OriginStep == TypeOK /\ TypeOK' /\ OriginInv /\ [Next]_vars => OriginInv'
<1> SUFFICES ASSUME TypeOK, TypeOK', OriginInv, [Next]_vars PROVE OriginInv'
  OBVIOUS
<1> USE DEF OriginInv
<1>1. ASSUME NEW r \in Requests, Arrive(r) PROVE OriginInv'
  BY <1>1 DEF Arrive, TypeOK, HasData, HasOrigin, Origin
<1>2. CASE ReadyHydrate
  BY <1>2 DEF ReadyHydrate, TypeOK, HasData, HasOrigin, Origin
<1>3. CASE ReadyIsEmpty
  BY <1>3 DEF ReadyIsEmpty, TypeOK, HasData, HasOrigin, Origin
<1>4. CASE ReadySeed
  <2>1. HasOrigin(SeedState) /\ HasData(SeedState)
    BY DomainRpcAssumption DEF HasOrigin, HasData, SeedState
  <2>2. db' = SeedState /\ mem' = SeedState
    BY <1>4 DEF ReadySeed
  <2>3. HasData(db)' /\ HasOrigin(db)' /\ Origin(mem)' = Origin(db)'
    BY <2>1, <2>2 DEF HasData, HasOrigin, Origin
  <2>4. file = None
    BY <1>4 DEF ReadySeed
  <2>5. \A r \in Requests : pc[r] \notin {"reading", "running", "joined", "persisting"}
    BY <1>4 DEF ReadySeed
  <2>6. QED
    BY <1>4, <2>3, <2>4, <2>5 DEF ReadySeed
<1>5. CASE ReadyFail
  <2>1. CASE UNCHANGED db
    BY <1>5, <2>1 DEF ReadyFail, TypeOK, HasData, HasOrigin, Origin
  <2>2. CASE ready = "seeding" /\ db' = mem
    <3>1. HasOrigin(SeedState) /\ HasData(SeedState)
      BY DomainRpcAssumption DEF HasOrigin, HasData, SeedState
    <3>2. db' = SeedState /\ mem' = SeedState /\ ~hydrated' /\ ready' = "none"
      BY <1>5, <2>2 DEF ReadyFail
    <3>3. HasData(db)' /\ HasOrigin(db)'
      BY <3>1, <3>2 DEF HasData, HasOrigin
    <3>4. file' = None
      BY <1>5, <2>2 DEF ReadyFail
    <3>5. \A r \in Requests : pc'[r] \notin {"reading", "running", "joined", "persisting"}
      BY <1>5, <2>2 DEF ReadyFail, TypeOK
    <3>6. QED
      BY <3>2, <3>3, <3>4, <3>5
  <2>3. QED
    BY <1>5, <2>1, <2>2 DEF ReadyFail
<1>6. ASSUME NEW r \in Requests, StartRead(r) PROVE OriginInv'
  BY <1>6 DEF StartRead, TypeOK, HasData, HasOrigin, Origin
<1>7. ASSUME NEW r \in Requests, NEW c \in Bridged, ReadCollection(r, c) PROVE OriginInv'
  <2>1. image[r] \in [Bridged -> SUBSET Effect]
    BY DEF TypeOK, MemState
  <2>2. image'[r] = [image[r] EXCEPT ![c] = db[c]] /\ unread'[r] = unread[r] \ {c}
    BY <1>7 DEF ReadCollection, TypeOK
  <2>3. \A d \in Bridged \ unread'[r] :
          image'[r][d] \cap {SeedData, OldData} = db[d] \cap {SeedData, OldData}
    BY <1>7, <2>1, <2>2 DEF ReadCollection
  <2>4. \A s \in Requests \ {r} : image'[s] = image[s] /\ unread'[s] = unread[s]
    BY <1>7 DEF ReadCollection, TypeOK
  <2>5. UNCHANGED <<mem, db, file, hydrated, ready, pc, snapshot>>
    BY <1>7 DEF ReadCollection
  <2>6. QED
    BY <2>3, <2>4, <2>5 DEF HasData, HasOrigin, Origin
<1>8. ASSUME NEW r \in Requests, ReadFail(r) PROVE OriginInv'
  BY <1>8 DEF ReadFail, TypeOK, HasData, HasOrigin, Origin
<1>9. ASSUME NEW r \in Requests, Refreshed(r), pc'[r] \in {"running", "joined", "error"},
             pc' = [pc EXCEPT ![r] = pc'[r]],
             mem' = image[r] \/ (file # None /\ mem' = file.bridged),
             UNCHANGED <<db, file, ready, unread, snapshot>>
      PROVE  OriginInv'
  <2>1. ready = "done" /\ Origin(image[r]) = Origin(db)
    BY <1>9, RefreshedOrigin
  <2>2. Origin(mem)' = Origin(db)'
    BY <1>9, <2>1 DEF Origin
  <2>3. \A s \in Requests \ {r} : image'[s] = image[s] /\ pc'[s] = pc[s]
    BY <1>9 DEF Refreshed, TypeOK
  <2>4. HasData(db)' /\ HasOrigin(db)' /\ ready' = "done"
    BY <1>9, <2>1 DEF HasData, HasOrigin
  <2>5. QED
    BY <1>9, <2>2, <2>3, <2>4 DEF Origin
<1>10. ASSUME NEW r \in Requests, Call(r) PROVE OriginInv'
  <2>1. pc' = [pc EXCEPT ![r] = "running"] /\ pc'[r] = "running"
    BY <1>10 DEF Call, TypeOK
  <2>2. QED
    BY <1>9, <1>10, <2>1 DEF Call, LoadState
<1>11. ASSUME NEW r \in Requests, Lead(r) PROVE OriginInv'
  <2>1. pc' = [pc EXCEPT ![r] = "running"] /\ pc'[r] = "running"
    BY <1>11 DEF Lead, TypeOK
  <2>2. QED
    BY <1>9, <1>11, <2>1 DEF Lead, LoadState
<1>12. ASSUME NEW r \in Requests, Join(r) PROVE OriginInv'
  <2>1. pc' = [pc EXCEPT ![r] = "joined"] /\ pc'[r] = "joined"
    BY <1>12 DEF Join, TypeOK
  <2>2. QED
    BY <1>9, <1>12, <2>1 DEF Join
<1>13. ASSUME NEW r \in Requests, Unknown(r) PROVE OriginInv'
  <2>1. pc' = [pc EXCEPT ![r] = "error"] /\ pc'[r] = "error"
    BY <1>13 DEF Unknown, TypeOK
  <2>2. QED
    BY <1>9, <1>13, <2>1 DEF Unknown
<1>14. ASSUME NEW r \in Requests, Finish(r) PROVE OriginInv'
  <2>1. ready = "done" /\ HasData(db) /\ Origin(mem) = Origin(db)
    BY <1>14 DEF Finish
  <2>2. Origin(WithEffect(mem, r)) = Origin(db)
    BY <2>1, WithEffectOrigin DEF TypeOK
  <2>3. mem' = WithEffect(mem, r) /\ UNCHANGED <<db, hydrated, ready, unread, image>>
    BY <1>14 DEF Finish
  <2>4. Origin(mem') = Origin(db')
    BY <2>2, <2>3
  <2>5. file' # None => HasData(db') /\ Origin(file'.bridged) = Origin(db')
    BY <1>14, <2>1, <2>2, <2>3 DEF Finish, SaveFile
  <2>6. ASSUME NEW s \in Requests
        PROVE  /\ pc'[s] = "reading" => pc[s] = "reading"
               /\ pc'[s] = "persisting" => Origin(snapshot'[s]) = Origin(db')
    <3>1. PICK leak \in Leaks(r) :
            snapshot' = [j \in Requests |->
                           IF j \in Party(r) \ Queries THEN WithEffect(mem, r)
                           ELSE IF j \in aliased THEN WithLeak(snapshot[j], r, leak[j])
                           ELSE snapshot[j]]
      BY <1>14 DEF Finish, TakeSnapshot
    <3>2. CASE s \in Party(r) \ Queries
      BY <1>14, <2>2, <2>3, <3>1, <3>2 DEF Finish, TypeOK
    <3>3. CASE s \notin Party(r) \ Queries /\ s \in aliased
      <4>1. pc'[s] = "persisting" => pc[s] = "persisting"
        BY <1>14, <3>3 DEF Finish, TypeOK
      <4>2. Origin(snapshot'[s]) = Origin(snapshot[s])
        BY <3>1, <3>3, WithLeakOrigin DEF Leaks, TypeOK
      <4>3. QED
        BY <1>14, <2>3, <3>3, <4>1, <4>2 DEF Finish, TypeOK
    <3>4. CASE s \notin Party(r) \ Queries /\ s \notin aliased
      BY <1>14, <2>3, <3>1, <3>4 DEF Finish, TypeOK
    <3>5. QED
      BY <3>2, <3>3, <3>4
  <2>7. QED
    BY <2>1, <2>3, <2>4, <2>5, <2>6 DEF HasData, HasOrigin, Origin
<1>15. ASSUME NEW r \in Requests, Throw(r) PROVE OriginInv'
  BY <1>15 DEF Throw, TypeOK, HasData, HasOrigin, Origin
<1>16. ASSUME NEW r \in Requests, Commit(r) \/ PersistFail(r) PROVE OriginInv'
  <2>1. ready = "done" /\ HasOrigin(db) /\ Origin(mem) = Origin(db)
          /\ Origin(snapshot[r]) = Origin(db)
    BY <1>16 DEF Commit, PersistFail
  <2>2. db' \in {db, snapshot[r]} /\ UNCHANGED <<mem, file, hydrated, ready, unread, image>>
    BY <1>16 DEF Commit, PersistFail
  <2>3. HasData(db') /\ HasOrigin(db') /\ Origin(db') = Origin(db)
    BY <2>1, <2>2, SameOriginHasData DEF TypeOK
  <2>4. \A c \in Bridged :
          db'[c] \cap {SeedData, OldData} = db[c] \cap {SeedData, OldData}
    BY <2>3 DEF Origin
  <2>5. \A s \in Requests \ {r} : pc'[s] = pc[s] /\ snapshot'[s] = snapshot[s]
    BY <1>16 DEF Commit, PersistFail, TypeOK
  <2>6. pc'[r] \in {"ok", "error"}
    BY <1>16 DEF Commit, PersistFail, TypeOK
  <2>7. \A s \in Requests :
          /\ pc'[s] \in {"reading", "running", "joined", "persisting"} => ready' = "done"
          /\ pc'[s] = "reading" => \A c \in Bridged \ unread'[s] :
               image'[s][c] \cap {SeedData, OldData} = db'[c] \cap {SeedData, OldData}
          /\ pc'[s] = "persisting" => Origin(snapshot'[s]) = Origin(db')
    BY <2>1, <2>2, <2>3, <2>4, <2>5, <2>6
  <2>8. QED
    BY <2>1, <2>2, <2>3, <2>7 DEF HasData, HasOrigin, Origin
<1>18. CASE TimerSave
  BY <1>18 DEF TimerSave, SaveFile, TypeOK, HasData, HasOrigin, Origin
<1>19. CASE Crash
  <2>1. \A s \in Requests :
          pc'[s] \notin {"reading", "running", "joined", "persisting"}
    BY <1>19 DEF Crash, Active, TypeOK
  <2>2. QED
    BY <1>19, <2>1 DEF Crash, HasData, HasOrigin, Origin
<1>20. CASE UNCHANGED vars
  BY <1>20 DEF vars, HasData, HasOrigin, Origin
<1>21. QED
  BY <1>1, <1>2, <1>3, <1>4, <1>5, <1>6, <1>7, <1>8, <1>10, <1>11, <1>12, <1>13,
     <1>14, <1>15, <1>16, <1>18, <1>19, <1>20 DEF Next, Step, ReadyStep

(* A step never changes what a database that holds anything holds of the   *)
(* seed rows and of the old rows (OriginIsSettled): start-up races, failed  *)
(* reads, overlapping commands and restarts included.                      *)
THEOREM OriginSettled == Spec => OriginIsSettled
<1>1. TypeOK /\ OriginInv /\ [Next]_vars => [HasData(db) => Origin(db') = Origin(db)]_vars
  <2> SUFFICES ASSUME TypeOK, OriginInv, Next, HasData(db)
               PROVE  Origin(db') = Origin(db)
    BY DEF vars
  <2>1. CASE ReadySeed \/ ReadyFail
    BY <2>1 DEF ReadySeed, ReadyFail, OriginInv
  <2>2. ASSUME NEW r \in Requests, Commit(r) \/ PersistFail(r) PROVE Origin(db') = Origin(db)
    BY <2>2 DEF Commit, PersistFail, OriginInv
  <2>3. CASE UNCHANGED db
    BY <2>3
  <2>4. QED
    BY <2>1, <2>2, <2>3 DEF Next, Step, ReadyStep, Arrive, ReadyHydrate, ReadyIsEmpty,
       StartRead, ReadCollection, ReadFail, Call, Lead, Join, Unknown, Finish,
       Throw, TimerSave, Crash
<1>2. Spec => []OriginInv
  <2>1. QED
    BY OriginInit, OriginStep, TypeCorrect, PTL DEF Spec
<1>3. QED
  BY <1>1, <1>2, TypeCorrect, PTL DEF Spec, OriginIsSettled
------------------------------------------------------------------------------
(* The inductive invariant of the single-flight map.                       *)
FlightInv ==
    /\ TrackedIsRunning
    /\ JoinedHasLeader
    /\ \A r \in Requests : pc[r] = "joined" => r \in SingleFlight /\ leader[r] \in SingleFlight

(* A step that leaves the map, the joined calls and the running ones alone *)
(* keeps it.                                                               *)
LEMMA FlightFrame ==
    ASSUME FlightInv, TypeOK, flight' = flight, leader' = leader,
           \A r \in Requests : pc[r] = "running" => pc'[r] = "running",
           \A r \in Requests : pc'[r] = "joined" => pc[r] = "joined"
    PROVE  FlightInv'
BY DEF FlightInv, TrackedIsRunning, JoinedHasLeader, TypeOK

LEMMA FlightStep == TypeOK /\ FlightInv /\ [Next]_vars => FlightInv'
<1> SUFFICES ASSUME TypeOK, FlightInv, [Next]_vars PROVE FlightInv'
  OBVIOUS
<1>1. ASSUME NEW r \in Requests,
             Arrive(r) \/ StartRead(r) \/ ReadFail(r) \/ Unknown(r) \/ Call(r)
               \/ Commit(r) \/ PersistFail(r)
               \/ \E c \in Bridged : ReadCollection(r, c)
      PROVE  FlightInv'
  BY <1>1, FlightFrame DEF Arrive, StartRead, ReadFail, Unknown, Call, Refreshed, Commit,
     PersistFail, ReadCollection, TypeOK
<1>2. CASE ReadyStep \/ TimerSave \/ UNCHANGED vars
  BY <1>2, FlightFrame DEF ReadyStep, ReadyHydrate, ReadyIsEmpty, ReadySeed, ReadyFail,
     TimerSave, vars, TypeOK
<1>3. ASSUME NEW r \in Requests, Lead(r) PROVE FlightInv'
  <2>1. PICK f \in Evictions : f[KeyOf[r]] = None /\ flight' = [f EXCEPT ![KeyOf[r]] = r]
    BY <1>3 DEF Lead
  <2>2. KeyOf[r] \in Keys /\ r \in SingleFlight /\ pc[r] = "reading" /\ r # None
    BY <1>3, DomainRpcAssumption DEF Lead, Refreshed
  <2>3. f \in [Keys -> Requests \cup {None}] /\ \A k \in Keys : f[k] = None \/ f[k] = flight[k]
    BY EvictionsKeepEntries DEF TypeOK
  <2>4. pc' = [pc EXCEPT ![r] = "running"] /\ leader' = leader
    BY <1>3 DEF Lead
  <2>5. \A k \in Keys : flight'[k] # None =>
          \/ k = KeyOf[r] /\ flight'[k] = r
          \/ flight'[k] = flight[k]
    BY <2>1, <2>2, <2>3
  <2>6. TrackedIsRunning'
    BY <2>2, <2>4, <2>5 DEF FlightInv, TrackedIsRunning, TypeOK
  <2>7. QED
    BY <2>2, <2>4, <2>6 DEF FlightInv, JoinedHasLeader, TypeOK
<1>4. ASSUME NEW r \in Requests, Join(r) PROVE FlightInv'
  <2>1. PICK f \in Evictions : /\ f[KeyOf[r]] # None
                               /\ flight' = f
                               /\ leader' = [leader EXCEPT ![r] = f[KeyOf[r]]]
    BY <1>4 DEF Join
  <2>2. KeyOf[r] \in Keys /\ r \in SingleFlight /\ pc[r] = "reading"
    BY <1>4, DomainRpcAssumption DEF Join, Refreshed
  <2>3. f \in [Keys -> Requests \cup {None}] /\ \A k \in Keys : f[k] = None \/ f[k] = flight[k]
    BY EvictionsKeepEntries DEF TypeOK
  <2>4. pc' = [pc EXCEPT ![r] = "joined"]
    BY <1>4 DEF Join
  <2>5. /\ flight[KeyOf[r]] # None
        /\ leader'[r] = flight[KeyOf[r]]
        /\ leader'[r] \in Requests
    BY <2>1, <2>2, <2>3 DEF TypeOK
  <2>6. pc[leader'[r]] = "running" /\ KeyOf[leader'[r]] = KeyOf[r] /\ leader'[r] \in SingleFlight
    BY <2>2, <2>5 DEF FlightInv, TrackedIsRunning
  <2>7. TrackedIsRunning'
    BY <2>1, <2>2, <2>3, <2>4 DEF FlightInv, TrackedIsRunning, TypeOK
  <2>8. JoinedHasLeader'
    BY <2>1, <2>2, <2>4, <2>5, <2>6, DomainRpcAssumption DEF FlightInv, JoinedHasLeader, TypeOK
  <2>9. QED
    BY <2>1, <2>2, <2>4, <2>6, <2>7, <2>8 DEF FlightInv, TypeOK
<1>5. ASSUME NEW r \in Requests,
             pc[r] = "running",
             \A j \in Requests : /\ j \in Party(r) => pc'[j] \notin {"running", "joined"}
                                 /\ j \notin Party(r) => pc'[j] = pc[j] /\ leader'[j] = leader[j],
             \A k \in Keys : flight'[k] # None => flight'[k] = flight[k] /\ flight[k] # r
      PROVE  FlightInv'
  <2>1. \A j \in Requests : pc[j] = "running" /\ j # r => j \notin Party(r)
    BY DEF Party
  <2>2. \A j \in Requests : pc'[j] = "joined" =>
          pc[j] = "joined" /\ leader'[j] = leader[j] /\ leader[j] # r
    BY <1>5 DEF Party
  <2>3. TrackedIsRunning'
    BY <1>5, <2>1 DEF FlightInv, TrackedIsRunning, TypeOK
  <2>4. JoinedHasLeader'
    BY <1>5, <2>1, <2>2 DEF FlightInv, JoinedHasLeader, TypeOK
  <2>5. QED
    BY <2>2, <2>3, <2>4 DEF FlightInv
<1>6. ASSUME NEW r \in Requests, Finish(r) PROVE FlightInv'
  <2>1. \A k \in Keys : flight'[k] # None => flight'[k] = flight[k] /\ flight[k] # r
    BY <1>6 DEF Finish, Forget
  <2>2. QED
    BY <1>5, <1>6, <2>1 DEF Finish, LeaveFlight, TypeOK
<1>7. ASSUME NEW r \in Requests, Throw(r) PROVE FlightInv'
  BY <1>5, <1>7 DEF Throw, LeaveFlight, Forget, TypeOK
<1>8. CASE Crash
  <2>1. \A r \in Requests : pc'[r] # "joined"
    BY <1>8 DEF Crash, Active, TypeOK
  <2>2. \A k \in Keys : flight'[k] = None
    BY <1>8 DEF Crash
  <2>3. QED
    BY <2>1, <2>2 DEF FlightInv, TrackedIsRunning, JoinedHasLeader
<1>9. QED
  BY <1>1, <1>2, <1>3, <1>4, <1>6, <1>7, <1>8 DEF Next, Step

(* The single-flight map only ever holds executions that still run, and    *)
(* every joined call waits on one of them, whatever clear(), eviction and  *)
(* restarts do in between.                                                 *)
THEOREM FlightsAreLive == Spec => [](TrackedIsRunning /\ JoinedHasLeader)
<1>1. Init => FlightInv
  BY DEF Init, FlightInv, TrackedIsRunning, JoinedHasLeader
<1>2. FlightInv => TrackedIsRunning /\ JoinedHasLeader
  BY DEF FlightInv
<1>3. QED
  BY <1>1, <1>2, FlightStep, TypeCorrect, PTL DEF Spec

(* No entry of inFlightQueries outlives the call whose promise it is.       *)
THEOREM TrackedHolds == Spec => []TrackedIsRunning
  BY FlightsAreLive, PTL

(* No call waits on a promise that nobody will settle.                      *)
THEOREM JoinedHolds == Spec => []JoinedHasLeader
  BY FlightsAreLive, PTL

(* The snapshot a command persists holds the command's own effect: no      *)
(* refresh comes between its method and its snapshot.                      *)
THEOREM OwnEffectPersisted == Spec => []SnapshotHoldsOwnEffect
<1>1. Init => FlightInv /\ SnapshotHoldsOwnEffect
  BY DEF Init, FlightInv, TrackedIsRunning, JoinedHasLeader, SnapshotHoldsOwnEffect
<1>2. TypeOK /\ FlightInv /\ SnapshotHoldsOwnEffect /\ [Next]_vars => SnapshotHoldsOwnEffect'
  <2> SUFFICES ASSUME TypeOK, FlightInv, SnapshotHoldsOwnEffect, [Next]_vars
               PROVE  SnapshotHoldsOwnEffect'
    OBVIOUS
  <2>1. ASSUME NEW r \in Requests, Finish(r) PROVE SnapshotHoldsOwnEffect'
    <3> SUFFICES ASSUME NEW j \in Requests, pc'[j] = "persisting", j \notin SingleFlight,
                        NEW c \in Bridged \cap Writes[j]
                 PROVE  j \in snapshot'[j][c]
      BY DEF SnapshotHoldsOwnEffect
    <3>1. CASE j \in Party(r) \ Queries
      <4>1. j = r
        BY <3>1 DEF Party, FlightInv
      <4>2. snapshot'[j] = WithEffect(mem, r)
        BY <2>1, <3>1 DEF Finish, TakeSnapshot
      <4>3. QED
        BY <4>1, <4>2 DEF WithEffect, TypeOK, MemState
    <3>2. CASE j \notin Party(r) \ Queries
      <4>1. pc[j] = "persisting"
        BY <2>1, <3>2 DEF Finish, TypeOK
      <4>2. snapshot[j][c] \subseteq snapshot'[j][c]
        BY <2>1, <3>2 DEF Finish, TakeSnapshot, WithLeak
      <4>3. QED
        BY <4>1, <4>2 DEF SnapshotHoldsOwnEffect
    <3>3. QED
      BY <3>1, <3>2
  <2>2. ASSUME \A j \in Requests : pc'[j] = "persisting" =>
                 pc[j] = "persisting" /\ snapshot'[j] = snapshot[j]
        PROVE  SnapshotHoldsOwnEffect'
    BY <2>2 DEF SnapshotHoldsOwnEffect
  <2>3. ASSUME NEW r \in Requests, Commit(r) \/ PersistFail(r) PROVE SnapshotHoldsOwnEffect'
    BY <2>2, <2>3 DEF Commit, PersistFail, TypeOK
  <2>4. ASSUME NEW r \in Requests,
               Arrive(r) \/ StartRead(r) \/ ReadFail(r) \/ Unknown(r) \/ Call(r) \/ Lead(r)
                 \/ Join(r) \/ Throw(r) \/ \E c \in Bridged : ReadCollection(r, c)
        PROVE  SnapshotHoldsOwnEffect'
    BY <2>2, <2>4 DEF Arrive, StartRead, ReadFail, Unknown, Call, Lead, Join, Throw, Refreshed,
       ReadCollection, TypeOK
  <2>5. CASE ReadyStep \/ TimerSave \/ UNCHANGED vars
    BY <2>2, <2>5 DEF ReadyStep, ReadyHydrate, ReadyIsEmpty, ReadySeed, ReadyFail, TimerSave,
       vars, TypeOK
  <2>6. CASE Crash
    BY <2>2, <2>6 DEF Crash, Active, TypeOK
  <2>7. QED
    BY <2>1, <2>3, <2>4, <2>5, <2>6 DEF Next, Step
<1>3. QED
  BY <1>1, <1>2, FlightStep, TypeCorrect, PTL DEF Spec
------------------------------------------------------------------------------
(* The inductive invariant behind AnsweredIsOnDisk: a method only runs once *)
(* the state file has been looked for, from then on the process's          *)
(* collections hold all that the file holds, and every call that is        *)
(* persisting or answered has its effect in the file.                      *)
OnDisk(r) ==
    \A c \in Transitional \cap Writes[r] : file # None /\ r \in file.local[c]

DiskInv ==
    /\ \A r \in Requests : pc[r] = "running" => hydrated
    /\ hydrated /\ file # None => \A c \in Transitional : file.local[c] \subseteq local[c]
    /\ \A r \in Requests \ SingleFlight : pc[r] \in {"persisting", "ok"} => OnDisk(r)

(* A step that leaves the file, the loaded collections and their loading   *)
(* alone, starts no method and answers no call that did not persist.       *)
LEMMA DiskFrame ==
    ASSUME DiskInv, UNCHANGED <<file, hydrated, local>>,
           \A r \in Requests : pc'[r] = "running" => pc[r] = "running",
           \A r \in Requests \ SingleFlight :
               pc'[r] \in {"persisting", "ok"} => pc[r] \in {"persisting", "ok"}
    PROVE  DiskInv'
BY DEF DiskInv, OnDisk

(* The first method of a process takes the collections from the file.      *)
LEMMA DiskLoad ==
    ASSUME TypeOK, DiskInv, NEW r \in Requests, NEW rows, LoadState(rows),
           file' = file, pc' = [pc EXCEPT ![r] = "running"]
    PROVE  DiskInv'
<1>1. hydrated' = TRUE
  BY DEF LoadState
<1>2. file # None => \A c \in Transitional : file.local[c] \subseteq local'[c]
  BY DEF LoadState, DiskInv, TypeOK
<1>3. \A s \in Requests : pc'[s] \in {"persisting", "ok"} => pc[s] = pc'[s]
  BY DEF TypeOK
<1>4. QED
  BY <1>1, <1>2, <1>3 DEF DiskInv, OnDisk

(* What a save writes is a file.                                           *)
LEMMA WrittenFile ==
    ASSUME NEW s \in MemState, NEW t \in LocalState
    PROVE  [bridged |-> s, local |-> t] # None
BY NoFileAssumption

(* A method adds to the collections; a command then writes all of them.    *)
LEMMA DiskFinish ==
    ASSUME GlobalRequire, TypeOK, FlightInv, DiskInv, NEW r \in Requests, Finish(r)
    PROVE  DiskInv'
<1>1. hydrated /\ hydrated' = hydrated
  BY DEF Finish, DiskInv
<1>2. /\ local' = WithEffect(local, r)
      /\ \A c \in Transitional : local[c] \subseteq local'[c]
      /\ \A c \in Transitional \cap Writes[r] : r \in local'[c]
  BY DEF Finish, WithEffect, TypeOK, LocalState
<1>3. \A s \in Requests : pc'[s] = "running" => pc[s] = "running"
  BY DEF Finish, TypeOK
<1>4. \A s \in Requests \ SingleFlight :
          pc'[s] \in {"persisting", "ok"} => pc[s] \in {"persisting", "ok"} \/ s = r
  BY DEF Finish, Party, FlightInv, TypeOK
<1>5. CASE Party(r) \ Queries = {}
  <2>1. file' = file /\ r \in SingleFlight
    BY <1>5, DomainRpcAssumption DEF Finish, Party
  <2>2. QED
    BY <1>1, <1>2, <1>3, <1>4, <2>1 DEF DiskInv, OnDisk
<1>6. CASE Party(r) \ Queries # {}
  <2>1. file' = [bridged |-> WithEffect(mem, r), local |-> local']
    BY <1>2, <1>6 DEF Finish, SaveFile
  <2>2. file' # None
    BY <1>2, <2>1, WrittenFile, WithEffectType DEF TypeOK, MemState, LocalState
  <2>3. \A s \in Requests \ SingleFlight : pc'[s] \in {"persisting", "ok"} => OnDisk(s)'
    BY <1>1, <1>2, <1>4, <2>1, <2>2 DEF DiskInv, OnDisk
  <2>4. QED
    BY <1>1, <1>3, <2>1, <2>3 DEF DiskInv
<1>7. QED
  BY <1>5, <1>6

LEMMA DiskStep == GlobalRequire /\ TypeOK /\ FlightInv /\ DiskInv /\ [Next]_vars => DiskInv'
<1> SUFFICES ASSUME GlobalRequire, TypeOK, FlightInv, DiskInv, [Next]_vars PROVE DiskInv'
  OBVIOUS
<1>1. ASSUME NEW r \in Requests,
             Arrive(r) \/ StartRead(r) \/ ReadFail(r) \/ Join(r) \/ Unknown(r) \/ Commit(r)
               \/ PersistFail(r) \/ \E c \in Bridged : ReadCollection(r, c)
      PROVE  DiskInv'
  BY <1>1, DiskFrame DEF Arrive, StartRead, ReadFail, Join, Unknown, Commit, PersistFail,
     ReadCollection, TypeOK
<1>2. CASE ReadyStep \/ UNCHANGED vars
  BY <1>2, DiskFrame DEF ReadyStep, ReadyHydrate, ReadyIsEmpty, ReadySeed, ReadyFail, vars, TypeOK
<1>3. ASSUME NEW r \in Requests, Call(r) \/ Lead(r) PROVE DiskInv'
  BY <1>3, DiskLoad DEF Call, Lead
<1>4. ASSUME NEW r \in Requests, Finish(r) PROVE DiskInv'
  BY <1>4, DiskFinish
<1>5. ASSUME NEW r \in Requests, Throw(r) PROVE DiskInv'
  BY <1>5, DiskFrame DEF Throw, TypeOK
<1>6. CASE TimerSave
  <2>1. file' = [bridged |-> mem, local |-> local] /\ UNCHANGED <<hydrated, local, pc>> /\ hydrated
    BY <1>6 DEF TimerSave, SaveFile
  <2>2. file' # None
    BY <2>1, WrittenFile DEF TypeOK
  <2>3. \A r \in Requests : \A c \in Transitional \cap Writes[r] :
            file # None /\ r \in file.local[c] => r \in file'.local[c]
    BY <2>1 DEF DiskInv
  <2>4. QED
    BY <2>1, <2>2, <2>3 DEF DiskInv, OnDisk
<1>7. CASE Crash
  <2>1. \A r \in Requests : pc'[r] # "running" /\ (pc'[r] \in {"persisting", "ok"} => pc[r] = "ok")
    BY <1>7 DEF Crash, Active, TypeOK
  <2>2. QED
    BY <1>7, <2>1 DEF Crash, DiskInv, OnDisk
<1>8. QED
  BY <1>1, <1>2, <1>3, <1>4, <1>5, <1>6, <1>7 DEF Next, Step

(* Where the module does find `require`, every answered command has its    *)
(* effect on the transitional collections in the state file and keeps it   *)
(* there, whatever overlaps, fails or restarts: writeStateToNodeFile's     *)
(* missing `require` is all that breaks AnsweredIsOnDisk.                  *)
THEOREM OnDiskHolds == GlobalRequire /\ Spec => []AnsweredIsOnDisk
<1>1. Init => FlightInv /\ DiskInv
  BY DEF Init, FlightInv, TrackedIsRunning, JoinedHasLeader, DiskInv, OnDisk
<1>2. FlightInv /\ DiskInv => AnsweredIsOnDisk
  BY DEF DiskInv, OnDisk, AnsweredIsOnDisk
<1>3. SUFFICES ASSUME GlobalRequire PROVE Spec => []AnsweredIsOnDisk
  OBVIOUS
<1>4. TypeOK /\ FlightInv /\ DiskInv /\ [Next]_vars => DiskInv'
  BY <1>3, DiskStep
<1>5. QED
  BY <1>1, <1>2, <1>4, FlightStep, TypeCorrect, PTL DEF Spec
==============================================================================
