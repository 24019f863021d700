--------------------------- MODULE Browser_proofs ---------------------------
(***************************************************************************)
(* Theorems about the browser's side: the RPC client, for any number of    *)
(* calls and contexts, and the contexts of the signed-in user, for any     *)
(* assignments and any number of calls of the store under way.             *)
(***************************************************************************)
EXTENDS RpcClient, ContextStore, TLAPS

\* Ending a flight keeps the calls typed.
LEMMA EndedTyped ==
  ASSUME ClientTypeOK, NEW f \in fetches, NEW phase \in {"done", "failed", "fallback"},
         NEW result \in SUBSET Result
  PROVE  Ended(f, phase, result) \in [Clients -> CallRecord]
<1>1. SUFFICES ASSUME NEW c \in Clients
              PROVE  [asked[c] EXCEPT !.phase = phase, !.answer = result] \in CallRecord
  BY DEF Ended, ClientTypeOK
<1>2. asked[c] \in CallRecord
  BY DEF ClientTypeOK
<1> QED
  BY <1>2 DEF CallRecord

\* The key of a read is at most one fingerprint, of the active context.
LEMMA KeyTyped ==
  ASSUME ClientTypeOK, NEW must \in BOOLEAN, NEW keyed \in BOOLEAN
  PROVE  /\ ReadKey(must, keyed) \in SUBSET Fingerprint
         /\ \A k \in ReadKey(must, keyed) : k.of = context
BY DEF ReadKey, Fingerprint, ClientTypeOK

\* A step begins a call, goes on with a flight, or is one of the others.
LEMMA ClientCases ==
  ASSUME ClientNext
  PROVE  \/ \E c \in Clients, op \in OpKind, must \in BOOLEAN, keyed \in BOOLEAN :
              BeginLocal(c, op) \/ BeginCached(c, must) \/ BeginRemote(c, op, must, keyed)
         \/ \E f \in fetches : Serve(f) \/ Deliver(f) \/ Refuse(f) \/ LoseFetch(f)
         \/ \E c \in Clients, phase \in {"done", "failed"} : EndLocal(c, phase)
         \/ CooldownEnds \/ (\E c \in Clients : ServeLate(c))
         \/ \E e \in cached : ExpireRead(e)
         \/ \E x \in Contexts : SwitchContext(x)
<1>1. "read" \in OpKind /\ TRUE \in BOOLEAN
  BY DEF OpKind
<1> QED
  BY <1>1, Zenon DEF ClientNext

(***************************************************************************)
(* Type correctness.                                                       *)
(***************************************************************************)
LEMMA ClientInitTyped == ClientInit => ClientTypeOK
<1>1. NewCall \in CallRecord
  BY DEF NewCall, CallRecord, OpKind
<1> QED
  BY <1>1 DEF ClientInit, ClientTypeOK

LEMMA BeginsTyped ==
  ASSUME ClientTypeOK, NEW c \in Clients, NEW op \in OpKind, NEW must \in BOOLEAN,
         NEW keyed \in BOOLEAN,
         BeginLocal(c, op) \/ BeginCached(c, must) \/ BeginRemote(c, op, must, keyed)
  PROVE  ClientTypeOK'
<1>1. CASE BeginLocal(c, op)
  <2>1. Began(c, op, "local") \in CallRecord
    BY DEF ClientTypeOK, Began, NewCall, CallRecord
  <2> QED
    BY <1>1, <2>1 DEF BeginLocal, ClientTypeOK
<1>2. CASE BeginCached(c, must)
  <2>1. PICK e \in Hits(ReadKey(must, TRUE)) :
          asked' = [asked EXCEPT ![c] = [Began(c, "read", "done") EXCEPT !.answer = {e.result}]]
    BY <1>2 DEF BeginCached
  <2>2. e.result \in Result
    BY <2>1 DEF Hits, ClientTypeOK
  <2>3. Began(c, "read", "done") \in CallRecord
    BY DEF ClientTypeOK, Began, NewCall, CallRecord, OpKind
  <2>4. [Began(c, "read", "done") EXCEPT !.answer = {e.result}] \in CallRecord
    BY <2>2, <2>3 DEF CallRecord
  <2> QED
    BY <1>2, <2>1, <2>4 DEF BeginCached, ClientTypeOK
<1>3. CASE BeginRemote(c, op, must, keyed)
  <2> DEFINE key == ReadKey(must, keyed /\ op = "read")
             flight == [key |-> key, op |-> op, must |-> must, of |-> context,
                        callers |-> {c}, result |-> {}]
  <2>1. key \in SUBSET Fingerprint
    BY KeyTyped
  <2>2. flight \in Fetch
    BY <2>1 DEF Fetch, ClientTypeOK
  <2>3. \A f \in fetches : [f EXCEPT !.callers = @ \cup {c}] \in Fetch
    BY DEF Fetch, ClientTypeOK
  <2>4. fetches' \subseteq Fetch
    BY <1>3, <2>2, <2>3 DEF BeginRemote, ClientTypeOK
  <2>5. Began(c, op, "waiting") \in CallRecord
    BY DEF ClientTypeOK, Began, NewCall, CallRecord
  <2>6. cached' \subseteq [key : Fingerprint, result : Result]
    BY <1>3 DEF BeginRemote, Sent, ClientTypeOK
  <2> QED
    BY <1>3, <2>4, <2>5, <2>6 DEF BeginRemote, ClientTypeOK
<1> QED
  BY <1>1, <1>2, <1>3

LEMMA FetchesTyped ==
  ASSUME ClientTypeOK, NEW f \in fetches,
         Serve(f) \/ Deliver(f) \/ Refuse(f) \/ LoseFetch(f)
  PROVE  ClientTypeOK'
<1>0. f \in Fetch
  BY DEF ClientTypeOK
<1>1. CASE Serve(f)
  <2>1. remote' \subseteq Clients
    BY <1>0, <1>1 DEF Serve, Fetch, ClientTypeOK
  <2>2. [of |-> f.of, seen |-> remote'] \in Result
    BY <1>0, <2>1 DEF Fetch, Result
  <2>3. [f EXCEPT !.result = {[of |-> f.of, seen |-> remote']}] \in Fetch
    BY <1>0, <2>2 DEF Fetch
  <2>4. fetches' \subseteq Fetch
    BY <1>1, <2>3 DEF Serve, ClientTypeOK
  <2> QED
    BY <1>1, <2>1, <2>4 DEF Serve, ClientTypeOK
<1>2. CASE Deliver(f)
  <2>1. Ended(f, "done", f.result) \in [Clients -> CallRecord]
    BY <1>0, EndedTyped DEF Fetch
  <2>2. [key : f.key, result : f.result] \subseteq [key : Fingerprint, result : Result]
    BY <1>0 DEF Fetch
  <2>3. cached' \subseteq [key : Fingerprint, result : Result]
    BY <1>2, <2>2 DEF Deliver, Answered, ClientTypeOK
  <2> QED
    BY <1>2, <2>1, <2>3 DEF Deliver, ClientTypeOK
<1>3. CASE Refuse(f)
  <2>1. Ended(f, "failed", {}) \in [Clients -> CallRecord]
    BY EndedTyped
  <2> QED
    BY <1>3, <2>1 DEF Refuse, AfterFinally, ClientTypeOK
<1>4. CASE LoseFetch(f)
  <2> DEFINE surfaces == f.must \/ apiMode = "strict"
             phase == IF surfaces THEN "failed" ELSE "fallback"
  <2>1. Ended(f, phase, {}) \in [Clients -> CallRecord]
    BY EndedTyped
  <2>2. abandoned' \subseteq Clients
    BY <1>0, <1>4 DEF LoseFetch, Fetch, ClientTypeOK
  <2> QED
    BY <1>4, <2>1, <2>2 DEF LoseFetch, AfterFinally, ClientTypeOK
<1> QED
  BY <1>1, <1>2, <1>3, <1>4

LEMMA EndsTyped ==
  ASSUME ClientTypeOK,
         \/ \E c \in Clients, phase \in {"done", "failed"} : EndLocal(c, phase)
         \/ CooldownEnds \/ (\E c \in Clients : ServeLate(c))
         \/ \E e \in cached : ExpireRead(e)
         \/ \E x \in Contexts : SwitchContext(x)
  PROVE  ClientTypeOK'
<1>1. ASSUME NEW c \in Clients, NEW phase \in {"done", "failed"}, EndLocal(c, phase)
      PROVE  ClientTypeOK'
  <2>1. [asked[c] EXCEPT !.phase = phase] \in CallRecord
    BY DEF ClientTypeOK, CallRecord
  <2>2. asked' \in [Clients -> CallRecord]
    BY <1>1, <2>1 DEF EndLocal, ClientTypeOK
  <2>3. cached' \subseteq [key : Fingerprint, result : Result]
    BY <1>1 DEF EndLocal, ClientTypeOK
  <2> QED
    BY <1>1, <2>2, <2>3 DEF EndLocal, AfterFinally, ClientTypeOK
<1>2. CASE CooldownEnds \/ (\E c \in Clients : ServeLate(c))
  BY <1>2 DEF CooldownEnds, ServeLate, ClientTypeOK
<1>3. ASSUME NEW e \in cached, ExpireRead(e) PROVE ClientTypeOK'
  BY <1>3 DEF ExpireRead, ClientTypeOK
<1>4. ASSUME NEW x \in Contexts, SwitchContext(x) PROVE ClientTypeOK'
  BY <1>4 DEF SwitchContext, ClientTypeOK
<1> QED
  BY <1>1, <1>2, <1>3, <1>4

(* The state of the client keeps its types, for any number of calls and    *)
(* contexts.                                                               *)
THEOREM ClientTyped == ClientSpec => []ClientTypeOK
<1>1. ClientTypeOK /\ [ClientNext]_clientVars => ClientTypeOK'
  <2> SUFFICES ASSUME ClientTypeOK, [ClientNext]_clientVars PROVE ClientTypeOK'
    OBVIOUS
  <2>1. CASE UNCHANGED clientVars
    BY <2>1 DEF clientVars, ClientTypeOK
  <2>2. CASE ClientNext
    BY <2>2, ClientCases, BeginsTyped, FetchesTyped, EndsTyped
  <2> QED
    BY <2>1, <2>2
<1> QED
  BY <1>1, ClientInitTyped, PTL DEF ClientSpec

(***************************************************************************)
(* The half-open probe.                                                    *)
(***************************************************************************)
OnItsWay(c) == asked[c].phase \in {"waiting", "fallback"}

LEMMA ProbeKept ==
  ASSUME ClientTypeOK, ProbeHasCaller, [ClientNext]_clientVars
  PROVE  ProbeHasCaller'
<1> SUFFICES ASSUME probe' PROVE \E c \in Clients : OnItsWay(c)'
  BY DEF ProbeHasCaller, OnItsWay
<1>0. probe => \E c \in Clients : OnItsWay(c)
  BY DEF ProbeHasCaller, OnItsWay
<1>1. ASSUME NEW d \in Clients, NEW op \in OpKind, NEW must \in BOOLEAN, NEW keyed \in BOOLEAN,
             BeginLocal(d, op) \/ BeginCached(d, must) \/ BeginRemote(d, op, must, keyed)
      PROVE  \E c \in Clients : OnItsWay(c)'
  <2>1. CASE BeginLocal(d, op)
    <3>1. PICK c \in Clients : OnItsWay(c)
      BY <1>0, <2>1 DEF BeginLocal
    <3>2. c # d
      BY <2>1, <3>1 DEF BeginLocal, MayBegin, OnItsWay
    <3> QED
      BY <2>1, <3>1, <3>2 DEF BeginLocal, OnItsWay, ClientTypeOK
  <2>2. CASE BeginCached(d, must)
    BY <2>2 DEF BeginCached
  <2>3. CASE BeginRemote(d, op, must, keyed)
    BY <2>3 DEF BeginRemote, Began, NewCall, OnItsWay, ClientTypeOK
  <2> QED
    BY <1>1, <2>1, <2>2, <2>3
<1>2. ASSUME NEW f \in fetches, Serve(f) \/ Deliver(f) \/ Refuse(f) \/ LoseFetch(f)
      PROVE  \E c \in Clients : OnItsWay(c)'
  <2>1. CASE Serve(f)
    BY <1>0, <2>1 DEF Serve, OnItsWay
  <2>2. CASE Deliver(f) \/ Refuse(f)
    BY <2>2 DEF Deliver, Refuse, AfterFinally
  <2>3. CASE LoseFetch(f)
    \* A caller of the lost flight falls back, and the others wait on.
    <3>1. ~(f.must \/ apiMode = "strict") /\ probe
      BY <2>3 DEF LoseFetch, AfterFinally
    <3>2. PICK c \in Clients : OnItsWay(c)
      BY <1>0, <3>1
    <3>3. asked' = Ended(f, "fallback", {})
      BY <2>3, <3>1 DEF LoseFetch
    <3>4. asked'[c].phase \in {asked[c].phase, "fallback"}
      BY <3>3 DEF Ended, ClientTypeOK, CallRecord
    <3> QED
      BY <3>2, <3>4 DEF OnItsWay
  <2> QED
    BY <1>2, <2>1, <2>2, <2>3
<1>3. ASSUME NEW d \in Clients, NEW phase \in {"done", "failed"}, EndLocal(d, phase)
      PROVE  \E c \in Clients : OnItsWay(c)'
  <2>1. probe /\ asked[d].phase # "fallback"
    BY <1>3 DEF EndLocal, AfterFinally
  <2>2. PICK c \in Clients : OnItsWay(c)
    BY <1>0, <2>1
  <2>3. c # d
    BY <1>3, <2>1, <2>2 DEF EndLocal, OnItsWay
  <2> QED
    BY <1>3, <2>2, <2>3 DEF EndLocal, OnItsWay, ClientTypeOK
<1>4. CASE CooldownEnds \/ (\E c \in Clients : ServeLate(c)) \/ (\E e \in cached : ExpireRead(e))
            \/ (\E x \in Contexts : SwitchContext(x)) \/ UNCHANGED clientVars
  BY <1>0, <1>4 DEF CooldownEnds, ServeLate, ExpireRead, SwitchContext, clientVars, OnItsWay
<1> QED
  BY <1>1, <1>2, <1>3, <1>4, ClientCases

(* A probe in flight always has a call that will end it: no sequence of    *)
(* losses, refusals and fallbacks leaves recoveryProbe set for good.       *)
THEOREM ProbeHolds == ClientSpec => []ProbeHasCaller
<1>1. ClientInit => ProbeHasCaller
  BY DEF ClientInit, ProbeHasCaller
<1>2. ClientTypeOK /\ ProbeHasCaller /\ [ClientNext]_clientVars => ProbeHasCaller'
  BY ProbeKept
<1> QED
  BY <1>1, <1>2, ClientTyped, PTL DEF ClientSpec

(***************************************************************************)
(* The context of an answer.  What is cached or in flight under a key is   *)
(* of the context in the key, and every caller of a flight is of its       *)
(* context.                                                                *)
(***************************************************************************)
OfOneContext ==
    /\ \A e \in cached : e.result.of = e.key.of
    /\ \A f \in fetches :
         /\ \A k \in f.key : k.of = f.of
         /\ \A r \in f.result : r.of = f.of
         /\ \A c \in f.callers : asked[c].of = {f.of} /\ asked[c].phase # "new"

AnswerInv == OfOneContext /\ AnswerIsOfContext

\* A call that begins is called by no flight yet.
LEMMA AnswerBegins ==
  ASSUME ClientTypeOK, AnswerInv, NEW d \in Clients, NEW op \in OpKind, NEW must \in BOOLEAN,
         NEW keyed \in BOOLEAN,
         BeginLocal(d, op) \/ BeginCached(d, must) \/ BeginRemote(d, op, must, keyed)
  PROVE  AnswerInv'
<1>0. /\ \A f \in fetches : d \notin f.callers
      /\ \A f \in fetches : f.callers \subseteq Clients
      /\ asked[d].phase = "new"
  BY DEF AnswerInv, OfOneContext, BeginLocal, BeginCached, BeginRemote, MayBegin, ClientTypeOK, Fetch
<1>1. CASE BeginLocal(d, op)
  <2>1. Began(d, op, "local").answer = {}
    BY DEF Began, NewCall
  <2>2. \A c \in Clients : c # d => asked'[c] = asked[c]
    BY <1>1 DEF BeginLocal, ClientTypeOK
  <2>3. asked'[d].answer = {}
    BY <1>1, <2>1 DEF BeginLocal, ClientTypeOK
  <2>4. AnswerIsOfContext'
    BY <2>2, <2>3 DEF AnswerInv, AnswerIsOfContext
  <2>5. OfOneContext'
    BY <1>0, <1>1, <2>2 DEF AnswerInv, OfOneContext, BeginLocal
  <2> QED
    BY <2>4, <2>5 DEF AnswerInv
<1>2. CASE BeginCached(d, must)
  <2>1. PICK e \in Hits(ReadKey(must, TRUE)) :
          asked' = [asked EXCEPT ![d] = [Began(d, "read", "done") EXCEPT !.answer = {e.result}]]
    BY <1>2 DEF BeginCached
  <2>2. e.result.of = context
    BY <2>1, KeyTyped DEF Hits, AnswerInv, OfOneContext
  <2>3. \A c \in Clients : c # d => asked'[c] = asked[c]
    BY <2>1 DEF ClientTypeOK
  <2>4. asked'[d].answer = {e.result} /\ asked'[d].of = {context}
    BY <2>1 DEF ClientTypeOK, Began, NewCall
  <2>5. AnswerIsOfContext'
    BY <2>2, <2>3, <2>4 DEF AnswerInv, AnswerIsOfContext
  <2>6. OfOneContext'
    BY <1>0, <1>2, <2>3 DEF AnswerInv, OfOneContext, BeginCached
  <2> QED
    BY <2>5, <2>6 DEF AnswerInv
<1>3. CASE BeginRemote(d, op, must, keyed)
  <2> DEFINE key == ReadKey(must, keyed /\ op = "read")
             flight == [key |-> key, op |-> op, must |-> must, of |-> context,
                        callers |-> {d}, result |-> {}]
  <2>1. \A k \in key : k.of = context
    BY KeyTyped
  <2>2. asked'[d].of = {context} /\ asked'[d].answer = {} /\ asked'[d].phase = "waiting"
    BY <1>3 DEF BeginRemote, Began, NewCall, ClientTypeOK
  <2>3. \A c \in Clients : c # d => asked'[c] = asked[c]
    BY <1>3 DEF BeginRemote, ClientTypeOK
  <2>4. AnswerIsOfContext'
    BY <2>2, <2>3 DEF AnswerInv, AnswerIsOfContext
  <2>5. \A e \in cached' : e.result.of = e.key.of
    BY <1>3 DEF BeginRemote, Sent, AnswerInv, OfOneContext
  <2>6. ASSUME NEW g \in fetches'
        PROVE  /\ \A k \in g.key : k.of = g.of
               /\ \A r \in g.result : r.of = g.of
               /\ \A c \in g.callers : asked'[c].of = {g.of} /\ asked'[c].phase # "new"
    <3>1. CASE g \in fetches
      BY <1>0, <2>3, <3>1 DEF AnswerInv, OfOneContext
    <3>2. CASE g = flight
      BY <2>1, <2>2, <3>2
    <3>3. CASE \E f \in Tracked(key) : g = [f EXCEPT !.callers = @ \cup {d}]
      \* A shared flight has the key of the call that joins it, hence its context.
      <4>1. PICK f \in Tracked(key) : g = [f EXCEPT !.callers = @ \cup {d}]
        BY <3>3
      <4>2. f \in fetches /\ f \in Fetch /\ f.key = key /\ key # {}
        BY <4>1 DEF Tracked, ClientTypeOK
      <4>3. f.of = context
        BY <2>1, <4>2 DEF AnswerInv, OfOneContext
      <4>4. /\ g.key = f.key /\ g.result = f.result /\ g.of = f.of
            /\ g.callers = f.callers \cup {d}
        BY <4>1, <4>2 DEF Fetch
      <4> QED
        BY <1>0, <2>2, <2>3, <4>2, <4>3, <4>4 DEF AnswerInv, OfOneContext
    <3> QED
      BY <1>3, <3>1, <3>2, <3>3 DEF BeginRemote
  <2> QED
    BY <2>4, <2>5, <2>6 DEF AnswerInv, OfOneContext
<1> QED
  BY <1>1, <1>2, <1>3

\* Ending a flight leaves the calls with their context; its callers get its answer.
LEMMA EndedCalls ==
  ASSUME ClientTypeOK, AnswerInv, NEW f \in fetches,
         NEW phase \in {"done", "failed", "fallback"}, NEW result \in SUBSET f.result,
         asked' = Ended(f, phase, result)
  PROVE  /\ AnswerIsOfContext'
         /\ \A g \in fetches : \A c \in g.callers : asked'[c].of = {g.of} /\ asked'[c].phase # "new"
<1>1. \A g \in fetches : g \in Fetch
  BY DEF ClientTypeOK
<1>2. \A c \in Clients : asked[c] \in CallRecord
  BY DEF ClientTypeOK
<1>3. \A c \in Clients :
        /\ asked'[c].of = asked[c].of
        /\ asked'[c].phase \in {asked[c].phase, phase}
        /\ asked'[c].answer = asked[c].answer \/ (c \in f.callers /\ asked'[c].answer = result)
  BY <1>2 DEF Ended, CallRecord
<1>4. AnswerIsOfContext'
  BY <1>1, <1>3 DEF AnswerInv, OfOneContext, AnswerIsOfContext
<1>5. \A g \in fetches : \A c \in g.callers : asked'[c].of = {g.of} /\ asked'[c].phase # "new"
  BY <1>1, <1>3 DEF AnswerInv, OfOneContext, Fetch
<1> QED
  BY <1>4, <1>5

LEMMA AnswerFetches ==
  ASSUME ClientTypeOK, AnswerInv, NEW f \in fetches,
         Serve(f) \/ Deliver(f) \/ Refuse(f) \/ LoseFetch(f)
  PROVE  AnswerInv'
<1>0. f \in Fetch
  BY DEF ClientTypeOK
<1>1. CASE Serve(f)
  <2> DEFINE served == [f EXCEPT !.result = {[of |-> f.of, seen |-> remote']}]
  <2>1. /\ served.key = f.key /\ served.of = f.of /\ served.callers = f.callers
        /\ \A r \in served.result : r.of = f.of
    BY <1>0 DEF Fetch
  <2>2. fetches' = (fetches \ {f}) \cup {served} /\ asked' = asked /\ cached' = cached
    BY <1>1 DEF Serve
  <2> HIDE DEF served
  <2> QED
    BY <2>1, <2>2 DEF AnswerInv, OfOneContext, AnswerIsOfContext
<1>2. CASE Deliver(f)
  <2>1. asked' = Ended(f, "done", f.result) /\ fetches' \subseteq fetches /\ cached' = Answered(f)
    BY <1>2 DEF Deliver
  <2>2. \A e \in [key : f.key, result : f.result] : e.result.of = e.key.of
    BY DEF AnswerInv, OfOneContext
  <2>3. \A e \in cached' : e.result.of = e.key.of
    BY <2>1, <2>2 DEF Answered, AnswerInv, OfOneContext
  <2> QED
    BY <2>1, <2>3, EndedCalls DEF AnswerInv, OfOneContext
<1>3. CASE Refuse(f)
  <2>1. asked' = Ended(f, "failed", {}) /\ fetches' \subseteq fetches /\ cached' = cached
    BY <1>3 DEF Refuse
  <2> QED
    BY <2>1, EndedCalls DEF AnswerInv, OfOneContext
<1>4. CASE LoseFetch(f)
  <2> DEFINE phase == IF f.must \/ apiMode = "strict" THEN "failed" ELSE "fallback"
  <2>1. asked' = Ended(f, phase, {}) /\ fetches' \subseteq fetches /\ cached' = cached
    BY <1>4 DEF LoseFetch
  <2>2. phase \in {"done", "failed", "fallback"}
    OBVIOUS
  <2> HIDE DEF phase
  <2> QED
    BY <2>1, <2>2, EndedCalls DEF AnswerInv, OfOneContext
<1> QED
  BY <1>1, <1>2, <1>3, <1>4

LEMMA AnswerKept ==
  ASSUME ClientTypeOK, AnswerInv, [ClientNext]_clientVars
  PROVE  AnswerInv'
<1>1. ASSUME NEW d \in Clients, NEW phase \in {"done", "failed"}, EndLocal(d, phase)
      PROVE  AnswerInv'
  <2>1. \A c \in Clients : asked'[c].of = asked[c].of /\ asked'[c].answer = asked[c].answer
                           /\ asked'[c].phase \in {asked[c].phase, phase}
    BY <1>1 DEF EndLocal, ClientTypeOK, CallRecord
  <2>2. cached' \subseteq cached /\ fetches' = fetches
    BY <1>1 DEF EndLocal
  <2>3. \A f \in fetches : f.callers \subseteq Clients
    BY DEF ClientTypeOK, Fetch
  <2> QED
    BY <2>1, <2>2, <2>3 DEF AnswerInv, OfOneContext, AnswerIsOfContext
<1>2. CASE CooldownEnds \/ (\E c \in Clients : ServeLate(c)) \/ (\E e \in cached : ExpireRead(e))
            \/ (\E x \in Contexts : SwitchContext(x)) \/ UNCHANGED clientVars
  <2>1. cached' \subseteq cached /\ fetches' = fetches /\ asked' = asked
    BY <1>2 DEF CooldownEnds, ServeLate, ExpireRead, SwitchContext, clientVars
  <2> QED
    BY <2>1 DEF AnswerInv, OfOneContext, AnswerIsOfContext
<1> QED
  BY <1>1, <1>2, AnswerBegins, AnswerFetches, ClientCases

(* However calls share flights and the cache while the user switches, no   *)
(* call gets what the backend computed for another context.                *)
THEOREM AnswersHold == ClientSpec => []AnswerIsOfContext
<1>1. ClientInit => AnswerInv
  BY DEF ClientInit, AnswerInv, OfOneContext, AnswerIsOfContext, NewCall
<1>2. ClientTypeOK /\ AnswerInv /\ [ClientNext]_clientVars => AnswerInv'
  BY AnswerKept
<1>3. AnswerInv => AnswerIsOfContext
  BY DEF AnswerInv
<1> QED
  BY <1>1, <1>2, <1>3, ClientTyped, PTL DEF ClientSpec

(***************************************************************************)
(* The read cache of an orderly session.  Every flight has callers that    *)
(* wait for it and for no other; a mutation flies alone, over an empty     *)
(* cache; what a read was given has seen all that was executed before the  *)
(* page gave it up.                                                        *)
(***************************************************************************)
Known == remote \ abandoned

FlightsApart ==
    /\ \A f \in fetches : f.callers # {}
    /\ \A f \in fetches : \A c \in f.callers :
          c \in Clients /\ asked[c].phase = "waiting" /\ asked[c].op = f.op
    /\ \A f, g \in fetches : f.callers \cap g.callers # {} => f = g
    /\ \A f, g \in fetches : f.key = g.key /\ f.key # {} => f = g
    /\ \A f \in fetches : f.op = "write" => f.key = {}

FlightsCurrent ==
    /\ \A e \in cached : Known \subseteq e.result.seen
    /\ \A f \in fetches : \A r \in f.result : f.op = "read" => Known \subseteq r.seen
    /\ (\E f \in fetches : f.op = "write") =>
          cached = {} /\ \A g \in fetches : g.op = "write"

CacheInv == orderly => FlightsApart /\ FlightsCurrent

\* A call that begins waits for nothing yet.
LEMMA NewCallWaitsForNothing ==
  ASSUME FlightsApart, NEW d \in Clients, asked[d].phase = "new"
  PROVE  \A f \in fetches : d \notin f.callers
BY DEF FlightsApart

\* Calls that wait for a flight stay so when another call changes.
LEMMA ApartKept ==
  ASSUME FlightsApart, fetches' \subseteq fetches,
         \A f \in fetches' : \A c \in f.callers : asked'[c] = asked[c]
  PROVE  FlightsApart'
BY DEF FlightsApart

LEMMA CacheBegins ==
  ASSUME ClientTypeOK, orderly, FlightsApart, FlightsCurrent,
         NEW d \in Clients, NEW op \in OpKind, NEW must \in BOOLEAN, NEW keyed \in BOOLEAN,
         BeginLocal(d, op) \/ BeginCached(d, must) \/ BeginRemote(d, op, must, keyed)
  PROVE  FlightsApart' /\ FlightsCurrent'
<1>0. asked[d].phase = "new" /\ \A f \in fetches : d \notin f.callers
  BY NewCallWaitsForNothing DEF BeginLocal, BeginCached, BeginRemote, MayBegin
<1>1. CASE BeginLocal(d, op) \/ BeginCached(d, must)
  <2>1. cached' = cached /\ fetches' = fetches /\ Known' = Known
    BY <1>1 DEF BeginLocal, BeginCached, Known
  <2>2. \A c \in Clients : c # d => asked'[c] = asked[c]
    BY <1>1 DEF BeginLocal, BeginCached, ClientTypeOK
  <2>3. FlightsApart'
    BY <1>0, <2>1, <2>2, ApartKept DEF FlightsApart
  <2> QED
    BY <2>1, <2>3 DEF FlightsCurrent
<1>2. CASE BeginRemote(d, op, must, keyed)
  <2> DEFINE key == ReadKey(must, keyed /\ op = "read")
             flight == [key |-> key, op |-> op, must |-> must, of |-> context,
                        callers |-> {d}, result |-> {}]
             joined(f) == [f EXCEPT !.callers = @ \cup {d}]
  <2>0. \A f \in fetches : f \in Fetch
    BY DEF ClientTypeOK
  <2>1. /\ asked'[d].phase = "waiting" /\ asked'[d].op = op
        /\ \A c \in Clients : c # d => asked'[c] = asked[c]
    BY <1>2 DEF BeginRemote, Began, NewCall, ClientTypeOK
  <2>2. Known' = Known /\ cached' = Sent(key)
    BY <1>2 DEF BeginRemote, Known
  <2>3. op = "write" => key = {}
    BY DEF ReadKey
  <2>4. \A f \in fetches : f.op = "read" /\ op = "read"
    <3> SUFFICES ASSUME NEW f \in fetches PROVE f.op = "read" /\ op = "read"
      OBVIOUS
    <3>1. PICK c \in f.callers : c \in Clients /\ asked[c].phase = "waiting" /\ asked[c].op = f.op
      BY DEF FlightsApart
    <3>2. Busy(f.op)
      BY <3>1 DEF Busy
    <3>3. ~Busy("write") /\ (op = "write" => ~Busy("read"))
      BY <1>2 DEF BeginRemote, MayBegin
    <3> QED
      BY <2>0, <3>2, <3>3 DEF Fetch, OpKind
  <2>5. CASE Tracked(key) = {}
    <3>1. fetches' = fetches \cup {flight}
      BY <1>2, <2>5 DEF BeginRemote
    <3>2. \A f \in fetches : f.key = key => key = {}
      BY <2>5 DEF Tracked
    <3>3. FlightsApart'
      <4>1. \A f \in fetches' : f.callers # {}
        BY <3>1 DEF FlightsApart
      <4>2. \A f \in fetches' : \A c \in f.callers :
              c \in Clients /\ asked'[c].phase = "waiting" /\ asked'[c].op = f.op
        BY <1>0, <2>1, <3>1 DEF FlightsApart
      <4>3. \A f, g \in fetches' : f.callers \cap g.callers # {} => f = g
        BY <1>0, <3>1 DEF FlightsApart
      <4>4. \A f, g \in fetches' : f.key = g.key /\ f.key # {} => f = g
        <5>1. flight.key = key
          OBVIOUS
        <5> HIDE DEF flight, key
        <5> QED
          BY <3>1, <3>2, <5>1 DEF FlightsApart
      <4>5. \A f \in fetches' : f.op = "write" => f.key = {}
        BY <2>3, <3>1 DEF FlightsApart
      <4> QED
        BY <4>1, <4>2, <4>3, <4>4, <4>5 DEF FlightsApart
    <3>4. FlightsCurrent'
      <4>1. \A e \in cached' : Known' \subseteq e.result.seen
        BY <2>2 DEF Sent, FlightsCurrent
      <4>2. \A f \in fetches' : \A r \in f.result : f.op = "read" => Known' \subseteq r.seen
        BY <2>2, <3>1 DEF FlightsCurrent
      <4>3. (\E f \in fetches' : f.op = "write") =>
              cached' = {} /\ \A g \in fetches' : g.op = "write"
        BY <2>2, <2>3, <2>4, <3>1 DEF Sent
      <4> QED
        BY <4>1, <4>2, <4>3 DEF FlightsCurrent
    <3> QED
      BY <3>3, <3>4
  <2>6. CASE Tracked(key) # {}
    <3>1. PICK f \in Tracked(key) : TRUE
      BY <2>6
    <3>2. f \in fetches /\ f \in Fetch /\ f.key = key /\ key # {}
      BY <2>0, <3>1 DEF Tracked
    <3>3. Tracked(key) = {f}
      BY <3>1, <3>2 DEF Tracked, FlightsApart
    <3>4. fetches' = (fetches \ {f}) \cup {joined(f)}
      BY <1>2, <2>6, <3>2, <3>3 DEF BeginRemote
    <3>5. /\ joined(f).callers = f.callers \cup {d} /\ joined(f).key = f.key
          /\ joined(f).op = f.op /\ joined(f).result = f.result
      BY <3>2 DEF Fetch
    <3> DEFINE j == joined(f)
    <3> HIDE DEF j
    <3>6. /\ fetches' = (fetches \ {f}) \cup {j} /\ j.callers = f.callers \cup {d}
          /\ j.key = f.key /\ j.op = f.op /\ j.result = f.result
      BY <3>4, <3>5 DEF j
    <3>7. FlightsApart'
      <4>1. \A g \in fetches' : g.callers # {}
        BY <3>6 DEF FlightsApart
      <4>2. \A g \in fetches' : \A c \in g.callers :
              c \in Clients /\ asked'[c].phase = "waiting" /\ asked'[c].op = g.op
        BY <1>0, <2>1, <2>4, <3>2, <3>6 DEF FlightsApart
      <4>3. \A g, h \in fetches' : g.callers \cap h.callers # {} => g = h
        BY <1>0, <3>2, <3>6 DEF FlightsApart
      <4>4. \A g, h \in fetches' : g.key = h.key /\ g.key # {} => g = h
        BY <3>2, <3>6 DEF FlightsApart
      <4>5. \A g \in fetches' : g.op = "write" => g.key = {}
        BY <3>2, <3>6 DEF FlightsApart
      <4> QED
        BY <4>1, <4>2, <4>3, <4>4, <4>5 DEF FlightsApart
    <3>8. FlightsCurrent'
      <4>1. \A g \in fetches' : g.op = "read"
        BY <2>4, <3>2, <3>6
      <4>2. cached' = cached
        BY <2>2, <3>2 DEF Sent
      <4>3. \A g \in fetches' : \A r \in g.result : Known' \subseteq r.seen
        BY <2>2, <2>4, <3>2, <3>6 DEF FlightsCurrent
      <4> QED
        BY <2>2, <4>1, <4>2, <4>3 DEF FlightsCurrent
    <3> QED
      BY <3>7, <3>8
  <2> QED
    BY <2>5, <2>6
<1> QED
  BY <1>1, <1>2

LEMMA CacheFetches ==
  ASSUME ClientTypeOK, orderly, FlightsApart, FlightsCurrent, NEW f \in fetches,
         Serve(f) \/ Deliver(f) \/ Refuse(f) \/ LoseFetch(f)
  PROVE  FlightsApart' /\ FlightsCurrent'
<1>0. f \in Fetch /\ f.op \in {"read", "write"}
  BY DEF ClientTypeOK, Fetch, OpKind
<1>1. CASE Serve(f)
  <2> DEFINE s == [f EXCEPT !.result = {[of |-> f.of, seen |-> remote']}]
  <2>1. /\ s.callers = f.callers /\ s.key = f.key /\ s.op = f.op
        /\ \A r \in s.result : Known' \subseteq r.seen
    BY <1>0 DEF Fetch, Known
  <2>2. fetches' = (fetches \ {f}) \cup {s} /\ asked' = asked /\ cached' = cached
    BY <1>1 DEF Serve
  <2>3. f.op = "read" => Known' = Known
    BY <1>1 DEF Serve, Known
  <2> HIDE DEF s
  <2>4. FlightsApart'
    <3>1. \A g \in fetches' : g.callers # {}
      BY <2>1, <2>2 DEF FlightsApart
    <3>2. \A g \in fetches' : \A c \in g.callers :
            c \in Clients /\ asked'[c].phase = "waiting" /\ asked'[c].op = g.op
      BY <2>1, <2>2 DEF FlightsApart
    <3>3. \A g, h \in fetches' : g.callers \cap h.callers # {} => g = h
      BY <2>1, <2>2 DEF FlightsApart
    <3>4. \A g, h \in fetches' : g.key = h.key /\ g.key # {} => g = h
      BY <2>1, <2>2 DEF FlightsApart
    <3>5. \A g \in fetches' : g.op = "write" => g.key = {}
      BY <2>1, <2>2 DEF FlightsApart
    <3> QED
      BY <3>1, <3>2, <3>3, <3>4, <3>5 DEF FlightsApart
  <2>5. CASE f.op = "read"
    <3>1. \A g \in fetches : g.op # "write"
      BY <2>5 DEF FlightsCurrent
    <3>2. \A g \in fetches' : g.op # "write"
      BY <2>1, <2>2, <3>1
    <3>3. \A g \in fetches' : \A r \in g.result : g.op = "read" => Known' \subseteq r.seen
      BY <2>1, <2>2, <2>3, <2>5 DEF FlightsCurrent
    <3>4. \A e \in cached' : Known' \subseteq e.result.seen
      BY <2>2, <2>3, <2>5 DEF FlightsCurrent
    <3> QED
      BY <2>4, <3>2, <3>3, <3>4 DEF FlightsCurrent
  <2>6. CASE f.op = "write"
    \* A mutation executes over an empty cache, and no read is in flight.
    <3>1. cached' = {} /\ \A g \in fetches : g.op = "write"
      BY <2>2, <2>6 DEF FlightsCurrent
    <3>2. \A g \in fetches' : g.op = "write"
      BY <2>1, <2>2, <3>1
    <3> QED
      BY <2>4, <3>1, <3>2 DEF FlightsCurrent
  <2> QED
    BY <1>0, <2>5, <2>6
<1>2. CASE Deliver(f) \/ Refuse(f) \/ LoseFetch(f)
  <2>1. fetches' = fetches \ {f} /\ Known' \subseteq Known
    BY <1>2 DEF Deliver, Refuse, LoseFetch, Known
  <2>2. \E phase, result : asked' = Ended(f, phase, result)
    BY <1>2 DEF Deliver, Refuse, LoseFetch
  <2>3. \A c \in Clients : c \notin f.callers => asked'[c] = asked[c]
    BY <2>2 DEF Ended
  <2>4. \A g \in fetches' : \A c \in g.callers : asked'[c] = asked[c]
    BY <2>1, <2>3 DEF FlightsApart
  <2>5. FlightsApart'
    BY <2>1, <2>4, ApartKept
  <2>6. cached' \subseteq cached \/ (f.op = "read" /\ cached' = Answered(f))
    BY <1>0, <1>2 DEF Deliver, Refuse, LoseFetch, Answered
  <2>7. \A e \in cached' : Known' \subseteq e.result.seen
    <3>1. f.op = "read" => \A e \in [key : f.key, result : f.result] : Known \subseteq e.result.seen
      BY DEF FlightsCurrent
    <3> QED
      BY <2>1, <2>6, <3>1 DEF Answered, FlightsCurrent
  <2>8. (\E g \in fetches' : g.op = "write") =>
           cached' = {} /\ \A g \in fetches' : g.op = "write"
    BY <2>1, <2>6 DEF FlightsCurrent
  <2> QED
    BY <2>1, <2>5, <2>7, <2>8 DEF FlightsCurrent
<1> QED
  BY <1>1, <1>2

LEMMA CacheKept ==
  ASSUME ClientTypeOK, CacheInv, [ClientNext]_clientVars
  PROVE  CacheInv'
<1> SUFFICES ASSUME orderly' PROVE FlightsApart' /\ FlightsCurrent'
  BY DEF CacheInv
<1>0. orderly' = orderly
  BY DEF ClientNext, clientVars, BeginLocal, BeginCached, BeginRemote, Serve, Deliver, Refuse,
         LoseFetch, ServeLate, EndLocal, CooldownEnds, ExpireRead, SwitchContext
<1>1. orderly /\ FlightsApart /\ FlightsCurrent
  BY <1>0 DEF CacheInv
<1>2. ASSUME NEW d \in Clients, NEW phase \in {"done", "failed"}, EndLocal(d, phase)
      PROVE  FlightsApart' /\ FlightsCurrent'
  <2>1. cached' \subseteq cached /\ fetches' = fetches /\ Known' = Known
    BY <1>2 DEF EndLocal, Known
  <2>2. \A f \in fetches : d \notin f.callers
    BY <1>1, <1>2 DEF FlightsApart, EndLocal
  <2>3. \A c \in Clients : c # d => asked'[c] = asked[c]
    BY <1>2 DEF EndLocal, ClientTypeOK
  <2>4. FlightsApart'
    BY <1>1, <2>1, <2>2, <2>3, ApartKept DEF FlightsApart
  <2> QED
    BY <1>1, <2>1, <2>4 DEF FlightsCurrent
<1>3. CASE CooldownEnds \/ (\E c \in Clients : ServeLate(c)) \/ (\E e \in cached : ExpireRead(e))
            \/ (\E x \in Contexts : SwitchContext(x)) \/ UNCHANGED clientVars
  <2>1. cached' \subseteq cached /\ fetches' = fetches /\ Known' = Known /\ asked' = asked
    BY <1>3 DEF Known, CooldownEnds, ServeLate, ExpireRead, SwitchContext, clientVars
  <2> QED
    BY <1>1, <2>1 DEF FlightsApart, FlightsCurrent
<1> QED
  BY <1>1, <1>2, <1>3, CacheBegins, CacheFetches, ClientCases

(* In a session whose mutations overlap with nothing the cache is current: *)
(* no order of answers, losses, fallbacks and expiries lets a cached read  *)
(* miss a mutation that the backend executed before the page gave it up.   *)
THEOREM CacheHolds == ClientSpec => []CacheIsCurrent
<1>1. ClientInit => CacheInv
  BY DEF ClientInit, CacheInv, FlightsApart, FlightsCurrent
<1>2. ClientTypeOK /\ CacheInv /\ [ClientNext]_clientVars => CacheInv'
  BY CacheKept
<1>3. CacheInv => CacheIsCurrent
  BY DEF CacheInv, FlightsCurrent, CacheIsCurrent, Known
<1> QED
  BY <1>1, <1>2, <1>3, ClientTyped, PTL DEF ClientSpec

(***************************************************************************)
(* The contexts of the user.  A list of contexts never holds two of a      *)
(* role, so at most one of it matches; what a switch brings back was in    *)
(* the list it brings back too.                                            *)
(***************************************************************************)
OnePerRole(contexts) == \A c, d \in contexts : c.role = d.role => c = d

ContextInv ==
    /\ ContextTypeOK
    /\ OnePerRole(page.available) /\ page.active \subseteq page.available
    /\ \A v \in Visit :
         /\ OnePerRole(visits[v].available) /\ OnePerRole(visits[v].loaded)
         /\ visits[v].kind = "switch" => visits[v].active \subseteq visits[v].available

LEMMA OptionalFact ==
  ASSUME NEW S, NEW x
  PROVE  x \in Optional(S) <=> x \subseteq S /\ \A c, d \in x : c = d
<1>1. ASSUME x \subseteq S, \A c, d \in x : c = d PROVE x \in Optional(S)
  <2>1. CASE x = {}
    BY <2>1 DEF Optional
  <2>2. CASE x # {}
    <3>1. PICK c \in x : TRUE
      BY <2>2
    <3>2. x = {c} /\ c \in S
      BY <1>1, <3>1
    <3> QED
      BY <3>2 DEF Optional
  <2> QED
    BY <2>1, <2>2
<1> QED
  BY <1>1 DEF Optional

LEMMA ContextsOfFact ==
  ASSUME NEW g \in SUBSET Assignment
  PROVE  ContextsOf(g) \in SUBSET RoleContext /\ OnePerRole(ContextsOf(g))
<1>1. \A a \in g : [role |-> RoleOf[a], ids |-> {b \in g : RoleOf[b] = RoleOf[a]}] \in RoleContext
  BY DEF RoleContext
<1> QED
  BY <1>1 DEF ContextsOf, OnePerRole

LEMMA MatchingFact ==
  ASSUME NEW contexts \in SUBSET RoleContext, OnePerRole(contexts),
         NEW previous \in Optional(RoleContext)
  PROVE  /\ Matching(contexts, previous) \in Optional(RoleContext)
         /\ Matching(contexts, previous) \subseteq contexts
<1>1. Matching(contexts, previous) \subseteq contexts
  BY DEF Matching
<1>2. \A p, q \in previous : p = q
  BY OptionalFact
<1>3. ASSUME NEW c \in Matching(contexts, previous), NEW d \in Matching(contexts, previous)
      PROVE  c = d
  <2>1. (\E p \in previous : c.role = p.role) /\ (\E p \in previous : d.role = p.role)
    BY <1>3 DEF Matching
  <2>2. c.role = d.role
    BY <1>2, <2>1
  <2> QED
    BY <1>1, <1>3, <2>2 DEF OnePerRole
<1> QED
  BY <1>1, <1>3, OptionalFact

LEMMA SignedOutFact ==
  SignedOut \in Page /\ OnePerRole(SignedOut.available)
    /\ SignedOut.active \subseteq SignedOut.available
BY OptionalFact DEF SignedOut, Page, OnePerRole

LEMMA NoVisitFact ==
  /\ NoVisit \in VisitRow /\ OnePerRole(NoVisit.available) /\ OnePerRole(NoVisit.loaded)
  /\ NoVisit.kind # "switch"
BY OptionalFact DEF NoVisit, VisitRow, OnePerRole

\* The page and the visits may be looked at one by one.
PageOK(p) == p \in Page /\ OnePerRole(p.available) /\ p.active \subseteq p.available
VisitOK(x) == /\ x \in VisitRow /\ OnePerRole(x.available) /\ OnePerRole(x.loaded)
              /\ x.kind = "switch" => x.active \subseteq x.available

LEMMA ContextInvFact ==
  ContextInv <=> /\ granted \subseteq Assignment /\ session \in BOOLEAN /\ PageOK(page)
                 /\ visits = [v \in Visit |-> visits[v]] /\ \A v \in Visit : VisitOK(visits[v])
<1>1. visits \in [Visit -> VisitRow] <=>
        visits = [v \in Visit |-> visits[v]] /\ \A v \in Visit : visits[v] \in VisitRow
  OBVIOUS
<1> QED
  BY <1>1 DEF ContextInv, ContextTypeOK, PageOK, VisitOK

LEMMA VisitChange ==
  ASSUME ContextInv, NEW v \in Visit, NEW x, VisitOK(x),
         visits' = [visits EXCEPT ![v] = x],
         granted' = granted, session' \in BOOLEAN, PageOK(page')
  PROVE  ContextInv'
<1>1. ContextInv' <=> /\ granted' \subseteq Assignment /\ session' \in BOOLEAN /\ PageOK(page')
                      /\ visits' = [w \in Visit |-> visits'[w]] /\ \A w \in Visit : VisitOK(visits'[w])
  <2>1. visits' \in [Visit -> VisitRow] <=>
          visits' = [w \in Visit |-> visits'[w]] /\ \A w \in Visit : visits'[w] \in VisitRow
    OBVIOUS
  <2> QED
    BY <2>1 DEF ContextInv, ContextTypeOK, PageOK, VisitOK
<1>2. \A w \in Visit : visits'[w] = IF w = v THEN x ELSE visits[w]
  BY ContextInvFact
<1> QED
  BY <1>1, <1>2, ContextInvFact

LEMMA ContextBegins ==
  ASSUME ContextInv, NEW v \in Visit,
         BeginLogin(v) \/ BeginRefresh(v) \/ (\E c \in page.available : BeginSwitch(v, c))
  PROVE  ContextInv'
<1>0. PageOK(page) /\ session \in BOOLEAN
  BY ContextInvFact
<1>1. ASSUME NEW kind \in {"login", "refresh", "switch"}, NEW active \in Optional(RoleContext),
             kind = "switch" => active \subseteq page.available, Begins(v, kind, active),
             granted' = granted, session' = session, page' = page
      PROVE  ContextInv'
  <2> DEFINE x == [NoVisit EXCEPT !.kind = kind, !.available = page.available, !.active = active]
  <2>1. VisitOK(x)
    BY <1>0, <1>1, NoVisitFact DEF VisitOK, VisitRow, PageOK, Page
  <2>2. visits' = [visits EXCEPT ![v] = x]
    BY <1>1 DEF Begins
  <2> HIDE DEF x
  <2> QED
    BY <1>0, <1>1, <2>1, <2>2, VisitChange
<1>2. CASE BeginLogin(v)
  BY <1>1, <1>2, OptionalFact DEF BeginLogin
<1>3. CASE BeginRefresh(v)
  BY <1>0, <1>1, <1>3 DEF BeginRefresh, PageOK, Page
<1>4. ASSUME NEW c \in page.available, BeginSwitch(v, c) PROVE ContextInv'
  <2>1. {c} \in Optional(RoleContext) /\ {c} \subseteq page.available
    BY <1>0, OptionalFact DEF PageOK, Page
  <2> QED
    BY <1>1, <1>4, <2>1 DEF BeginSwitch
<1> QED
  BY <1>2, <1>3, <1>4

LEMMA ContextWaits ==
  ASSUME ContextInv, NEW v \in Visit, SwitchToMissing(v) \/ Ask(v) \/ Load(v) \/ Fail(v)
  PROVE  ContextInv'
<1>0. PageOK(page) /\ session \in BOOLEAN /\ VisitOK(visits[v]) /\ granted \subseteq Assignment
  BY ContextInvFact
<1>1. CASE SwitchToMissing(v)
  <2>1. PageOK(page')
    BY <1>0, <1>1, OptionalFact DEF SwitchToMissing, PageOK, Page
  <2>2. CASE visits' = visits
    BY <1>0, <1>1, <2>1, <2>2 DEF SwitchToMissing, ContextInv, ContextTypeOK, PageOK, VisitOK
  <2>3. CASE Begins(v, "refresh", {})
    <3> DEFINE x == [NoVisit EXCEPT !.kind = "refresh", !.available = page.available, !.active = {}]
    <3>1. VisitOK(x)
      BY <1>0, NoVisitFact, OptionalFact DEF VisitOK, VisitRow, PageOK, Page
    <3>2. visits' = [visits EXCEPT ![v] = x] /\ granted' = granted /\ session' = session
      BY <1>1, <2>3 DEF Begins, SwitchToMissing
    <3> HIDE DEF x
    <3> QED
      BY <1>0, <2>1, <3>1, <3>2, VisitChange
  <2> QED
    BY <1>1, <2>2, <2>3 DEF SwitchToMissing
<1>2. CASE Ask(v)
  <2>1. PICK stage \in {"accepted", "refused"} :
          visits' = [visits EXCEPT ![v] = [visits[v] EXCEPT !.stage = stage]]
    BY <1>0, <1>2 DEF Ask
  <2> DEFINE x == [visits[v] EXCEPT !.stage = stage]
  <2>2. VisitOK(x)
    BY <1>0 DEF VisitOK, VisitRow
  <2>3. granted' = granted /\ page' = page /\ session' \in BOOLEAN
    BY <1>2 DEF Ask
  <2> HIDE DEF x
  <2> QED
    BY <1>0, <2>1, <2>2, <2>3, VisitChange DEF x
<1>3. CASE Load(v)
  <2> DEFINE x == [visits[v] EXCEPT !.stage = "loaded", !.loaded = ContextsOf(granted)]
  <2>1. VisitOK(x)
    BY <1>0, ContextsOfFact DEF VisitOK, VisitRow
  <2>2. visits' = [visits EXCEPT ![v] = x]
    BY <1>3, ContextInvFact DEF Load
  <2>3. granted' = granted /\ page' = page /\ session' = session
    BY <1>3 DEF Load
  <2> HIDE DEF x
  <2> QED
    BY <1>0, <2>1, <2>2, <2>3, VisitChange
<1>4. CASE Fail(v)
  <2>1. VisitOK(NoVisit)
    BY NoVisitFact DEF VisitOK
  <2> QED
    BY <1>0, <1>4, <2>1, VisitChange DEF Fail, Ends
<1> QED
  BY <1>1, <1>2, <1>3, <1>4

\* What comes back to the page is a list and one of its contexts.
LEMMA ContextEnds ==
  ASSUME ContextInv, NEW v \in Visit, FinishLogin(v) \/ FinishRefresh(v) \/ FinishSwitch(v)
  PROVE  ContextInv'
<1>0. PageOK(page) /\ session \in BOOLEAN /\ VisitOK(visits[v])
  BY ContextInvFact
<1>1. PageOK(page')
  <2>1. CASE FinishLogin(v)
    BY <1>0, <2>1, OptionalFact DEF FinishLogin, PageOK, Page, VisitOK, VisitRow
  <2>2. CASE FinishRefresh(v)
    <3> DEFINE next == Matching(visits[v].loaded, visits[v].active)
    <3>1. next \in Optional(RoleContext) /\ next \subseteq visits[v].loaded
      BY <1>0, MatchingFact DEF VisitOK, VisitRow
    <3> HIDE DEF next
    <3>2. PageOK([page EXCEPT !.available = visits[v].loaded, !.active = next])
      BY <1>0, <3>1 DEF PageOK, Page, VisitOK, VisitRow
    <3>3. PageOK(SignedOut)
      BY SignedOutFact DEF PageOK
    <3> QED
      BY <1>0, <2>2, <3>2, <3>3 DEF FinishRefresh, Refreshed, next
  <2>3. CASE FinishSwitch(v)
    BY <1>0, <2>3 DEF FinishSwitch, Switched, PageOK, Page, VisitOK, VisitRow
  <2> QED
    BY <2>1, <2>2, <2>3
<1>2. VisitOK(NoVisit)
  BY NoVisitFact DEF VisitOK
<1> QED
  BY <1>0, <1>1, <1>2, VisitChange DEF FinishLogin, FinishRefresh, FinishSwitch, Ends

LEMMA ContextOthers ==
  ASSUME ContextInv,
         \/ Logout \/ SessionEnds \/ Reload
         \/ \E a \in Assignment :
              \/ ReplaceRoleAssignments(a)
              \/ \E isActive \in BOOLEAN : SetRoleActive(RoleOf[a], isActive)
  PROVE  ContextInv'
<1>0. PageOK(page) /\ session \in BOOLEAN /\ granted \subseteq Assignment
  BY ContextInvFact
<1>1. PageOK(page')
  <2>1. CASE Reload
    <3> DEFINE found == Matching(page.available, page.active)
    <3>1. found \in Optional(RoleContext) /\ found \subseteq page.available
      BY <1>0, MatchingFact DEF PageOK, Page
    <3> HIDE DEF found
    <3>2. PageOK([page EXCEPT !.active = IF found = {} THEN @ ELSE found])
      BY <1>0, <3>1 DEF PageOK, Page
    <3>3. PageOK(SignedOut)
      BY SignedOutFact DEF PageOK
    <3> QED
      BY <2>1, <3>2, <3>3 DEF Reload, found
  <2>2. PageOK(SignedOut)
    BY SignedOutFact DEF PageOK
  <2> QED
    BY <1>0, <2>1, <2>2 DEF Logout, SessionEnds, ReplaceRoleAssignments, SetRoleActive
<1>2. granted' \subseteq Assignment /\ session' \in BOOLEAN
  BY <1>0 DEF Logout, SessionEnds, Reload, ReplaceRoleAssignments, SetRoleActive, AssignmentsOf
<1>3. visits' = visits \/ visits' = [v \in Visit |-> NoVisit]
  BY DEF Logout, SessionEnds, Reload, ReplaceRoleAssignments, SetRoleActive
<1>4. CASE visits' = visits
  BY <1>1, <1>2, <1>4 DEF ContextInv, ContextTypeOK, PageOK
<1>5. CASE visits' = [v \in Visit |-> NoVisit]
  BY <1>1, <1>2, <1>5, NoVisitFact DEF ContextInv, ContextTypeOK, PageOK
<1> QED
  BY <1>3, <1>4, <1>5

LEMMA ContextInvariant == ContextSpec => []ContextInv
<1>1. ContextInit => ContextInv
  BY SignedOutFact, NoVisitFact DEF ContextInit, ContextInv, ContextTypeOK
<1>2. ContextInv /\ [ContextNext]_contextVars => ContextInv'
  <2> SUFFICES ASSUME ContextInv, [ContextNext]_contextVars PROVE ContextInv'
    OBVIOUS
  <2>1. CASE UNCHANGED contextVars
    BY <2>1 DEF contextVars, ContextInv, ContextTypeOK
  <2>2. CASE ContextNext
    BY <2>2, ContextBegins, ContextWaits, ContextEnds, ContextOthers DEF ContextNext
  <2> QED
    BY <2>1, <2>2
<1> QED
  BY <1>1, <1>2, PTL DEF ContextSpec

(* The page, the session and the calls under way keep their types: in      *)
(* particular the page never has two active contexts.                      *)
THEOREM ContextTyped == ContextSpec => []ContextTypeOK
<1>1. ContextInv => ContextTypeOK
  BY DEF ContextInv
<1> QED
  BY <1>1, ContextInvariant, PTL

(* However many logins, refreshes and switches cross, and whatever is      *)
(* granted or revoked meanwhile, the active context is in the page's list. *)
THEOREM ActiveHolds == ContextSpec => []ActiveIsAvailable
<1>1. ContextInv => ActiveIsAvailable
  BY DEF ContextInv, ActiveIsAvailable
<1> QED
  BY <1>1, ContextInvariant, PTL
=============================================================================
