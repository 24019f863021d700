------------------------------ MODULE RpcClient ------------------------------
(***************************************************************************)
(* The browser's side of the domain bridge (domainRpcClient.ts): every     *)
(* call of a service goes to the backend, to the copy of the service that  *)
(* is bundled with the page, or to the short-lived cache of reads.  A      *)
(* transport failure opens a circuit that keeps calls local for a while;   *)
(* after it the next call probes the backend.                              *)
(*                                                                         *)
(* What follows the answer of a fetch runs in microtasks, so the end of a  *)
(* flight is one step for everybody who waits for it.                      *)
(***************************************************************************)
EXTENDS Naturals, FiniteSets

CONSTANTS
    MaxClientCalls, \* bound on the calls one page makes
    Contexts,       \* the active contexts the user switches between
    ApiModes        \* values of VITE_DOMAIN_API_MODE

ASSUME ClientAssumption ==
    MaxClientCalls \in Nat /\ ApiModes \subseteq {"backend", "strict", "mock"}

VARIABLES
    apiMode,  \* DOMAIN_API_MODE
    orderly,  \* no other call is under way beside a mutation in this session
    context,  \* the active context in local storage
    circuit,  \* circuitOpenedUntil: zero, in the future, or in the past
    probe,    \* recoveryProbe is set
    cached,   \* readResponseCache
    fetches,  \* requests under way, the tracked reads among them
    asked,    \* the calls
    remote,   \* mutations the backend executed
    abandoned \* mutations the page gave up before the backend executed them

clientVars ==
    <<apiMode, orderly, context, circuit, probe, cached, fetches, asked, remote, abandoned>>

Clients == 1..MaxClientCalls   \* in the order in which they are made

OpKind == {"read", "write"}
\* Service and method of a read come down to whether it is database-only
Fingerprint == [of : Contexts, must : BOOLEAN]
Result == [of : Contexts, seen : SUBSET Clients]
CallRecord == [phase : {"new", "waiting", "local", "fallback", "done", "failed"}, op : OpKind,
               of : SUBSET Contexts, answer : SUBSET Result]
NewCall == [phase |-> "new", op |-> "read", of |-> {}, answer |-> {}]
Fetch == [key : SUBSET Fingerprint, op : OpKind, must : BOOLEAN, of : Contexts,
          callers : SUBSET Clients, result : SUBSET Result]

ClientTypeOK ==
    /\ apiMode \in ApiModes
    /\ orderly \in BOOLEAN
    /\ context \in Contexts
    /\ circuit \in {"closed", "open", "cooled"}
    /\ probe \in BOOLEAN
    /\ cached \subseteq [key : Fingerprint, result : Result]
    /\ fetches \subseteq Fetch
    /\ asked \in [Clients -> CallRecord]
    /\ remote \subseteq Clients
    /\ abandoned \subseteq Clients

ClientInit ==
    /\ apiMode \in ApiModes
    /\ orderly \in BOOLEAN
    /\ context \in Contexts
    /\ circuit = "closed"
    /\ probe = FALSE
    /\ cached = {}
    /\ fetches = {}
    /\ asked = [c \in Clients |-> NewCall]
    /\ remote = {}
    /\ abandoned = {}

-------------------------------------------------------------------------------
Busy(op) == \E c \in Clients : asked[c].op = op /\ asked[c].phase \in {"waiting", "local", "fallback"}

(* An orderly session begins a mutation when nothing else is under way *)
MayBegin(c, op) ==
    /\ asked[c].phase = "new"
    /\ \A d \in Clients : d < c => asked[d].phase # "new"
    /\ orderly => ~Busy("write") /\ (op = "write" => ~Busy("read"))

Began(c, op, phase) == [NewCall EXCEPT !.phase = phase, !.op = op, !.of = {context}]

(* Mock mode, an open circuit, or somebody else's probe: the local service is used *)
StaysLocal(must) ==
    ~must /\ (\/ apiMode = "mock"
              \/ apiMode = "backend" /\ circuit = "open"
              \/ apiMode = "backend" /\ circuit = "cooled" /\ probe)

BeginLocal(c, op) ==
    /\ MayBegin(c, op)
    /\ StaysLocal(FALSE)
    /\ asked' = [asked EXCEPT ![c] = Began(c, op, "local")]
    /\ UNCHANGED <<apiMode, orderly, context, circuit, probe, cached, fetches, remote, abandoned>>

(* makeReadRequestKey: a read has the context in its key, or no key when an      *)
(* argument or a field of the context cannot be fingerprinted                    *)
ReadKeyOfArguments(must, keyed) ==
    IF keyed THEN {[of |-> CHOOSE x \in Contexts : TRUE, must |-> must]} ELSE {}
ReadKey(must, keyed) == IF keyed THEN {[of |-> context, must |-> must]} ELSE {}

Hits(key) == {e \in cached : e.key \in key}
Tracked(key) == {f \in fetches : f.key = key /\ key # {}}

(* A read answered from the cache counts as an answer of the backend *)
BeginCached(c, must) ==
    /\ MayBegin(c, "read")
    /\ ~StaysLocal(must)
    /\ \E e \in Hits(ReadKey(must, TRUE)) :
          asked' = [asked EXCEPT ![c] = [Began(c, "read", "done") EXCEPT !.answer = {e.result}]]
    /\ circuit' = "closed"
    /\ probe' = FALSE
    /\ UNCHANGED <<apiMode, orderly, context, cached, fetches, remote, abandoned>>

(* callDomainRpcSingleFlight: a request without a key clears the cache *)
SentWithCache(key) == cached
Sent(key) == IF key = {} THEN {} ELSE cached

BeginRemote(c, op, must, keyed) ==
    LET key == ReadKey(must, keyed /\ op = "read")
    IN  /\ MayBegin(c, op)
        /\ ~StaysLocal(must)
        /\ Hits(key) = {}
        /\ fetches' =
              IF Tracked(key) = {}
              THEN fetches \cup {[key |-> key, op |-> op, must |-> must, of |-> context,
                                  callers |-> {c}, result |-> {}]}
              ELSE {IF f \in Tracked(key) THEN [f EXCEPT !.callers = @ \cup {c}] ELSE f : f \in fetches}
        /\ cached' = Sent(key)
        /\ probe' = TRUE
        /\ asked' = [asked EXCEPT ![c] = Began(c, op, "waiting")]
        /\ UNCHANGED <<apiMode, orderly, context, circuit, remote, abandoned>>

-------------------------------------------------------------------------------
(* The backend executes a request; nobody knows of it yet *)
Serve(f) ==
    LET executed == IF f.op = "write" THEN remote \cup f.callers ELSE remote
    IN  /\ f.result = {}
        /\ remote' = executed
        /\ fetches' = (fetches \ {f}) \cup {[f EXCEPT !.result = {[of |-> f.of, seen |-> executed]}]}
        /\ UNCHANGED <<apiMode, orderly, context, circuit, probe, cached, asked, abandoned>>

Ended(f, phase, result) ==
    [c \in Clients |-> IF c \in f.callers
                       THEN [asked[c] EXCEPT !.phase = phase, !.answer = result] ELSE asked[c]]

Answered(f) ==
    IF f.op = "write" THEN {}
    ELSE (cached \ Hits(f.key)) \cup [key : f.key, result : f.result]

Deliver(f) ==
    /\ f.result # {}
    /\ fetches' = fetches \ {f}
    /\ asked' = Ended(f, "done", f.result)
    /\ cached' = Answered(f)
    /\ circuit' = "closed"
    /\ probe' = FALSE
    /\ UNCHANGED <<apiMode, orderly, context, remote, abandoned>>

(* Any finally clears the probe, whoever set it *)
AfterNoFinally(over) == probe
AfterFinally(over) == probe /\ ~over

(* The method is refused or throws: the caller gets the error *)
Refuse(f) ==
    /\ f.result = {}
    /\ fetches' = fetches \ {f}
    /\ asked' = Ended(f, "failed", {})
    /\ probe' = AfterFinally(TRUE)
    /\ UNCHANGED <<apiMode, orderly, context, circuit, cached, remote, abandoned>>

(* A transport error or a 502, 503 or 504, before or after the method ran: the   *)
(* callers fall back to the local service where they may.  The page learns       *)
(* nothing of a mutation that has not run; the backend may yet execute it        *)
LoseFetch(f) ==
    LET surfaces == f.must \/ apiMode = "strict"
        unserved == IF f.op = "write" /\ f.result = {} THEN f.callers ELSE {}
    IN  /\ fetches' = fetches \ {f}
        /\ abandoned' = abandoned \cup unserved
        /\ asked' = Ended(f, IF surfaces THEN "failed" ELSE "fallback", {})
        /\ probe' = AfterFinally(surfaces)
        /\ circuit' = IF surfaces THEN circuit ELSE "open"
        /\ UNCHANGED <<apiMode, orderly, context, cached, remote>>

(* A request that was only slow reaches the service after the page gave it up *)
ServeLate(c) ==
    /\ c \in abandoned \ remote
    /\ remote' = remote \cup {c}
    /\ UNCHANGED <<apiMode, orderly, context, circuit, probe, cached, fetches, asked, abandoned>>

(* The local method ends, with or without an error; a fallback ends its finally too *)
EndLocal(c, phase) ==
    /\ asked[c].phase \in {"local", "fallback"}
    /\ asked' = [asked EXCEPT ![c].phase = phase]
    /\ probe' = AfterFinally(asked[c].phase = "fallback")
    /\ cached' = IF phase = "done" /\ asked[c].op = "write" THEN {} ELSE cached
    /\ UNCHANGED <<apiMode, orderly, context, circuit, fetches, remote, abandoned>>

CooldownEnds ==
    /\ circuit = "open"
    /\ circuit' = "cooled"
    /\ UNCHANGED <<apiMode, orderly, context, probe, cached, fetches, asked, remote, abandoned>>

ExpireRead(e) ==
    /\ cached' = cached \ {e}
    /\ UNCHANGED <<apiMode, orderly, context, circuit, probe, fetches, asked, remote, abandoned>>

SwitchContext(x) ==
    /\ x # context
    /\ context' = x
    /\ UNCHANGED <<apiMode, orderly, circuit, probe, cached, fetches, asked, remote, abandoned>>

ClientNext ==
    \/ \E c \in Clients, op \in OpKind : BeginLocal(c, op)
    \/ \E c \in Clients, must \in BOOLEAN : BeginCached(c, must)
    \/ \E c \in Clients, op \in OpKind, must, keyed \in BOOLEAN : BeginRemote(c, op, must, keyed)
    \/ \E f \in fetches : Serve(f) \/ Deliver(f) \/ Refuse(f) \/ LoseFetch(f)
    \/ \E c \in Clients : ServeLate(c)
    \/ \E c \in Clients, phase \in {"done", "failed"} : EndLocal(c, phase)
    \/ CooldownEnds
    \/ \E e \in cached : ExpireRead(e)
    \/ \E x \in Contexts : SwitchContext(x)

ClientSpec == ClientInit /\ [][ClientNext]_clientVars

-------------------------------------------------------------------------------
(* "Context is part of the request fingerprint": neither the cache nor a shared *)
(* flight gives a call what the backend computed for another context            *)
AnswerIsOfContext == \A c \in Clients : \A a \in asked[c].answer : asked[c].of = {a.of}

(* While recoveryProbe is set some call is still on its way to the finally that  *)
(* clears it: no error path leaves a probe that keeps every later call local     *)
ProbeHasCaller == probe => \E c \in Clients : asked[c].phase \in {"waiting", "fallback"}

(* In a session whose mutations overlap with nothing, a cached read has seen     *)
(* every mutation the backend executed before the page gave it up, the ones      *)
(* whose answers were lost on the way back among them.  One that runs after the  *)
(* page has fallen back is excluded: nothing clears the cache for it             *)
CacheIsCurrent == orderly => \A e \in cached : remote \ abandoned \subseteq e.result.seen
===============================================================================
