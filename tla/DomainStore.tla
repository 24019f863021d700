----------------------------- MODULE DomainStore -----------------------------
(***************************************************************************)
(* What the domain RPC bridge promises its callers about the four          *)
(* test-management collections in PostgreSQL: the store starts either      *)
(* empty or with the rows of an earlier deployment, an empty store is      *)
(* filled once with the seed data, and from then on it changes only by the *)
(* whole effect of one command at a time, never by a query.  No effect is  *)
(* ever taken back.                                                        *)
(* DomainRpc.tla is the implementation.                                    *)
(***************************************************************************)
CONSTANTS
    Requests,   \* the RPC calls
    Queries,    \* those that only read
    Bridged,    \* the collections kept in PostgreSQL
    Writes,     \* Writes[r]: the collections the method of r changes
    SeedData,   \* the effect "the bundled seed rows are present"
    OldData     \* the effect "the rows of an earlier deployment are present"

VARIABLE store  \* store[c]: the effects visible in collection c

Effect == Requests \cup {SeedData, OldData}

HasData(s) == \E c \in Bridged : s[c] # {}

SeedState == [c \in Bridged |-> {SeedData}]

WithEffect(s, r) ==
    [c \in Bridged |-> IF c \in Writes[r] THEN s[c] \cup {r} ELSE s[c]]

Init == store \in [Bridged -> {{}, {OldData}}]

Seed == ~HasData(store) /\ store' = SeedState

Write(r) == HasData(store) /\ store' = WithEffect(store, r)

Next == Seed \/ \E r \in Requests \ Queries : Write(r)

Spec == Init /\ [][Next]_store
==============================================================================
