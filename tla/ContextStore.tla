---------------------------- MODULE ContextStore ----------------------------
(***************************************************************************)
(* The signed-in user's contexts in the page (authStore.ts) and the        *)
(* session the server keeps (auth-session-server.cjs).  Assignments of the *)
(* same role make one context.  Login, refresh and switch wait for the     *)
(* server between what they read of the store and what they put there, so  *)
(* they overlap with each other, with logout, with a reload of the page    *)
(* and with the administrator's changes of the assignments.  The systems   *)
(* an assignment covers do not change here.                                *)
(***************************************************************************)
EXTENDS Naturals

CONSTANTS
    MaxAssignments,     \* the assignments of the user, in the order of their ids
    RoleOf,             \* the role of each
    MaxVisits           \* bound on the calls of the store that are under way

Assignment == 1..MaxAssignments
Visit == 1..MaxVisits

ASSUME ContextAssumption ==
    /\ MaxAssignments \in Nat /\ MaxVisits \in Nat
    /\ DOMAIN RoleOf = Assignment

VARIABLES
    granted,    \* the active assignments, in the database
    session,    \* the server holds a live session of the page
    page,       \* the store of the page, saved in local storage at each change
    visits      \* login, refreshContexts and switchContext calls under way

contextVars == <<granted, session, page, visits>>

RoleContext == [role : {RoleOf[a] : a \in Assignment}, ids : SUBSET Assignment]

\* One value or none
Optional(S) == {{}} \cup {{x} : x \in S}

Page == [authenticated : BOOLEAN, user : BOOLEAN, available : SUBSET RoleContext,
         active : Optional(RoleContext)]
SignedOut == [authenticated |-> FALSE, user |-> FALSE, available |-> {}, active |-> {}]

\* What a call read of the page, and what the server told it so far
VisitRow == [kind : {"login", "refresh", "switch", "none"},
             stage : {"asking", "accepted", "refused", "loaded"},
             available : SUBSET RoleContext, active : Optional(RoleContext),
             loaded : SUBSET RoleContext]
NoVisit == [kind |-> "none", stage |-> "asking", available |-> {}, active |-> {}, loaded |-> {}]

ContextTypeOK ==
    /\ granted \subseteq Assignment
    /\ session \in BOOLEAN
    /\ page \in Page
    /\ visits \in [Visit -> VisitRow]

-----------------------------------------------------------------------------
\* buildAvailableContexts: one context for each role that is granted
ContextsOf(g) ==
    {[role |-> RoleOf[a], ids |-> {b \in g : RoleOf[b] = RoleOf[a]}] : a \in g}

FirstOf(ids) == {a \in ids : \A b \in ids : a <= b}

\* findMatchingContext: the same context, or one of its role that shares an assignment
Matching(contexts, previous) ==
    {c \in contexts : \E p \in previous : c = p}
    \cup {c \in contexts : \E p \in previous :
            /\ p \notin contexts /\ c.role = p.role /\ c.ids \cap p.ids # {}}

Begins(v, kind, active) ==
    /\ visits[v].kind = "none"
    /\ visits' = [visits EXCEPT ![v] =
         [NoVisit EXCEPT !.kind = kind, !.available = page.available, !.active = active]]

\* The login page is there until a context is active
BeginLogin(v) ==
    /\ ~page.authenticated \/ page.active = {}
    /\ Begins(v, "login", {})
    /\ UNCHANGED <<granted, session, page>>

BeginRefresh(v) ==
    /\ page.authenticated /\ page.user
    /\ Begins(v, "refresh", page.active)
    /\ UNCHANGED <<granted, session, page>>

BeginSwitch(v, c) ==
    /\ page.user /\ c \in page.available
    /\ Begins(v, "switch", {c})
    /\ UNCHANGED <<granted, session, page>>

\* A context that the store no longer lists: the active one goes and a refresh begins
SwitchToMissing(v) ==
    /\ page.user /\ page.active # {}
    /\ page' = [page EXCEPT !.active = {}]
    /\ IF page.authenticated THEN Begins(v, "refresh", {}) ELSE visits' = visits
    /\ UNCHANGED <<granted, session>>

\* The server signs in, looks at the session, or selects the first assignment of
\* the context, which is all it looks at
Ask(v) ==
    LET visit == visits[v]
        chosen == UNION {FirstOf(c.ids) : c \in visit.active}
        accepts == CASE visit.kind = "login" -> granted # {}
                     [] visit.kind = "refresh" -> session
                     [] OTHER -> session /\ chosen \subseteq granted
    IN  /\ visit.kind # "none" /\ visit.stage = "asking"
        /\ visits' = [visits EXCEPT ![v].stage = IF accepts THEN "accepted" ELSE "refused"]
        /\ session' = (session \/ (accepts /\ visit.kind = "login"))
        /\ UNCHANGED <<granted, page>>

\* loadAvailableContexts, for a login or a refresh
Load(v) ==
    /\ visits[v].kind \in {"login", "refresh"} /\ visits[v].stage = "accepted"
    /\ visits' = [visits EXCEPT ![v].stage = "loaded", ![v].loaded = ContextsOf(granted)]
    /\ UNCHANGED <<granted, session, page>>

Ends(v) == visits' = [visits EXCEPT ![v] = NoVisit]

FinishLogin(v) ==
    /\ visits[v].kind = "login" /\ visits[v].stage = "loaded"
    /\ page' = [authenticated |-> TRUE, user |-> TRUE,
                available |-> visits[v].loaded, active |-> {}]
    /\ Ends(v)
    /\ UNCHANGED <<granted, session>>

\* A refresh compares with what it read at its start, not with what is there now
Refreshed(visit) ==
    LET next == Matching(visit.loaded, visit.active)
    IN  IF visit.loaded = visit.available /\ next = visit.active THEN page
        ELSE [page EXCEPT !.available = visit.loaded, !.active = next]

FinishRefresh(v) ==
    /\ visits[v].kind = "refresh"
    /\ \/ visits[v].stage = "loaded" /\ page' = Refreshed(visits[v])
       \/ visits[v].stage = "refused" /\ page' = SignedOut
    /\ Ends(v)
    /\ UNCHANGED <<granted, session>>

\* The list the switch found its context in comes back with it
SwitchedAlone(visit) == [page EXCEPT !.authenticated = TRUE, !.active = visit.active]
Switched(visit) ==
    [page EXCEPT !.authenticated = TRUE, !.available = visit.available, !.active = visit.active]

\* Nothing is set when list and active context are already those of the switch
FinishSwitch(v) ==
    /\ visits[v].kind = "switch" /\ visits[v].stage = "accepted"
    /\ page' = IF page.available = visits[v].available /\ page.active = visits[v].active
               THEN page ELSE Switched(visits[v])
    /\ Ends(v)
    /\ UNCHANGED <<granted, session>>

\* The server refused a login or a switch, a read failed, or the answer was lost
Fail(v) ==
    /\ visits[v].kind # "none"
    /\ Ends(v)
    /\ UNCHANGED <<granted, session, page>>

Logout ==
    /\ page.authenticated
    /\ page' = SignedOut
    /\ UNCHANGED <<granted, session, visits>>

\* The logout arrives, the session expires or the user is deactivated
SessionEnds ==
    /\ session
    /\ session' = FALSE
    /\ UNCHANGED <<granted, page, visits>>

\* merge: the store comes back from local storage, the calls under way are gone
Reload ==
    LET found == Matching(page.available, page.active)
    IN  /\ page' = IF ~page.authenticated \/ ~page.user THEN SignedOut
                   ELSE [page EXCEPT !.active = IF found = {} THEN @ ELSE found]
        /\ visits' = [v \in Visit |-> NoVisit]
        /\ UNCHANGED <<granted, session>>

\* The administrator's calls are about all the assignments of a role
AssignmentsOf(role) == {a \in Assignment : RoleOf[a] = role}

\* replaceRoleAssignments: the oldest one stays in force, its duplicates do not
ReplaceRoleAssignments(a) ==
    /\ granted' = (granted \ AssignmentsOf(RoleOf[a])) \cup {a}
    /\ UNCHANGED <<session, page, visits>>

SetRoleActive(role, isActive) ==
    /\ granted' = IF isActive THEN granted \cup AssignmentsOf(role)
                  ELSE granted \ AssignmentsOf(role)
    /\ UNCHANGED <<session, page, visits>>

-----------------------------------------------------------------------------
ContextInit ==
    /\ granted = Assignment
    /\ session = FALSE
    /\ page = SignedOut
    /\ visits = [v \in Visit |-> NoVisit]

ContextNext ==
    \/ \E v \in Visit :
         \/ BeginLogin(v) \/ BeginRefresh(v) \/ SwitchToMissing(v)
         \/ \E c \in page.available : BeginSwitch(v, c)
         \/ Ask(v) \/ Load(v) \/ Fail(v)
         \/ FinishLogin(v) \/ FinishRefresh(v) \/ FinishSwitch(v)
    \/ Logout \/ SessionEnds \/ Reload
    \/ \E a \in Assignment :
         \/ ReplaceRoleAssignments(a)
         \/ \E isActive \in BOOLEAN : SetRoleActive(RoleOf[a], isActive)

ContextSpec == ContextInit /\ [][ContextNext]_contextVars

-----------------------------------------------------------------------------
(* The active context is one of those the page lists, whatever call came   *)
(* back last and however old the list was that it read: a switch and a     *)
(* refresh that cross never leave the context of one beside the list of    *)
(* the other.                                                              *)
ActiveIsAvailable == page.active \subseteq page.available
=============================================================================
