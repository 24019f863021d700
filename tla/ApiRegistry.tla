----------------------------- MODULE ApiRegistry -----------------------------
(***************************************************************************)
(* The store of the online API console (api-console-server.cjs): request   *)
(* rows and their versions, the share requests that QA leads review, the   *)
(* repository of published versions with its consumers, the references     *)
(* users take from it, and executions, which are the only calls that yield *)
(* between reading a row and recording a result.  The editors' side is the *)
(* copy of a whole row each user's page holds: it saves that copy, however *)
(* old, with one PUT.                                                      *)
(*                                                                         *)
(* Every call but execute runs to its saveStore without yielding, so it is *)
(* one action.  A rowVersion is drawn anew whenever a share's status or    *)
(* revisions change, so the pair of them stands for it.                    *)
(***************************************************************************)
EXTENDS Naturals, FiniteSets, Sequences

CONSTANTS
    Users,        \* owners and consumers of APIs
    Reviewers,    \* QA leads, one review screen each
    Apps,         \* the applications, all in everyone's scope
    MaxRows,      \* bound on the request rows ever created
    MaxVersion,   \* bound on the semantic versions of an API
    MaxShares,    \* bound on the share requests
    MaxRevisions, \* bound on the revisions of one share request
    Defs,         \* contents a request definition can have
    FirstDef,     \* the content of a new request
    MaxFlights,   \* bound on the executions under way
    ConsumerLists, \* the lists of consumers reviewers choose
    Operations    \* the operations of this instance

ASSUME RegistryAssumption ==
    /\ {MaxRows, MaxVersion, MaxShares, MaxRevisions, MaxFlights} \subseteq Nat
    /\ MaxVersion > 0
    /\ FirstDef \in Defs
    /\ "ROLE" \notin Users
    /\ ConsumerLists \subseteq SUBSET (Users \cup {"ROLE"})

VARIABLES
    rows,        \* store.requests: rows[r], numbered in the order of creation
    shares,      \* store.shareRequests
    consumers,   \* store.consumers, of each API and version
    receipts,    \* store.readReceipts: the latest of each user, API and version
    collections, \* the owner and application of every collection
    references,  \* store.references, by the row each of them made
    tabs,        \* the copy of a row in each user's page
    screens,     \* the share request each reviewer has open
    flights,     \* executions that wait for the target's answer
    evidence     \* store.executions

sharingVars == <<shares, consumers, receipts, screens>>
registryVars == <<rows, shares, consumers, receipts, collections, references, tabs, screens,
                  flights, evidence>>

Row == 1..MaxRows
Ver == 1..MaxVersion
Share == 1..MaxShares
Consumer == Users \cup {"ROLE"}
Sharing == {"DRAFT", "PENDING_REVIEW", "APPROVED", "RETURNED"}
Collection == Users \X Apps

RowRecord == [status : {"UNUSED", "ACTIVE", "ARCHIVED"}, sharing : Sharing,
              sourceType : {"ORIGINAL", "REFERENCE"}, api : 0..MaxRows, version : 0..MaxVersion,
              owner : SUBSET Users, app : SUBSET Apps, collection : SUBSET Collection, def : Defs]
NoRow == [status |-> "UNUSED", sharing |-> "DRAFT", sourceType |-> "ORIGINAL", api |-> 0,
          version |-> 0, owner |-> {}, app |-> {}, collection |-> {}, def |-> FirstDef]

Revision == [content : Defs, status : {"PENDING_REVIEW", "APPROVED", "RETURNED"}]
ShareRecord == [row : 0..MaxRows, status : Sharing, revisions : Seq(Revision)]
NoShare == [row |-> 0, status |-> "DRAFT", revisions |-> <<>>]

NoTab == [row |-> 0, copy |-> NoRow]
Rev == 0..MaxRevisions
RowVersions == [status : Sharing, revisions : Rev]
NoScreen == [share |-> 0, rowVersion |-> [status |-> "DRAFT", revisions |-> 0], content |-> {}]

RegistryTypeOK ==
    /\ rows \in [Row -> RowRecord]
    /\ shares \in [Share -> ShareRecord]
    /\ consumers \in [Row \X Ver -> SUBSET Consumer]
    /\ receipts \in [Users \X Row \X Ver -> {"none", "notified", "viewed"}]
    /\ collections \subseteq Collection
    /\ references \in [Row -> {"none", "ACTIVE", "REMOVED"}]
    /\ tabs \in [Users -> [row : 0..MaxRows, copy : RowRecord]]
    /\ screens \in [Reviewers -> [share : 0..MaxShares, rowVersion : RowVersions,
                                  content : SUBSET Defs]]
    /\ flights \subseteq [row : Row, sent : Defs, object : Defs]
    /\ evidence \subseteq [row : Row, sent : Defs, checked : Defs]

RegistryInit ==
    /\ rows = [r \in Row |-> NoRow]
    /\ shares = [s \in Share |-> NoShare]
    /\ consumers = [p \in Row \X Ver |-> {}]
    /\ receipts = [p \in Users \X Row \X Ver |-> "none"]
    /\ collections = {}
    /\ references = [r \in Row |-> "none"]
    /\ tabs = [u \in Users |-> NoTab]
    /\ screens = [k \in Reviewers |-> NoScreen]
    /\ flights = {}
    /\ evidence = {}

-------------------------------------------------------------------------------
(* Lookups.  store.requests and store.shareRequests are unshifted, so find()*)
(* returns the newest row or share that fits.                               *)
Used(r) == rows[r].status # "UNUSED"
IsFreshRow(r) == ~Used(r) /\ \A q \in Row : q < r => Used(q)
IsFreshShare(s) == shares[s].row = 0 /\ \A t \in Share : t < s => shares[t].row # 0
Owns(u, r) == Used(r) /\ rows[r].owner = {u}
Key(r) == <<rows[r].api, rows[r].version>>

RowVersion(s) == [status |-> shares[s].status, revisions |-> Len(shares[s].revisions)]
LastRevision(s) == shares[s].revisions[Len(shares[s].revisions)]

(* What the repository lists: approved originals that are not archived *)
Published(r) ==
    /\ rows[r].status = "ACTIVE"
    /\ rows[r].sourceType = "ORIGINAL"
    /\ rows[r].sharing = "APPROVED"
IsSource(r) ==
    Published(r) /\ \A q \in Row : Published(q) /\ Key(q) = Key(r) => q <= r

ConsumerMatches(c, u) == c \in {u, "ROLE"}
CanAccess(u, r) == rows[r].owner = {u} \/ \E c \in consumers[Key(r)] : ConsumerMatches(c, u)

HasReference(u, r) ==
    \E q \in Row : references[q] = "ACTIVE" /\ rows[q].owner = {u} /\ Key(q) = Key(r)

-------------------------------------------------------------------------------
(* Collections and rows *)
CreateCollection(u, a) ==
    /\ <<u, a>> \notin collections
    /\ collections' = collections \cup {<<u, a>>}
    /\ UNCHANGED <<rows, sharingVars, references, tabs, flights, evidence>>

NewRow(r, u, c) ==
    [status |-> "ACTIVE", sharing |-> "DRAFT", sourceType |-> "ORIGINAL", api |-> r,
     version |-> 1, owner |-> {u}, app |-> {c[2]}, collection |-> {c}, def |-> FirstDef]

(* POST requests, requests/blank and every request of an import *)
CreateRequest(u, c) ==
    /\ c \in collections
    /\ c[1] = u
    /\ \E r \in Row :
          /\ IsFreshRow(r)
          /\ rows' = [rows EXCEPT ![r] = NewRow(r, u, c)]
    /\ UNCHANGED <<sharingVars, collections, references, tabs, flights, evidence>>

(* GET of one row into the page of its owner *)
OpenTab(u, r) ==
    /\ Owns(u, r)
    /\ tabs' = [tabs EXCEPT ![u] = [row |-> r, copy |-> rows[r]]]
    /\ UNCHANGED <<rows, sharingVars, collections, references, flights, evidence>>

(* upsertRequestWithPatch: the page sends its whole copy, every field of it *)
Patched(u, d) == [tabs[u].copy EXCEPT !.def = d]

(* PUT of a row: refused with 422 when its collection is of another system *)
SaveRow(u, d) ==
    LET r == tabs[u].row
    IN  /\ r # 0
        /\ \A c \in tabs[u].copy.collection : {c[2]} = rows[r].app
        /\ rows' = [rows EXCEPT ![r] = Patched(u, d)]
        /\ tabs' = [tabs EXCEPT ![u].copy = Patched(u, d)]
        /\ UNCHANGED <<sharingVars, collections, references, flights, evidence>>

ArchiveRow(u, r) ==
    /\ Owns(u, r)
    /\ rows' = [rows EXCEPT ![r].status = "ARCHIVED"]
    /\ UNCHANGED <<sharingVars, collections, references, tabs, flights, evidence>>

(* The clone that becomes a new version is a draft of the caller's own *)
NextVersionBeyond(r, v) == [rows[r] EXCEPT !.version = v + 1, !.sharing = "DRAFT"]
NextVersionShared(r, v) == [rows[r] EXCEPT !.version = v]
NextVersion(r, v) == [rows[r] EXCEPT !.version = v, !.sharing = "DRAFT"]

CreateVersion(u, r, v) ==
    /\ Owns(u, r)
    /\ rows[r].sourceType = "ORIGINAL"
    /\ v > rows[r].version
    /\ \A q \in Row : rows[q].status = "ACTIVE" /\ rows[q].sourceType = "ORIGINAL"
                         => Key(q) # <<rows[r].api, v>>
    /\ \E q \in Row :
          /\ IsFreshRow(q)
          /\ rows' = [rows EXCEPT ![q] = NextVersion(r, v)]
    /\ UNCHANGED <<sharingVars, collections, references, tabs, flights, evidence>>

-------------------------------------------------------------------------------
(* Sharing and review *)
(* The newest returned share of the row is submitted again; with none, a new one *)
TargetShare(r) ==
    LET returned == {s \in Share : shares[s].row = r /\ shares[s].status = "RETURNED"}
    IN  {s \in returned : \A t \in returned : t <= s}
        \cup {s \in Share : returned = {} /\ IsFreshShare(s)}

ShareRow(u, r) ==
    /\ Owns(u, r)
    /\ rows[r].sourceType = "ORIGINAL"
    /\ rows[r].sharing # "PENDING_REVIEW"
    /\ \E s \in TargetShare(r) :
          /\ Len(shares[s].revisions) < MaxRevisions
          /\ shares' = [shares EXCEPT ![s] =
                           [row |-> r, status |-> "PENDING_REVIEW",
                            revisions |-> Append(@.revisions, [content |-> rows[r].def,
                                                               status |-> "PENDING_REVIEW"])]]
    /\ rows' = [rows EXCEPT ![r].sharing = "PENDING_REVIEW"]
    /\ UNCHANGED <<consumers, receipts, screens, collections, references, tabs, flights,
                   evidence>>

(* GET of a share: the review screen shows the submitted snapshot *)
OpenReview(k, s) ==
    /\ shares[s].row # 0
    /\ screens' = [screens EXCEPT ![k] = [share |-> s, rowVersion |-> RowVersion(s),
                                          content |-> {LastRevision(s).content}]]
    /\ UNCHANGED <<rows, shares, consumers, receipts, collections, references, tabs, flights,
                   evidence>>

(* The checks both decisions make of the share the reviewer has open *)
CanDecideStale(k, s) == screens[k].share = s /\ shares[s].status = "PENDING_REVIEW"
CanDecide(k, s) ==
    /\ screens[k].share = s
    /\ shares[s].status = "PENDING_REVIEW"
    /\ screens[k].rowVersion = RowVersion(s)

DecidedThroughout(s, verdict) ==
    [shares[s] EXCEPT !.status = verdict,
                      !.revisions = [n \in DOMAIN @ |-> [@[n] EXCEPT !.status = verdict]]]
Decided(s, verdict) ==
    [shares[s] EXCEPT !.status = verdict, !.revisions[Len(shares[s].revisions)].status = verdict]

ApproveShare(k, s, cs) ==
    LET r == shares[s].row
    IN  /\ CanDecide(k, s)
        /\ cs # {}
        /\ shares' = [shares EXCEPT ![s] = Decided(s, "APPROVED")]
        /\ consumers' = [consumers EXCEPT ![Key(r)] = cs]
        /\ receipts' = [p \in DOMAIN receipts |->
                           IF p[1] \in cs /\ <<p[2], p[3]>> = Key(r) THEN "notified"
                           ELSE receipts[p]]
        /\ rows' = [rows EXCEPT ![r].sharing = "APPROVED"]
        /\ screens' = [screens EXCEPT ![k] = NoScreen]
        /\ UNCHANGED <<collections, references, tabs, flights, evidence>>

ReturnShare(k, s) ==
    /\ CanDecide(k, s)
    /\ shares' = [shares EXCEPT ![s] = Decided(s, "RETURNED")]
    /\ rows' = [rows EXCEPT ![shares[s].row].sharing = "RETURNED"]
    /\ screens' = [screens EXCEPT ![k] = NoScreen]
    /\ UNCHANGED <<consumers, receipts, collections, references, tabs, flights, evidence>>

-------------------------------------------------------------------------------
(* The repository and the references taken from it *)
UpdateConsumers(r, cs) ==
    /\ Used(r)
    /\ rows[r].sourceType = "ORIGINAL"
    /\ rows[r].sharing = "APPROVED"
    /\ cs # {}
    /\ consumers' = [consumers EXCEPT ![Key(r)] = cs]
    /\ UNCHANGED <<rows, shares, receipts, screens, collections, references, tabs, flights,
                   evidence>>

(* The collection the page names if it is the user's, else the user's one of *)
(* the application, else a new one                                           *)
PlacedIn(u, r, named) ==
    IF named \cap collections # {} THEN named ELSE {u} \X rows[r].app

ReferenceRow(u, r, c) ==
    [rows[r] EXCEPT !.sourceType = "REFERENCE", !.owner = {u}, !.collection = c,
                    !.status = "ACTIVE", !.sharing = "APPROVED"]

AddToConsole(u, r, named) ==
    LET c == PlacedIn(u, r, named)
    IN  /\ IsSource(r)
        /\ CanAccess(u, r)
        /\ ~HasReference(u, r)
        /\ \A n \in named : n[1] = u
        /\ collections' = collections \cup c
        /\ \E q \in Row :
              /\ IsFreshRow(q)
              /\ rows' = [rows EXCEPT ![q] = ReferenceRow(u, r, c)]
              /\ references' = [references EXCEPT ![q] = "ACTIVE"]
        /\ UNCHANGED <<sharingVars, tabs, flights, evidence>>

MarkViewed(u, r) ==
    /\ IsSource(r)
    /\ CanAccess(u, r)
    /\ receipts' = [receipts EXCEPT ![<<u, rows[r].api, rows[r].version>>] = "viewed"]
    /\ UNCHANGED <<rows, shares, consumers, screens, collections, references, tabs, flights,
                   evidence>>

RemoveReference(u, q) ==
    /\ references[q] # "none"
    /\ rows[q].owner = {u}
    /\ references' = [references EXCEPT ![q] = "REMOVED"]
    /\ rows' = [rows EXCEPT ![q].status = "ARCHIVED"]
    /\ UNCHANGED <<sharingVars, collections, tabs, flights, evidence>>

-------------------------------------------------------------------------------
(* Executions *)
(* executeRequest up to its await: the request that is sent is resolved from *)
(* a clone, and the row object is kept for the assertions                    *)
StartExecution(u, r) ==
    /\ Owns(u, r)
    /\ Cardinality(flights) < MaxFlights
    /\ flights' = flights \cup {[row |-> r, sent |-> rows[r].def, object |-> rows[r].def]}
    /\ UNCHANGED <<rows, sharingVars, collections, references, tabs, evidence>>

(* The content the kept object has now: a PUT replaces the object in the store *)
CheckedAgainstStored(f) == rows[f.row].def
CheckedAgainst(f) == f.object

(* The answer, or the error that stands for it, is checked and recorded *)
FinishExecution(f) ==
    /\ flights' = flights \ {f}
    /\ evidence' = evidence \cup {[row |-> f.row, sent |-> f.sent, checked |-> CheckedAgainst(f)]}
    /\ UNCHANGED <<rows, sharingVars, collections, references, tabs>>

(* The server starts again from its store file *)
RestartConsole ==
    /\ flights # {}
    /\ flights' = {}
    /\ UNCHANGED <<rows, sharingVars, collections, references, tabs, evidence>>

-------------------------------------------------------------------------------
Op(name) == name \in Operations

RowOperation(u) ==
    \/ \E a \in Apps : Op("collection") /\ CreateCollection(u, a)
    \/ \E c \in Collection : Op("create") /\ CreateRequest(u, c)
    \/ \E r \in Row : Op("save") /\ OpenTab(u, r)
    \/ \E d \in Defs : Op("save") /\ SaveRow(u, d)
    \/ \E r \in Row : Op("archive") /\ ArchiveRow(u, r)
    \/ \E r \in Row, v \in Ver : Op("version") /\ CreateVersion(u, r, v)

SharingOperation ==
    \/ \E u \in Users, r \in Row : Op("share") /\ ShareRow(u, r)
    \/ \E k \in Reviewers, s \in Share : Op("share") /\ OpenReview(k, s)
    \/ \E k \in Reviewers, s \in Share, cs \in ConsumerLists :
          Op("share") /\ ApproveShare(k, s, cs)
    \/ \E k \in Reviewers, s \in Share : Op("share") /\ ReturnShare(k, s)

RepositoryOperation ==
    \/ \E r \in Row, cs \in ConsumerLists : Op("consumers") /\ UpdateConsumers(r, cs)
    \/ \E u \in Users, r \in Row, named \in {{}} \cup {{c} : c \in Collection} :
          Op("reference") /\ AddToConsole(u, r, named)
    \/ \E u \in Users, r \in Row : Op("viewed") /\ MarkViewed(u, r)
    \/ \E u \in Users, q \in Row : Op("reference") /\ RemoveReference(u, q)

ExecutionStep ==
    \/ \E u \in Users, r \in Row : Op("execute") /\ StartExecution(u, r)
    \/ \E f \in flights : FinishExecution(f)
    \/ RestartConsole

RegistryNext ==
    \/ \E u \in Users : RowOperation(u)
    \/ SharingOperation
    \/ RepositoryOperation
    \/ ExecutionStep

RegistrySpec == RegistryInit /\ [][RegistryNext]_registryVars

-------------------------------------------------------------------------------
(* A reviewer decides the very revision that was read: a decision sent from a  *)
(* screen that has been overtaken by another decision and a new submission is  *)
(* refused by the rowVersion check of approve and return                       *)
DecidesWhatWasRead ==
    [][\A s \in Share :
          shares[s].status = "PENDING_REVIEW" /\ shares'[s].status # "PENDING_REVIEW"
             => \E k \in Reviewers : /\ screens[k].share = s
                                     /\ screens[k].content = {LastRevision(s).content}
                                     /\ screens'[k] = NoScreen]_registryVars

(* Revisions are history: a share only gains them, the submitted content of one *)
(* never changes and its verdict is given once                                  *)
RevisionHistory ==
    [][\A s \in Share :
          /\ Len(shares'[s].revisions) >= Len(shares[s].revisions)
          /\ \A n \in 1..Len(shares[s].revisions) :
                /\ shares'[s].revisions[n].content = shares[s].revisions[n].content
                /\ shares[s].revisions[n].status # "PENDING_REVIEW"
                      => shares'[s].revisions[n] = shares[s].revisions[n]]_registryVars

(* The rows from which a row's content may have been published: itself, or for *)
(* a reference the original of its API and version                             *)
WasApproved(api, version) ==
    \E s \in Share : /\ shares[s].row # 0
                     /\ rows[shares[s].row].api = api
                     /\ rows[shares[s].row].version = version
                     /\ \E n \in 1..Len(shares[s].revisions) :
                           shares[s].revisions[n].status = "APPROVED"

(* Whatever old copies the pages save back, a row is published, and a reference *)
(* to it exists, only for a version a QA lead approved at least once: a new     *)
(* version of an approved API starts unpublished                                *)
PublishedWasApproved ==
    \A r \in Row : Used(r) /\ rows[r].sharing = "APPROVED"
                      => WasApproved(rows[r].api, rows[r].version)

(* The assertions recorded with an execution are those of the definition that  *)
(* was sent, although the owner may save another one while the answer is due   *)
EvidenceIsOfOneDefinition == \A e \in evidence : e.sent = e.checked

===============================================================================
