----------------------------- MODULE ConsoleDocs -----------------------------
(***************************************************************************)
(* The documentation fields of one API console request.  The server        *)
(* discovers fields in the definition at every save, at every start and on *)
(* a refresh, and response fields in the newest successful response on a   *)
(* refresh; it merges what it discovers with the rows the user has edited. *)
(* The page keeps a draft of the request and saves all of it; the editor   *)
(* stays open while a save or a refresh is awaited, and the answer takes   *)
(* the place of the draft.                                                 *)
(*                                                                         *)
(* A documentation row is known by its field; its text stands for all the  *)
(* columns the merge takes from the earlier row.                           *)
(***************************************************************************)
EXTENDS Naturals

CONSTANTS
    InputFields,    \* fields a definition may have
    OutputFields,   \* fields a response may have
    MaxDocCalls     \* bound on the page's calls under way

Field == InputFields \cup OutputFields

ASSUME DocsAssumption == InputFields \cap OutputFields = {} /\ MaxDocCalls \in Nat

VARIABLES
    orderly,      \* the page makes no call in this session while one is under way
    definition,   \* the input fields the saved definition has
    docs,         \* its saved documentation rows, by field
    draft,        \* selectedRequest: [fields, rows]
    savedRequest, \* what the page last heard the server holds
    docCalls,     \* the page's calls under way
    responses     \* successful executions and manual responses, oldest first

pageVars == <<draft, savedRequest>>
storeVars == <<orderly, definition, docs, responses>>
docsVars == <<pageVars, storeVars, docCalls>>

DocRow == [source : {"AUTO", "MANUAL"}, enabled : BOOLEAN, deprecated : BOOLEAN,
           text : {"", "written"}]
NoDocRow == [source |-> "NONE", enabled |-> FALSE, deprecated |-> FALSE, text |-> ""]
DocRows == [Field -> DocRow \cup {NoDocRow}]
Discovered == [source |-> "AUTO", enabled |-> TRUE, deprecated |-> FALSE, text |-> ""]
Draft == [fields : SUBSET InputFields, rows : DocRows]
EmptyDraft == [fields |-> {}, rows |-> [f \in Field |-> NoDocRow]]

\* The request awaited now (at), the draft the call carries or, when it carries
\* none, the saved row it is made of (from), the server's answer once it is there;
\* a call the page has given up is no longer awaited but may still be executed
DocSlot == 1..MaxDocCalls
DocCall == [kind : {"save", "refresh", "presave"}, at : {"put", "post", "get"}, from : Draft,
            answer : SUBSET Draft, awaited : BOOLEAN]
NoDocCall == [kind |-> "none", at |-> "none", from |-> EmptyDraft, answer |-> {}, awaited |-> FALSE]

DocsTypeOK ==
    /\ orderly \in BOOLEAN
    /\ definition \subseteq InputFields
    /\ docs \in DocRows
    /\ draft \in Draft
    /\ savedRequest \in Draft
    /\ docCalls \in [DocSlot -> DocCall \cup {NoDocCall}]
    /\ responses \in [kinds : SUBSET {"execution", "manual"}, latest : SUBSET OutputFields]

DocsInit ==
    /\ orderly \in BOOLEAN
    /\ definition = {}
    /\ docs = EmptyDraft.rows
    /\ draft = EmptyDraft
    /\ savedRequest = EmptyDraft
    /\ docCalls = [k \in DocSlot |-> NoDocCall]
    /\ responses = [kinds |-> {}, latest |-> {}]

-------------------------------------------------------------------------------
(* mergeDocumentationParameters for one field: a row found again keeps what the *)
(* user made of it, a row no longer found is retired if it was found by itself  *)
MergedRowAnew(row, found) ==
    IF found THEN Discovered
    ELSE IF row.source = "AUTO" THEN [row EXCEPT !.enabled = FALSE, !.deprecated = TRUE] ELSE row

MergedRow(row, found) ==
    IF found
    THEN IF row = NoDocRow THEN Discovered ELSE [row EXCEPT !.deprecated = FALSE]
    ELSE IF row.source = "AUTO" THEN [row EXCEPT !.enabled = FALSE, !.deprecated = TRUE] ELSE row

Merge(rs, found, scope) == [f \in Field |-> IF f \in scope THEN MergedRow(rs[f], f \in found)
                                           ELSE rs[f]]

(* refreshDocumentationMetadata at a save and at a start: no response is given *)
SavedRows(rs, fields) == Merge(rs, fields, InputFields)

(* refreshDocumentationMetadata on request: the newest response counts as well *)
RefreshedRows(rs, fields) ==
    LET withInputs == SavedRows(rs, fields)
    IN  IF responses.kinds = {} THEN withInputs
        ELSE Merge(withInputs, responses.latest, OutputFields)

-------------------------------------------------------------------------------
(* The editor *)
Edited(new) == draft' = new /\ UNCHANGED <<savedRequest, storeVars, docCalls>>

EditFields(fs) == Edited([draft EXCEPT !.fields = fs])

WriteText(f) ==
    /\ draft.rows[f] # NoDocRow
    /\ Edited([draft EXCEPT !.rows[f].text = "written"])

ToggleField(f) ==
    /\ draft.rows[f] # NoDocRow
    /\ Edited([draft EXCEPT !.rows[f].enabled = ~@])

AddField(f) ==
    /\ draft.rows[f] = NoDocRow
    /\ Edited([draft EXCEPT !.rows[f] = [Discovered EXCEPT !.source = "MANUAL"]])

RemoveField(f) ==
    /\ draft.rows[f] # NoDocRow
    /\ Edited([draft EXCEPT !.rows[f] = NoDocRow])

-------------------------------------------------------------------------------
(* The page's calls *)
ServerRow == [fields |-> definition, rows |-> docs]

Awaits(kind) == \E k \in DocSlot : docCalls[k].kind = kind /\ docCalls[k].awaited

SendCall(k, kind, at, from) ==
    /\ docCalls[k] = NoDocCall
    /\ \A j \in DocSlot : IF orderly THEN docCalls[j] = NoDocCall
                                     ELSE j < k => docCalls[j] # NoDocCall
    /\ docCalls' = [docCalls EXCEPT ![k] = [kind |-> kind, at |-> at, from |-> from,
                                           answer |-> {}, awaited |-> TRUE]]
    /\ UNCHANGED <<pageVars, storeVars>>

(* The button is off until the list that follows the PUT is read *)
SendSave(k) == ~Awaits("save") /\ SendCall(k, "save", "put", draft)

(* A refresh saves unsaved changes first *)
SendRefresh(k) ==
    /\ ~Awaits("refresh")
    /\ \/ draft # savedRequest /\ SendCall(k, "refresh", "put", draft)
       \/ draft = savedRequest /\ SendCall(k, "refresh", "post", ServerRow)

(* The PUT of unsaved changes before an execution or a document *)
SendPresave(k) == draft # savedRequest /\ SendCall(k, "presave", "put", draft)

(* The server has executed a request; nobody waits for the answer of one given up *)
Served(k) ==
    /\ docCalls' = [docCalls EXCEPT ![k] = IF @.awaited THEN [@ EXCEPT !.answer = {ServerRow'}]
                                          ELSE NoDocCall]
    /\ UNCHANGED <<pageVars, orderly, responses>>

IsDue(k, at) == docCalls[k].at = at /\ docCalls[k].answer = {}

ServePutAsIs(k) ==
    /\ IsDue(k, "put")
    /\ definition' = docCalls[k].from.fields
    /\ docs' = docCalls[k].from.rows
    /\ Served(k)

ServePut(k) ==
    /\ IsDue(k, "put")
    /\ definition' = docCalls[k].from.fields
    /\ docs' = SavedRows(docCalls[k].from.rows, docCalls[k].from.fields)
    /\ Served(k)

ServePost(k) ==
    /\ IsDue(k, "post")
    /\ docs' = RefreshedRows(docs, definition)
    /\ UNCHANGED definition
    /\ Served(k)

ServeGet(k) ==
    /\ IsDue(k, "get")
    /\ UNCHANGED <<definition, docs>>
    /\ Served(k)

-------------------------------------------------------------------------------
(* The page after an await *)
Shows(k) == \E a \in docCalls[k].answer : draft' = a /\ savedRequest' = a

GoesOn(k, at) ==
    /\ docCalls' = [docCalls EXCEPT ![k].at = at, ![k].answer = {}]
    /\ UNCHANGED storeVars

(* handleSave shows what the PUT returned and reads the list *)
SavePutAnswered(k) ==
    /\ docCalls[k].kind = "save" /\ docCalls[k].at = "put"
    /\ Shows(k)
    /\ GoesOn(k, "get")

(* handleRefreshDocumentation shows nothing yet *)
RefreshPutAnswered(k) ==
    /\ docCalls[k].kind = "refresh" /\ docCalls[k].at = "put"
    /\ docCalls[k].answer # {}
    /\ GoesOn(k, "post")
    /\ UNCHANGED pageVars

LastAnswered(k) ==
    /\ docCalls[k].kind = "presave" \/ docCalls[k].at # "put"
    /\ Shows(k)
    /\ docCalls' = [docCalls EXCEPT ![k] = NoDocCall]
    /\ UNCHANGED storeVars

(* An error or a lost answer: the page keeps its draft, and a request that the   *)
(* server has not executed yet may still reach it                                *)
LoseDocCall(k) ==
    /\ docCalls[k].awaited
    /\ docCalls' = [docCalls EXCEPT ![k] = IF @.answer = {} /\ @.at # "get"
                                          THEN [@ EXCEPT !.awaited = FALSE] ELSE NoDocCall]
    /\ UNCHANGED <<pageVars, storeVars>>

DropDocCall(k) ==
    /\ docCalls[k] # NoDocCall /\ ~docCalls[k].awaited
    /\ docCalls' = [docCalls EXCEPT ![k] = NoDocCall]
    /\ UNCHANGED <<pageVars, storeVars>>

-------------------------------------------------------------------------------
(* A successful execution with a body, or a manual response: the newest of both *)
(* kinds is the evidence                                                        *)
GetResponse(kind, fs) ==
    /\ responses' = [kinds |-> responses.kinds \cup {kind}, latest |-> fs]
    /\ UNCHANGED <<pageVars, orderly, definition, docs, docCalls>>

(* ensureRequestApiFields when the server starts *)
RestartDocs ==
    /\ docs' = SavedRows(docs, definition)
    /\ UNCHANGED <<pageVars, orderly, definition, docCalls, responses>>

DocsNext ==
    \/ \E fs \in SUBSET InputFields : EditFields(fs)
    \/ \E f \in Field : WriteText(f) \/ ToggleField(f) \/ AddField(f) \/ RemoveField(f)
    \/ \E k \in DocSlot :
          \/ SendSave(k) \/ SendRefresh(k) \/ SendPresave(k)
          \/ ServePut(k) \/ ServePost(k) \/ ServeGet(k)
          \/ SavePutAnswered(k) \/ RefreshPutAnswered(k) \/ LastAnswered(k)
          \/ LoseDocCall(k) \/ DropDocCall(k)
    \/ \E kind \in {"execution", "manual"}, fs \in SUBSET OutputFields : GetResponse(kind, fs)
    \/ RestartDocs

DocsSpec == DocsInit /\ [][DocsNext]_docsVars

-------------------------------------------------------------------------------
(* When an answer takes the place of the draft, every text of the draft that was *)
(* sent is still there and no field that was off in it is on, whatever restarts, *)
(* responses, losses and late executions came between; so in a session without   *)
(* overlapping calls.  What is typed after the call was made is not in it        *)
UserChoicesSurvive ==
    [][orderly => \A k \in DocSlot :
          draft' \in docCalls[k].answer /\ docCalls'[k] # docCalls[k] =>
             \A f \in Field : LET sent == docCalls[k].from.rows[f] IN
                /\ sent.text = "written" => draft'.rows[f].text = "written"
                /\ sent # NoDocRow /\ ~sent.enabled => ~draft'.rows[f].enabled]_docsVars

(* What is saved is already merged: a restart, which merges again without any   *)
(* response, gives every row back as it was                                     *)
RestartKeepsDocs == SavedRows(docs, definition) = docs
===============================================================================
