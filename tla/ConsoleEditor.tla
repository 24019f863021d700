---------------------------- MODULE ConsoleEditor ----------------------------
(***************************************************************************)
(* How OnlineApiConsolePage loads one request and what belongs to it: the  *)
(* row the user selects, the derived views (effective request, history,    *)
(* manual responses, exports) of the selected row, the reload that follows *)
(* a save, and executions.  Calls are answered in any order; the sequence  *)
(* numbers the page keeps tell an answer whether a newer call of its kind  *)
(* has been made, so here a call is marked stale when one is.              *)
(*                                                                         *)
(* A session is calm when no call fails and nothing is saved or executed.  *)
(***************************************************************************)
EXTENDS Naturals, FiniteSets

CONSTANTS
    ListedRows,      \* the rows in the list
    NoneSelected,    \* no row
    Environments,    \* the environments a request can be run in
    MaxCalls         \* bound on the calls under way

ASSUME EditorAssumption == NoneSelected \notin ListedRows /\ MaxCalls \in Nat

VARIABLES
    calm,      \* no call fails and nothing is saved or executed in this session
    stored,    \* the environment saved with each row
    mode,      \* pageMode
    selected,  \* selectedRequest
    shown,     \* the row whose history and exports the page shows
    selecting, \* selectingRequestId
    loading,   \* detailsLoading
    suppress,  \* suppressNextDerivedRefreshRef
    calls      \* calls under way

editorVars == <<calm, stored, mode, selected, shown, selecting, loading, suppress, calls>>

NoRequestKey == [row |-> NoneSelected, env |-> NoneSelected]
RequestKey == [row : ListedRows, env : Environments] \cup {NoRequestKey}
CallKind == {"select", "derived", "reload", "save", "presave", "execute"}
Call == [kind : CallKind, key : RequestKey, newest : BOOLEAN]

EditorTypeOK ==
    /\ calm \in BOOLEAN
    /\ stored \in [ListedRows -> Environments]
    /\ mode \in {"list", "editor"}
    /\ {selected, suppress} \subseteq RequestKey
    /\ {shown, selecting} \subseteq ListedRows \cup {NoneSelected}
    /\ loading \in BOOLEAN
    /\ calls \subseteq Call

EditorInit ==
    /\ calm \in BOOLEAN
    /\ stored \in {[r \in ListedRows |-> e] : e \in Environments}
    /\ mode = "list"
    /\ selected = NoRequestKey
    /\ shown = NoneSelected
    /\ selecting = NoneSelected
    /\ loading = FALSE
    /\ suppress = NoRequestKey
    /\ calls = {}

-------------------------------------------------------------------------------
(* A call of a kind takes the next number of its sequence: older ones are stale *)
Overtaken(cs, kinds) == {IF c.kind \in kinds THEN [c EXCEPT !.newest = FALSE] ELSE c : c \in cs}
Sent(cs, kind, key) == Overtaken(cs, {kind}) \cup {[kind |-> kind, key |-> key, newest |-> TRUE]}
Room == Cardinality(calls) < MaxCalls
KeyOf(r) == [row |-> r, env |-> stored[r]]

(* The effect on the id, environment and mode of the selected request, run when *)
(* they change: it refreshes the derived views unless told to skip this once    *)
SelectionEffect(key, cs, token) ==
    IF key = selected \/ key = token THEN cs ELSE Sent(cs, "derived", key)
TokenLeftNone(key, token) == IF key # selected /\ key = token THEN NoneSelected ELSE token
TokenLeft(key, token) == IF key # selected /\ key = token THEN NoRequestKey ELSE token
EffectLoads(key, token) == key # selected /\ key # token

SetSelected(key, cs, token, busy) ==
    /\ selected' = key
    /\ calls' = SelectionEffect(key, cs, token)
    /\ suppress' = TokenLeft(key, token)
    /\ loading' = (busy \/ EffectLoads(key, token))

-------------------------------------------------------------------------------
(* handleSelectRequest up to its await: a click on a row of the list *)
SelectRow(r) ==
    /\ mode = "list"
    /\ Room
    /\ selecting # r
    /\ selecting' = r
    /\ loading' = TRUE
    /\ shown' = NoneSelected
    /\ calls' = Sent(calls, "select", KeyOf(r))
    /\ UNCHANGED <<calm, stored, mode, selected, suppress>>

(* The rest of it: the request arrives and is selected, unless a later click or *)
(* reload has taken over                                                        *)
SelectAnswered(c) ==
    /\ c.kind = "select"
    /\ IF c.newest
       THEN SetSelected(c.key, calls \ {c}, suppress, loading)
       ELSE calls' = calls \ {c} /\ UNCHANGED <<selected, suppress, loading>>
    /\ mode' = IF c.newest THEN "editor" ELSE mode
    /\ UNCHANGED <<calm, stored, shown, selecting>>

SelectFailed(c) ==
    /\ c.kind = "select"
    /\ ~calm
    /\ calls' = calls \ {c}
    /\ selecting' = IF c.newest THEN NoneSelected ELSE selecting
    /\ loading' = (loading /\ ~c.newest)
    /\ UNCHANGED <<calm, stored, mode, selected, shown, suppress>>

(* refreshDerivedViews after its await *)
DerivedAnsweredUnchecked(c) ==
    /\ c.kind = "derived"
    /\ calls' = calls \ {c}
    /\ shown' = c.key.row
    /\ loading' = (loading /\ ~c.newest)
    /\ selecting' = IF c.newest /\ selecting = c.key.row THEN NoneSelected ELSE selecting
    /\ UNCHANGED <<calm, stored, mode, selected, suppress>>

DerivedAnswered(c) ==
    /\ c.kind = "derived"
    /\ calls' = calls \ {c}
    /\ shown' = IF c.newest THEN c.key.row ELSE shown
    /\ loading' = (loading /\ ~c.newest)
    /\ selecting' = IF c.newest /\ selecting = c.key.row THEN NoneSelected ELSE selecting
    /\ UNCHANGED <<calm, stored, mode, selected, suppress>>

DerivedFailed(c) ==
    /\ c.kind = "derived"
    /\ ~calm
    /\ calls' = calls \ {c}
    /\ loading' = (loading /\ ~c.newest)
    /\ selecting' = IF c.newest /\ selecting = c.key.row THEN NoneSelected ELSE selecting
    /\ UNCHANGED <<calm, stored, mode, selected, shown, suppress>>

-------------------------------------------------------------------------------
(* updateDraft of the environment: the draft alone changes, and the effect runs *)
ChangeEnvironment(e) ==
    /\ mode = "editor"
    /\ selected.row \in ListedRows
    /\ selected.env # e
    /\ Room
    /\ SetSelected([selected EXCEPT !.env = e], calls, suppress, loading)
    /\ UNCHANGED <<calm, stored, mode, shown, selecting>>

Idle(kinds) == \A c \in calls : c.kind \notin kinds

(* handleSave up to the answer of its PUT *)
Save ==
    /\ ~calm
    /\ mode = "editor"
    /\ selected.row \in ListedRows
    /\ Room
    /\ Idle({"save"})
    /\ calls' = Sent(calls, "save", selected)
    /\ UNCHANGED <<calm, stored, mode, selected, shown, selecting, loading, suppress>>

(* The rest of it: the saved row is selected, whatever the user has moved to,  *)
(* and the rows are read again                                                 *)
SaveAnswered(c) ==
    /\ c.kind = "save"
    /\ stored' = [stored EXCEPT ![c.key.row] = c.key.env]
    /\ SetSelected(c.key, Sent(Overtaken(calls \ {c}, {"select"}), "reload", c.key),
                   suppress, loading)
    /\ UNCHANGED <<calm, mode, shown, selecting>>

(* handleBackToList and the filters: the list alone is read again *)
ReloadList ==
    /\ Room
    /\ calls' = Sent(calls, "reload", NoRequestKey)
    /\ mode' = "list"
    /\ UNCHANGED <<calm, stored, selected, shown, selecting, loading, suppress>>

(* reloadRequests after its await: the saved row is selected anew with its      *)
(* derived views asked for at once, and the effect is told to skip that change  *)
ReloadAnswered(c) ==
    LET r == c.key.row
    IN  /\ c.kind = "reload"
        /\ IF c.newest /\ r \in ListedRows
           THEN /\ selecting' = r
                /\ mode' = "editor"
                /\ shown' = NoneSelected
                /\ SetSelected(KeyOf(r), Sent(calls \ {c}, "derived", KeyOf(r)), KeyOf(r), TRUE)
           ELSE /\ calls' = calls \ {c}
                /\ UNCHANGED <<mode, selecting, shown, selected, suppress, loading>>
        /\ UNCHANGED <<calm, stored>>

(* executeSelected: an edited request is saved first, and executed after that *)
Execute ==
    /\ ~calm
    /\ mode = "editor"
    /\ Room
    /\ selected.row \in ListedRows
    /\ Idle({"presave", "execute"})
    /\ calls' = Sent(calls, IF stored[selected.row] = selected.env THEN "execute"
                            ELSE "presave", selected)
    /\ UNCHANGED <<calm, stored, mode, selected, shown, selecting, loading, suppress>>

ExecuteSaved(c) ==
    /\ c.kind = "presave"
    /\ stored' = [stored EXCEPT ![c.key.row] = c.key.env]
    /\ SetSelected(c.key, Sent(calls \ {c}, "execute", c.key), suppress, loading)
    /\ UNCHANGED <<calm, mode, shown, selecting>>

(* A failed save, reload or execution is reported and changes nothing else *)
OtherFailed(c) ==
    /\ c.kind \in {"save", "reload", "presave", "execute"}
    /\ ~calm
    /\ calls' = calls \ {c}
    /\ UNCHANGED <<calm, stored, mode, selected, shown, selecting, loading, suppress>>

(* The derived views of the executed request, whatever is selected by now *)
ExecuteAnswered(c) ==
    /\ c.kind = "execute"
    /\ calls' = Sent(calls \ {c}, "derived", c.key)
    /\ loading' = FALSE
    /\ UNCHANGED <<calm, stored, mode, selected, shown, selecting, suppress>>

(* handleConfirmSoftDelete of the open request: nothing is selected after it *)
ArchiveSelected ==
    /\ selected.row \in ListedRows
    /\ Room
    /\ mode' = "list"
    /\ selected' = NoRequestKey
    /\ calls' = Sent(Overtaken(calls, {"derived"}), "reload", NoRequestKey)
    /\ UNCHANGED <<calm, stored, shown, selecting, loading, suppress>>

EditorNext ==
    \/ \E r \in ListedRows : SelectRow(r)
    \/ \E e \in Environments : ChangeEnvironment(e)
    \/ Save
    \/ ReloadList
    \/ Execute
    \/ ArchiveSelected
    \/ \E c \in calls :
          \/ SelectAnswered(c) \/ SelectFailed(c)
          \/ DerivedAnswered(c) \/ DerivedFailed(c)
          \/ SaveAnswered(c) \/ ReloadAnswered(c)
          \/ ExecuteSaved(c) \/ ExecuteAnswered(c)
          \/ OtherFailed(c)

EditorSpec == EditorInit /\ [][EditorNext]_editorVars

-------------------------------------------------------------------------------
(* Whatever the user clicks and in whatever order the answers come, a calm     *)
(* session that is not loading shows the history and exports of the selected   *)
(* request: answers of rows left behind are not shown under the row moved to   *)
ShownIsSelected ==
    calm /\ ~loading /\ selected.row \in ListedRows => shown \in {NoneSelected, selected.row}

===============================================================================
