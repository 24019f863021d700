---------------------------- MODULE ApiConsole_proofs ----------------------------
(***************************************************************************)
(* Proofs about the three models of the API console: ConsoleDocs,          *)
(* ConsoleEditor and ApiRegistry, for every number of rows, fields, users, *)
(* shares, revisions and calls under way; and that the three composed in   *)
(* MC_ApiConsole keep what each promises alone.                            *)
(***************************************************************************)
EXTENDS MC_ApiConsole, TLAPS

-------------------------------------------------------------------------------
(* ConsoleDocs: one field, merged.  Merging twice is merging once, and what    *)
(* the user made of the row is kept.                                           *)
Keeps(old, new) ==
    /\ old.text = "written" => new.text = "written"
    /\ old # NoDocRow => new # NoDocRow
    /\ old # NoDocRow /\ ~old.enabled => ~new.enabled

LEMMA KeepsAll ==
    /\ \A x : Keeps(x, x)
    /\ \A x, y, z : Keeps(x, y) /\ Keeps(y, z) => Keeps(x, z)
  BY DEF Keeps

LEMMA MergedField ==
    ASSUME NEW row \in DocRow \cup {NoDocRow}, NEW f, NEW S
    PROVE  /\ MergedRow(row, f \in S) \in DocRow \cup {NoDocRow}
           /\ MergedRow(MergedRow(row, f \in S), f \in S) = MergedRow(row, f \in S)
           /\ Keeps(row, MergedRow(row, f \in S))
<1>1. NoDocRow \notin DocRow /\ NoDocRow.text # "written" /\ NoDocRow.source # "AUTO"
  BY DEF NoDocRow, DocRow
<1>2. Discovered \in DocRow /\ [Discovered EXCEPT !.deprecated = FALSE] = Discovered
  <2>1. Discovered \in DocRow /\ Discovered.deprecated = FALSE
    BY DEF Discovered, DocRow
  <2>2. QED
    BY <2>1 DEF DocRow
<1>3. CASE row = NoDocRow
  BY <1>1, <1>2, <1>3 DEF MergedRow, Keeps
<1>4. CASE row \in DocRow /\ f \in S
  <2> DEFINE merged == [row EXCEPT !.deprecated = FALSE]
  <2>1. /\ merged \in DocRow /\ [merged EXCEPT !.deprecated = FALSE] = merged
        /\ merged.text = row.text /\ merged.enabled = row.enabled
    BY <1>4 DEF DocRow
  <2>2. MergedRow(row, f \in S) = merged
    BY <1>1, <1>4 DEF MergedRow
  <2> HIDE DEF merged
  <2>3. MergedRow(merged, f \in S) = merged
    BY <1>1, <1>4, <2>1 DEF MergedRow
  <2>4. QED
    BY <1>1, <2>1, <2>2, <2>3 DEF Keeps
<1>5. CASE row \in DocRow /\ f \notin S /\ row.source = "AUTO"
  <2> DEFINE merged == [row EXCEPT !.enabled = FALSE, !.deprecated = TRUE]
  <2>1. /\ merged \in DocRow /\ [merged EXCEPT !.enabled = FALSE, !.deprecated = TRUE] = merged
        /\ merged.text = row.text /\ merged.enabled = FALSE /\ merged.source = "AUTO"
    BY <1>5 DEF DocRow
  <2>2. MergedRow(row, f \in S) = merged
    BY <1>5 DEF MergedRow
  <2> HIDE DEF merged
  <2>3. MergedRow(merged, f \in S) = merged
    BY <1>5, <2>1 DEF MergedRow
  <2>4. QED
    BY <1>1, <2>1, <2>2, <2>3 DEF Keeps
<1>6. CASE row \in DocRow /\ f \notin S /\ row.source # "AUTO"
  BY <1>6 DEF MergedRow, Keeps
<1>7. QED
  BY <1>3, <1>4, <1>5, <1>6

LEMMA SavedField ==
    ASSUME NEW rs \in DocRows, NEW fields, NEW f \in Field
    PROVE  SavedRows(rs, fields)[f] =
               IF f \in InputFields THEN MergedRow(rs[f], f \in fields) ELSE rs[f]
  BY DEF SavedRows, Merge

LEMMA SavedIsMerged ==
    ASSUME NEW rs \in DocRows, NEW fields
    PROVE  /\ SavedRows(rs, fields) \in DocRows
           /\ SavedRows(SavedRows(rs, fields), fields) = SavedRows(rs, fields)
           /\ \A f \in Field : Keeps(rs[f], SavedRows(rs, fields)[f])
<1> DEFINE saved == SavedRows(rs, fields)
<1>1. \A f \in Field : rs[f] \in DocRow \cup {NoDocRow}
  BY DEF DocRows
<1>2. saved \in DocRows
  BY <1>1, MergedField DEF SavedRows, Merge, DocRows
<1>3. \A f \in Field : saved[f] = IF f \in InputFields THEN MergedRow(rs[f], f \in fields) ELSE rs[f]
  BY SavedField
<1>4. \A f \in Field : SavedRows(saved, fields)[f]
                          = IF f \in InputFields THEN MergedRow(saved[f], f \in fields) ELSE saved[f]
  BY <1>2, SavedField
<1>5. SavedRows(saved, fields) \in DocRows
  <2>1. \A f \in Field : saved[f] \in DocRow \cup {NoDocRow}
    BY <1>2 DEF DocRows
  <2> HIDE DEF saved
  <2>2. QED
    BY <2>1, MergedField DEF SavedRows, Merge, DocRows
<1> HIDE DEF saved
<1>6. \A f \in Field : SavedRows(saved, fields)[f] = saved[f]
  BY <1>1, <1>3, <1>4, MergedField
<1>7. SavedRows(saved, fields) = saved
  BY <1>2, <1>5, <1>6 DEF DocRows
<1>8. ASSUME NEW f \in Field PROVE Keeps(rs[f], saved[f])
  <2>1. saved[f] = rs[f] \/ saved[f] = MergedRow(rs[f], f \in fields)
    BY <1>3
  <2>2. Keeps(rs[f], MergedRow(rs[f], f \in fields))
    BY <1>1, MergedField
  <2>3. QED
    BY <2>1, <2>2, KeepsAll
<1>9. QED
  BY <1>2, <1>7, <1>8 DEF saved

LEMMA RefreshedIsMerged ==
    ASSUME DocsTypeOK, NEW rs \in DocRows, NEW fields
    PROVE  /\ RefreshedRows(rs, fields) \in DocRows
           /\ SavedRows(RefreshedRows(rs, fields), fields) = RefreshedRows(rs, fields)
           /\ \A f \in Field : Keeps(rs[f], RefreshedRows(rs, fields)[f])
<1> DEFINE saved == SavedRows(rs, fields)
           merged == Merge(saved, responses.latest, OutputFields)
<1>1. /\ saved \in DocRows /\ SavedRows(saved, fields) = saved
      /\ \A f \in Field : Keeps(rs[f], saved[f])
  BY SavedIsMerged
<1>2. CASE responses.kinds = {}
  BY <1>1, <1>2 DEF RefreshedRows
<1>3. CASE responses.kinds # {}
  <2>1. RefreshedRows(rs, fields) = merged
    BY <1>3 DEF RefreshedRows
  <2> HIDE DEF saved
  <2>2. \A f \in Field : saved[f] \in DocRow \cup {NoDocRow}
    BY <1>1 DEF DocRows
  <2>3. \A f \in Field : merged[f] = IF f \in OutputFields
                                     THEN MergedRow(saved[f], f \in responses.latest) ELSE saved[f]
    BY DEF Merge
  <2>4. \A f \in Field : merged[f] \in DocRow \cup {NoDocRow} /\ Keeps(saved[f], merged[f])
    <3> SUFFICES ASSUME NEW f \in Field
                 PROVE  merged[f] \in DocRow \cup {NoDocRow} /\ Keeps(saved[f], merged[f])
      OBVIOUS
    <3> HIDE DEF merged
    <3>1. merged[f] = saved[f] \/ merged[f] = MergedRow(saved[f], f \in responses.latest)
      BY <2>3
    <3>2. /\ Keeps(saved[f], MergedRow(saved[f], f \in responses.latest))
          /\ MergedRow(saved[f], f \in responses.latest) \in DocRow \cup {NoDocRow}
      BY <2>2, MergedField
    <3>3. QED
      BY <2>2, <3>1, <3>2, KeepsAll
  <2>5. merged = [f \in Field |-> merged[f]]
    BY DEF Merge
  <2> HIDE DEF merged
  <2>6. merged \in DocRows
    BY <2>4, <2>5 DEF DocRows
  <2>7. \A f \in InputFields : f \in Field /\ merged[f] = saved[f]
    BY <2>3, DocsAssumption DEF Field
  <2>8. ASSUME NEW f \in Field PROVE SavedRows(merged, fields)[f] = merged[f]
    <3>1. SavedRows(merged, fields)[f] =
              IF f \in InputFields THEN MergedRow(merged[f], f \in fields) ELSE merged[f]
      BY <2>6, SavedField
    <3>2. saved[f] = IF f \in InputFields THEN MergedRow(saved[f], f \in fields) ELSE saved[f]
      BY <1>1, SavedField
    <3>3. QED
      BY <2>7, <3>1, <3>2
  <2>9. SavedRows(merged, fields) \in DocRows
    BY <2>6, SavedIsMerged
  <2>10. SavedRows(merged, fields) = merged
    BY <2>6, <2>8, <2>9 DEF DocRows
  <2>11. \A f \in Field : Keeps(rs[f], merged[f])
    BY <1>1, <2>4, KeepsAll
  <2>12. QED
    BY <2>1, <2>6, <2>10, <2>11
<1>4. QED
  BY <1>2, <1>3

(* What a call carries is kept by every answer to it and, once its PUT is       *)
(* executed, by what is saved; calls of an orderly session do not overlap.     *)
CallKeeps(c, rs) ==
    /\ \A a \in c.answer : \A f \in Field : Keeps(c.from.rows[f], a.rows[f])
    /\ c.at # "put" \/ c.answer # {} => \A f \in Field : Keeps(c.from.rows[f], rs[f])

SentIsKept ==
    orderly => \A k \in DocSlot : docCalls[k] # NoDocCall =>
                  /\ CallKeeps(docCalls[k], docs)
                  /\ \A j \in DocSlot : j # k => docCalls[j] = NoDocCall

DocsInv == DocsTypeOK /\ RestartKeepsDocs /\ SentIsKept

LEMMA EmptyDraftTyped == EmptyDraft \in Draft /\ EmptyDraft.rows \in DocRows
<1>1. [f \in Field |-> NoDocRow] \in DocRows
  BY DEF DocRows
<1>2. QED
  BY <1>1 DEF EmptyDraft, Draft

LEMMA DocsInitInv == DocsInit => DocsInv
<1> SUFFICES ASSUME DocsInit PROVE DocsInv
  OBVIOUS
<1>1. docs \in DocRows
  BY EmptyDraftTyped DEF DocsInit
<1>2. DocsTypeOK
  BY <1>1, EmptyDraftTyped DEF DocsInit, DocsTypeOK
<1>3. \A f \in Field : SavedRows(docs, definition)[f] = docs[f]
  <2>1. NoDocRow.source # "AUTO"
    BY DEF NoDocRow
  <2>2. \A f \in Field : docs[f] = NoDocRow /\ f \notin definition
    BY DEF DocsInit, EmptyDraft
  <2>3. QED
    BY <1>1, <2>1, <2>2, SavedField DEF MergedRow
<1>4. SavedRows(docs, definition) \in DocRows
  BY <1>1, SavedIsMerged
<1>5. SentIsKept
  BY DEF DocsInit, SentIsKept
<1>6. QED
  BY <1>1, <1>2, <1>3, <1>4, <1>5 DEF DocsInv, RestartKeepsDocs, DocRows

\* What the invariant says of the variables.
LEMMA DocsFacts ==
    ASSUME DocsInv
    PROVE  /\ orderly \in BOOLEAN /\ definition \subseteq InputFields /\ docs \in DocRows
           /\ draft \in Draft /\ draft.fields \subseteq InputFields /\ draft.rows \in DocRows
           /\ savedRequest \in Draft /\ ServerRow \in Draft
           /\ docCalls \in [DocSlot -> DocCall \cup {NoDocCall}]
           /\ responses \in [kinds : SUBSET {"execution", "manual"}, latest : SUBSET OutputFields]
           /\ SavedRows(docs, definition) = docs
<1>1. DocsTypeOK /\ RestartKeepsDocs
  BY DEF DocsInv
<1>2. draft.fields \subseteq InputFields /\ draft.rows \in DocRows /\ ServerRow \in Draft
  BY <1>1 DEF DocsTypeOK, Draft, ServerRow
<1>3. QED
  BY <1>1, <1>2 DEF DocsTypeOK, RestartKeepsDocs

\* The fields of a call under way.
LEMMA CallFacts ==
    ASSUME DocsInv, NEW k \in DocSlot, docCalls[k] # NoDocCall
    PROVE  /\ docCalls[k] \in DocCall
           /\ docCalls[k].from \in Draft
           /\ docCalls[k].from.fields \subseteq InputFields /\ docCalls[k].from.rows \in DocRows
           /\ docCalls[k].answer \subseteq Draft /\ docCalls[k].awaited \in BOOLEAN
           /\ docCalls[k].at \in {"put", "post", "get"}
<1>1. docCalls[k] \in DocCall
  BY DocsFacts
<1>2. QED
  BY <1>1 DEF DocCall, Draft

\* A step changes one call and perhaps, at the server, what is saved.
LEMMA OneCallKept ==
    ASSUME DocsInv, NEW k \in DocSlot, NEW c \in DocCall \cup {NoDocCall},
           docCalls' = [docCalls EXCEPT ![k] = c],
           UNCHANGED <<orderly, responses>>,
           draft' \in Draft, savedRequest' \in Draft,
           definition' \subseteq InputFields, docs' \in DocRows,
           SavedRows(docs', definition') = docs',
           orderly => \A j \in DocSlot : j # k => docCalls[j] = NoDocCall,
           orderly /\ c # NoDocCall => CallKeeps(c, docs')
    PROVE  DocsInv'
<1>1. docCalls' \in [DocSlot -> DocCall \cup {NoDocCall}]
  BY DocsFacts
<1>2. DocsTypeOK'
  BY <1>1, DocsFacts DEF DocsTypeOK
<1>3. \A j \in DocSlot : docCalls'[j] = IF j = k THEN c ELSE docCalls[j]
  BY DocsFacts
<1>4. SentIsKept'
  BY <1>3 DEF SentIsKept, CallKeeps
<1>5. RestartKeepsDocs'
  BY DEF RestartKeepsDocs, SavedRows, Merge
<1>6. QED
  BY <1>2, <1>4, <1>5 DEF DocsInv

\* An orderly session has no other call under way.
LEMMA OnlyCall ==
    ASSUME DocsInv, orderly, NEW k \in DocSlot, docCalls[k] # NoDocCall
    PROVE  /\ CallKeeps(docCalls[k], docs)
           /\ \A j \in DocSlot : j # k => docCalls[j] = NoDocCall
  BY DEF DocsInv, SentIsKept

\* Steps that leave the calls and what is saved as they are.
LEMMA StoreKept ==
    ASSUME DocsInv, UNCHANGED <<orderly, definition, docs, docCalls>>,
           draft' \in Draft, savedRequest' \in Draft,
           responses' \in [kinds : SUBSET {"execution", "manual"}, latest : SUBSET OutputFields]
    PROVE  DocsInv'
<1>1. DocsTypeOK'
  BY DocsFacts DEF DocsTypeOK
<1>2. RestartKeepsDocs' /\ SentIsKept'
  BY DEF DocsInv, RestartKeepsDocs, SavedRows, Merge, SentIsKept, CallKeeps
<1>3. QED
  BY <1>1, <1>2 DEF DocsInv

LEMMA EditsKeep ==
    ASSUME DocsInv,
           \/ \E fs \in SUBSET InputFields : EditFields(fs)
           \/ \E f \in Field : WriteText(f) \/ ToggleField(f) \/ AddField(f) \/ RemoveField(f)
    PROVE  DocsInv'
<1>1. ASSUME NEW new \in Draft, Edited(new) PROVE DocsInv'
  BY <1>1, DocsFacts, StoreKept DEF Edited, storeVars
<1>2. ASSUME NEW fs \in SUBSET InputFields, EditFields(fs) PROVE DocsInv'
  <2>1. [draft EXCEPT !.fields = fs] \in Draft
    BY DocsFacts DEF Draft
  <2>2. QED
    BY <1>1, <1>2, <2>1 DEF EditFields
<1>3. ASSUME NEW f \in Field, NEW row \in DocRow \cup {NoDocRow}
      PROVE  [draft EXCEPT !.rows[f] = row] \in Draft
  <2>1. [draft.rows EXCEPT ![f] = row] \in DocRows
    BY DocsFacts DEF DocRows
  <2>2. QED
    BY <2>1, DocsFacts DEF Draft
<1>4. ASSUME NEW f \in Field, WriteText(f) \/ ToggleField(f) \/ AddField(f) \/ RemoveField(f)
      PROVE  DocsInv'
  <2>1. draft.rows[f] \in DocRow \cup {NoDocRow}
    BY DocsFacts DEF DocRows
  <2>2. CASE WriteText(f)
    <3>1. [draft.rows[f] EXCEPT !.text = "written"] \in DocRow
      BY <2>1, <2>2 DEF WriteText, DocRow
    <3>2. [draft EXCEPT !.rows[f].text = "written"]
             = [draft EXCEPT !.rows[f] = [draft.rows[f] EXCEPT !.text = "written"]]
      BY DocsFacts DEF DocRows
    <3>3. QED
      BY <1>1, <1>3, <2>2, <3>1, <3>2 DEF WriteText
  <2>3. CASE ToggleField(f)
    <3>1. [draft.rows[f] EXCEPT !.enabled = ~@] \in DocRow
      BY <2>1, <2>3 DEF ToggleField, DocRow
    <3>2. [draft EXCEPT !.rows[f].enabled = ~@]
             = [draft EXCEPT !.rows[f] = [draft.rows[f] EXCEPT !.enabled = ~@]]
      BY DocsFacts DEF DocRows
    <3>3. QED
      BY <1>1, <1>3, <2>3, <3>1, <3>2 DEF ToggleField
  <2>4. CASE AddField(f)
    <3>1. [Discovered EXCEPT !.source = "MANUAL"] \in DocRow
      BY DEF Discovered, DocRow
    <3>2. QED
      BY <1>1, <1>3, <2>4, <3>1 DEF AddField
  <2>5. CASE RemoveField(f)
    BY <1>1, <1>3, <2>5 DEF RemoveField
  <2>6. QED
    BY <1>4, <2>2, <2>3, <2>4, <2>5
<1>5. QED
  BY <1>2, <1>4

LEMMA SendsKeep ==
    ASSUME DocsInv, NEW k \in DocSlot, SendSave(k) \/ SendRefresh(k) \/ SendPresave(k)
    PROVE  DocsInv'
<1>1. ASSUME NEW kind \in {"save", "refresh", "presave"}, NEW at \in {"put", "post"},
             NEW from \in Draft, SendCall(k, kind, at, from), at = "put" \/ from = ServerRow
      PROVE  DocsInv'
  <2> DEFINE c == [kind |-> kind, at |-> at, from |-> from, answer |-> {}, awaited |-> TRUE]
  <2>1. c \in DocCall
    BY DEF DocCall
  <2>2. UNCHANGED <<orderly, responses, definition, docs, draft, savedRequest>>
    BY <1>1 DEF SendCall, pageVars, storeVars
  <2>3. CallKeeps(c, docs')
    <3>1. c.answer = {} /\ c.at = at /\ c.from = from
      OBVIOUS
    <3>2. at # "put" => from.rows = docs
      BY <1>1 DEF ServerRow
    <3> HIDE DEF c
    <3>3. QED
      BY <2>2, <3>1, <3>2, KeepsAll DEF CallKeeps
  <2>4. docCalls' = [docCalls EXCEPT ![k] = c]
    BY <1>1 DEF SendCall
  <2>5. orderly => \A j \in DocSlot : j # k => docCalls[j] = NoDocCall
    BY <1>1 DEF SendCall
  <2> HIDE DEF c
  <2>6. QED
    BY <2>1, <2>2, <2>3, <2>4, <2>5, DocsFacts, OneCallKept
<1>2. CASE SendSave(k)
  BY <1>1, <1>2, DocsFacts DEF SendSave
<1>3. CASE SendRefresh(k)
  BY <1>1, <1>3, DocsFacts DEF SendRefresh
<1>4. CASE SendPresave(k)
  BY <1>1, <1>4, DocsFacts DEF SendPresave
<1>5. QED
  BY <1>2, <1>3, <1>4

LEMMA ServesKeep ==
    ASSUME DocsInv, NEW k \in DocSlot, ServePut(k) \/ ServePost(k) \/ ServeGet(k)
    PROVE  DocsInv'
<1>0. docCalls[k] # NoDocCall /\ docCalls[k].answer = {}
  BY DEF ServePut, ServePost, ServeGet, IsDue, NoDocCall
<1> DEFINE call == docCalls[k]
           answered == [call EXCEPT !.answer = {ServerRow'}]
           c == IF call.awaited THEN answered ELSE NoDocCall
<1>1. /\ docCalls' = [docCalls EXCEPT ![k] = c]
      /\ UNCHANGED <<orderly, responses, draft, savedRequest>>
  BY DocsFacts DEF ServePut, ServePost, ServeGet, Served, pageVars
<1>2. /\ definition' \subseteq InputFields /\ docs' \in DocRows
      /\ SavedRows(docs', definition') = docs'
      /\ orderly => \A f \in Field : Keeps(call.from.rows[f], docs'[f])
  <2>1. CASE ServePut(k)
    <3>1. docs' = SavedRows(call.from.rows, call.from.fields) /\ definition' = call.from.fields
      BY <2>1 DEF ServePut
    <3>2. QED
      BY <1>0, <3>1, CallFacts, SavedIsMerged
  <2>2. CASE ServePost(k)
    <3>1. docs' = RefreshedRows(docs, definition) /\ definition' = definition /\ call.at = "post"
      BY <2>2 DEF ServePost, IsDue
    <3>2. /\ docs' \in DocRows /\ SavedRows(docs', definition') = docs'
          /\ \A f \in Field : Keeps(docs[f], docs'[f])
      BY <3>1, DocsFacts, RefreshedIsMerged DEF DocsInv
    <3>3. orderly => \A f \in Field : Keeps(call.from.rows[f], docs[f])
      BY <1>0, <3>1, OnlyCall DEF CallKeeps
    <3>4. QED
      BY <3>1, <3>2, <3>3, DocsFacts, KeepsAll
  <2>3. CASE ServeGet(k)
    <3>1. docs' = docs /\ definition' = definition /\ call.at = "get"
      BY <2>3 DEF ServeGet, IsDue
    <3>2. orderly => \A f \in Field : Keeps(call.from.rows[f], docs[f])
      BY <1>0, <3>1, OnlyCall DEF CallKeeps
    <3>3. QED
      BY <3>1, <3>2, DocsFacts
  <2>4. QED
    BY <2>1, <2>2, <2>3
<1>3. ServerRow' \in Draft /\ ServerRow'.rows = docs'
  BY <1>2 DEF ServerRow, Draft
<1>4. /\ answered \in DocCall
      /\ answered.from = call.from /\ answered.answer = {ServerRow'}
  BY <1>0, <1>3, CallFacts DEF DocCall
<1>5. orderly /\ c # NoDocCall => CallKeeps(c, docs')
  <2> HIDE DEF answered
  <2>1. QED
    BY <1>2, <1>3, <1>4 DEF CallKeeps
<1>6. c \in DocCall \cup {NoDocCall}
  BY <1>4
<1> HIDE DEF c
<1>7. QED
  BY <1>0, <1>1, <1>2, <1>5, <1>6, DocsFacts, OnlyCall, OneCallKept

LEMMA AnswersKeep ==
    ASSUME DocsInv, NEW k \in DocSlot,
           SavePutAnswered(k) \/ RefreshPutAnswered(k) \/ LastAnswered(k)
    PROVE  DocsInv'
<1>0. docCalls[k] # NoDocCall /\ docCalls[k].answer # {}
  BY DEF SavePutAnswered, RefreshPutAnswered, LastAnswered, Shows, NoDocCall
<1>1. /\ UNCHANGED <<orderly, responses, definition, docs>>
      /\ draft' \in Draft /\ savedRequest' \in Draft
  BY <1>0, DocsFacts, CallFacts DEF SavePutAnswered, RefreshPutAnswered, LastAnswered, Shows,
     GoesOn, pageVars, storeVars
<1>2. ASSUME NEW at \in {"post", "get"},
             docCalls' = [docCalls EXCEPT ![k].at = at, ![k].answer = {}]
      PROVE  DocsInv'
  <2> DEFINE c == [docCalls[k] EXCEPT !.at = at, !.answer = {}]
  <2>1. docCalls' = [docCalls EXCEPT ![k] = c]
    BY <1>2, DocsFacts
  <2>2. c \in DocCall /\ c.answer = {} /\ c.from = docCalls[k].from
    BY <1>0, CallFacts DEF DocCall
  <2> HIDE DEF c
  <2>3. orderly => CallKeeps(c, docs')
    BY <1>0, <1>1, <2>2, OnlyCall DEF CallKeeps
  <2>4. QED
    BY <1>0, <1>1, <2>1, <2>2, <2>3, DocsFacts, OnlyCall, OneCallKept
<1>3. CASE SavePutAnswered(k) \/ RefreshPutAnswered(k)
  BY <1>2, <1>3 DEF SavePutAnswered, RefreshPutAnswered, GoesOn
<1>4. CASE LastAnswered(k)
  <2>1. docCalls' = [docCalls EXCEPT ![k] = NoDocCall]
    BY <1>4 DEF LastAnswered
  <2>2. QED
    BY <1>0, <1>1, <2>1, DocsFacts, OnlyCall, OneCallKept
<1>5. QED
  BY <1>3, <1>4

LEMMA LossesKeep ==
    ASSUME DocsInv, NEW k \in DocSlot, LoseDocCall(k) \/ DropDocCall(k)
    PROVE  DocsInv'
<1>0. docCalls[k] # NoDocCall /\ UNCHANGED <<orderly, responses, definition, docs, draft, savedRequest>>
  BY DEF LoseDocCall, DropDocCall, NoDocCall, pageVars, storeVars
<1> DEFINE late == [docCalls[k] EXCEPT !.awaited = FALSE]
<1>1. /\ late \in DocCall /\ late.answer = docCalls[k].answer
      /\ late.at = docCalls[k].at /\ late.from = docCalls[k].from
  BY <1>0, CallFacts DEF DocCall
<1>2. \E c \in {late, NoDocCall} : docCalls' = [docCalls EXCEPT ![k] = c]
  BY DocsFacts DEF LoseDocCall, DropDocCall
<1> HIDE DEF late
<1>3. orderly => CallKeeps(late, docs')
  BY <1>0, <1>1, OnlyCall DEF CallKeeps
<1>4. QED
  BY <1>0, <1>1, <1>2, <1>3, DocsFacts, OnlyCall, OneCallKept

LEMMA DocsNextInv == DocsInv /\ [DocsNext]_docsVars => DocsInv'
<1> SUFFICES ASSUME DocsInv, [DocsNext]_docsVars PROVE DocsInv'
  OBVIOUS
<1>1. CASE UNCHANGED docsVars
  BY <1>1, DocsFacts, StoreKept DEF docsVars, pageVars, storeVars
<1>2. ASSUME NEW kind \in {"execution", "manual"}, NEW fs \in SUBSET OutputFields,
             GetResponse(kind, fs)
      PROVE  DocsInv'
  <2>1. responses' \in [kinds : SUBSET {"execution", "manual"}, latest : SUBSET OutputFields]
    BY <1>2, DocsFacts DEF GetResponse
  <2>2. QED
    BY <1>2, <2>1, DocsFacts, StoreKept DEF GetResponse, pageVars
<1>3. CASE RestartDocs
  BY <1>3, DocsFacts, StoreKept DEF RestartDocs, pageVars
<1>4. QED
  BY <1>1, <1>2, <1>3, EditsKeep, SendsKeep, ServesKeep, AnswersKeep, LossesKeep DEF DocsNext

(* The inductive invariant of the saved documentation and its page: types, that *)
(* merging again changes no row, and that what a call carried is kept.          *)
THEOREM DocsInvariant == DocsSpec => []DocsInv
  BY DocsInitInv, DocsNextInv, PTL DEF DocsSpec

(* A start of the server, which merges again, changes no documentation row.   *)
THEOREM RestartKeepsDocsHolds == DocsSpec => []RestartKeepsDocs
<1>1. DocsInv => RestartKeepsDocs
  BY DEF DocsInv
<1>2. QED
  BY <1>1, DocsInvariant, PTL

(* In a session without overlapping calls no save, refresh or save before an   *)
(* execution loses what the draft that was sent says about a field.            *)
THEOREM UserChoicesHold == DocsSpec => UserChoicesSurvive
<1> DEFINE Survive == orderly => \A k \in DocSlot :
              draft' \in docCalls[k].answer /\ docCalls'[k] # docCalls[k] =>
                 \A f \in Field : LET sent == docCalls[k].from.rows[f] IN
                    /\ sent.text = "written" => draft'.rows[f].text = "written"
                    /\ sent # NoDocRow /\ ~sent.enabled => ~draft'.rows[f].enabled
<1>1. DocsInv => Survive
  <2> SUFFICES ASSUME DocsInv, orderly, NEW k \in DocSlot, draft' \in docCalls[k].answer,
                      NEW f \in Field
               PROVE  Keeps(docCalls[k].from.rows[f], draft'.rows[f])
    BY DEF Keeps
  <2>1. docCalls[k] # NoDocCall
    BY DEF NoDocCall
  <2>2. QED
    BY <2>1, OnlyCall DEF CallKeeps
<1>2. DocsInv /\ [DocsNext]_docsVars => [Survive]_docsVars
  BY <1>1
<1>3. QED
  BY <1>2, DocsInvariant, PTL DEF DocsSpec, UserChoicesSurvive

-------------------------------------------------------------------------------
(* ConsoleEditor: what sending a call does to the calls under way.             *)
MarkedFrom(c, d, kinds) ==
    /\ c.kind = d.kind
    /\ c.key = d.key
    /\ c.newest = FALSE \/ (c = d /\ d.kind \notin kinds)

LEMMA OvertakenIs ==
    ASSUME NEW cs \in SUBSET Call, NEW kinds
    PROVE  \A c \in Overtaken(cs, kinds) :
              /\ c \in Call
              /\ \E d \in cs : MarkedFrom(c, d, kinds)
<1> SUFFICES ASSUME NEW c \in Overtaken(cs, kinds)
             PROVE  /\ c \in Call
                    /\ \E d \in cs : MarkedFrom(c, d, kinds)
  OBVIOUS
<1>1. PICK d \in cs : c = IF d.kind \in kinds THEN [d EXCEPT !.newest = FALSE] ELSE d
  BY DEF Overtaken
<1>2. /\ [d EXCEPT !.newest = FALSE] \in Call
      /\ [d EXCEPT !.newest = FALSE].kind = d.kind /\ [d EXCEPT !.newest = FALSE].key = d.key
      /\ [d EXCEPT !.newest = FALSE].newest = FALSE
  BY DEF Call
<1>3. QED
  BY <1>1, <1>2 DEF MarkedFrom

LEMMA OvertakenTyped ==
    ASSUME NEW cs \in SUBSET Call, NEW kinds PROVE Overtaken(cs, kinds) \in SUBSET Call
  BY OvertakenIs

LEMMA SentTyped ==
    ASSUME NEW cs \in SUBSET Call, NEW kind \in CallKind, NEW key \in RequestKey
    PROVE  Sent(cs, kind, key) \in SUBSET Call
<1>1. [kind |-> kind, key |-> key, newest |-> TRUE] \in Call
  BY DEF Call
<1>2. QED
  BY <1>1, OvertakenTyped DEF Sent

(* In a calm session the calls are selections, derived views and reloads of   *)
(* the list, and the newest derived views are those of the selected request.  *)
CalmCall(c, sel) ==
    \/ c.kind = "select" /\ c.key.row \in ListedRows
    \/ c.kind = "reload" /\ c.key = NoRequestKey
    \/ c.kind = "derived" /\ c.key.row \in ListedRows /\ (c.newest = FALSE \/ c.key = sel)
CalmCalls(cs, sel) == \A c \in cs : CalmCall(c, sel)

LEMMA CalmOvertaken ==
    ASSUME NEW cs \in SUBSET Call, NEW sel, NEW kinds, CalmCalls(cs, sel), NEW now,
           now = sel \/ "derived" \in kinds
    PROVE  CalmCalls(Overtaken(cs, kinds), now)
<1>1. \A c \in Overtaken(cs, kinds) :
         \E d \in cs : MarkedFrom(c, d, kinds)
  BY OvertakenIs
<1> SUFFICES ASSUME NEW c \in Overtaken(cs, kinds) PROVE CalmCall(c, now)
  BY DEF CalmCalls
<1>2. PICK d \in cs : MarkedFrom(c, d, kinds)
  BY <1>1
<1>3. CalmCall(d, sel)
  BY DEF CalmCalls
<1>4. CASE c.newest = FALSE
  BY <1>2, <1>3, <1>4 DEF CalmCall, MarkedFrom
<1>5. CASE c = d /\ d.kind \notin kinds
  BY <1>3, <1>5 DEF CalmCall, MarkedFrom
<1>6. QED
  BY <1>2, <1>4, <1>5 DEF MarkedFrom

LEMMA CalmSent ==
    ASSUME NEW cs \in SUBSET Call, NEW sel, CalmCalls(cs, sel), NEW now, NEW kind, NEW key,
           \/ kind = "derived" /\ key = now /\ key.row \in ListedRows
           \/ kind = "select" /\ key.row \in ListedRows /\ now = sel
           \/ kind = "reload" /\ key = NoRequestKey /\ now = sel
    PROVE  CalmCalls(Sent(cs, kind, key), now)
<1> DEFINE sent == [kind |-> kind, key |-> key, newest |-> TRUE]
<1>1. CalmCalls(Overtaken(cs, {kind}), now)
  BY CalmOvertaken
<1>2. sent.kind = kind /\ sent.key = key
  OBVIOUS
<1>3. CalmCall(sent, now)
  BY <1>2 DEF CalmCall
<1>4. QED
  BY <1>1, <1>3 DEF CalmCalls, Sent

-------------------------------------------------------------------------------
CalmFits == calm => suppress = NoRequestKey /\ CalmCalls(calls, selected)
EditorInv == EditorTypeOK /\ CalmFits /\ ShownIsSelected

LEMMA KeysTyped ==
    /\ NoRequestKey \in RequestKey
    /\ NoRequestKey.row = NoneSelected /\ NoneSelected \notin ListedRows
    /\ {"select", "derived", "reload", "save", "presave", "execute"} \subseteq CallKind
    /\ \A key \in RequestKey : key.row \in ListedRows => key.env \in Environments
    /\ \A key \in RequestKey : key.row \in ListedRows \cup {NoneSelected}
    /\ \A key \in RequestKey, e \in Environments :
          key.row \in ListedRows => /\ [key EXCEPT !.env = e] \in RequestKey
                                    /\ [key EXCEPT !.env = e].row = key.row
                                    /\ [key EXCEPT !.env = e].env = e
  BY EditorAssumption DEF NoRequestKey, RequestKey, CallKind

LEMMA EditorTyped ==
    ASSUME EditorTypeOK
    PROVE  /\ \A r \in ListedRows : KeyOf(r) \in RequestKey /\ KeyOf(r).row = r
           /\ selected \in RequestKey /\ suppress \in RequestKey /\ calls \in SUBSET Call
           /\ \A c \in calls : c.key \in RequestKey /\ c.kind \in CallKind /\ c \in Call
  BY DEF EditorTypeOK, KeyOf, RequestKey, Call

LEMMA SetSelectedTyped ==
    ASSUME EditorTypeOK, NEW key \in RequestKey, NEW cs \in SUBSET Call, NEW token \in RequestKey,
           NEW busy \in BOOLEAN, SetSelected(key, cs, token, busy)
    PROVE  {selected', suppress'} \subseteq RequestKey /\ calls' \in SUBSET Call
           /\ loading' \in BOOLEAN
<1>1. SelectionEffect(key, cs, token) \in SUBSET Call
  BY SentTyped, KeysTyped DEF SelectionEffect
<1>2. TokenLeft(key, token) \in RequestKey
  BY KeysTyped DEF TokenLeft
<1>3. (busy \/ EffectLoads(key, token)) \in BOOLEAN
  OBVIOUS
<1>4. QED
  BY <1>1, <1>2, <1>3 DEF SetSelected

(* A calm session without a token: the views shown are dropped or the page is *)
(* loading when another request is selected.                                  *)
LEMMA SetSelectedCalm ==
    ASSUME EditorInv, calm, NEW key \in RequestKey, key.row \in ListedRows,
           NEW cs \in SUBSET Call, CalmCalls(cs, selected),
           SetSelected(key, cs, suppress, loading), UNCHANGED <<calm, shown>>
    PROVE  CalmFits' /\ ShownIsSelected'
<1>1. suppress = NoRequestKey /\ key # suppress
  BY KeysTyped DEF EditorInv, CalmFits
<1>2. suppress' = NoRequestKey /\ selected' = key /\ calls' = SelectionEffect(key, cs, suppress)
      /\ loading' = (loading \/ EffectLoads(key, suppress))
  BY <1>1 DEF SetSelected, TokenLeft
<1>3. CASE key = selected
  <2>1. calls' = cs /\ selected' = selected
    BY <1>2, <1>3 DEF SelectionEffect
  <2>2. loading' = loading
    BY <1>2, <1>3 DEF EffectLoads, EditorInv, EditorTypeOK
  <2>3. QED
    BY <1>2, <2>1, <2>2 DEF EditorInv, CalmFits, ShownIsSelected
<1>4. CASE key # selected
  <2>1. calls' = Sent(cs, "derived", key)
    BY <1>1, <1>2, <1>4 DEF SelectionEffect
  <2>2. CalmCalls(calls', selected')
    BY <1>2, <2>1, CalmSent
  <2>3. loading'
    BY <1>1, <1>2, <1>4 DEF EffectLoads
  <2>4. QED
    BY <1>2, <2>2, <2>3 DEF CalmFits, ShownIsSelected
<1>5. QED
  BY <1>3, <1>4

LEMMA EditorInitInv == EditorInit => EditorInv
<1> SUFFICES ASSUME EditorInit PROVE EditorInv
  OBVIOUS
<1>1. EditorTypeOK
  <2>1. stored \in [ListedRows -> Environments]
    BY DEF EditorInit
  <2>2. QED
    BY <2>1, KeysTyped DEF EditorInit, EditorTypeOK
<1>2. CalmFits /\ ShownIsSelected
  BY KeysTyped DEF EditorInit, CalmFits, CalmCalls, ShownIsSelected
<1>3. QED
  BY <1>1, <1>2 DEF EditorInv

(* The user's actions.                                                        *)
UserStep ==
    \/ \E r \in ListedRows : SelectRow(r)
    \/ \E e \in Environments : ChangeEnvironment(e)
    \/ Save \/ ReloadList \/ Execute \/ ArchiveSelected

LEMMA UserStepKeeps == EditorInv /\ UserStep => EditorInv'
<1> SUFFICES ASSUME EditorInv, UserStep PROVE EditorInv'
  OBVIOUS
<1>0. /\ EditorTypeOK /\ selected \in RequestKey /\ suppress \in RequestKey
      /\ calls \in SUBSET Call
      /\ \A r \in ListedRows : KeyOf(r) \in RequestKey /\ KeyOf(r).row = r
  BY EditorTyped DEF EditorInv
<1>1. ASSUME NEW r \in ListedRows, SelectRow(r) PROVE EditorInv'
  <2>1. calls' = Sent(calls, "select", KeyOf(r)) /\ calls' \in SUBSET Call
    BY <1>0, <1>1, SentTyped, KeysTyped DEF SelectRow
  <2>2. EditorTypeOK'
    BY <1>0, <1>1, <2>1 DEF SelectRow, EditorTypeOK
  <2>3. calm => CalmCalls(calls', selected)
    BY <1>0, <2>1, CalmSent DEF EditorInv, CalmFits
  <2>4. QED
    BY <1>1, <2>2, <2>3 DEF SelectRow, EditorInv, CalmFits, ShownIsSelected
<1>2. ASSUME NEW e \in Environments, ChangeEnvironment(e) PROVE EditorInv'
  <2> DEFINE key == [selected EXCEPT !.env = e]
  <2>1. key \in RequestKey /\ key.row \in ListedRows
    BY <1>0, <1>2, KeysTyped DEF ChangeEnvironment
  <2>2. SetSelected(key, calls, suppress, loading) /\ UNCHANGED <<calm, stored, mode, shown, selecting>>
    BY <1>2 DEF ChangeEnvironment
  <2> HIDE DEF key
  <2>3. loading \in BOOLEAN
    BY <1>0 DEF EditorTypeOK
  <2>4. {selected', suppress'} \subseteq RequestKey /\ calls' \in SUBSET Call /\ loading' \in BOOLEAN
    BY <1>0, <2>1, <2>2, <2>3, SetSelectedTyped
  <2>5. EditorTypeOK'
    BY <1>0, <2>2, <2>4 DEF EditorTypeOK
  <2>6. calm => CalmFits' /\ ShownIsSelected'
    BY <1>0, <2>1, <2>2, SetSelectedCalm DEF EditorInv, CalmFits
  <2>7. ~calm => CalmFits' /\ ShownIsSelected'
    BY <2>2 DEF CalmFits, ShownIsSelected
  <2>8. QED
    BY <2>5, <2>6, <2>7 DEF EditorInv
<1>3. ASSUME ~calm, UNCHANGED <<calm, stored, mode, selected, shown, selecting, loading, suppress>>,
             calls' \in SUBSET Call
      PROVE  EditorInv'
  BY <1>0, <1>3 DEF EditorInv, EditorTypeOK, CalmFits, ShownIsSelected
<1>4. CASE Save
  BY <1>0, <1>3, <1>4, SentTyped, KeysTyped DEF Save
<1>5. CASE Execute
  <2>1. calls' = Sent(calls, "execute", selected) \/ calls' = Sent(calls, "presave", selected)
    BY <1>5 DEF Execute
  <2>2. QED
    BY <1>0, <1>3, <1>5, <2>1, SentTyped, KeysTyped DEF Execute
<1>6. CASE ReloadList
  <2>1. calls' = Sent(calls, "reload", NoRequestKey) /\ calls' \in SUBSET Call
    BY <1>0, <1>6, SentTyped, KeysTyped DEF ReloadList
  <2>2. EditorTypeOK'
    BY <1>0, <1>6, <2>1 DEF ReloadList, EditorTypeOK
  <2>3. calm => CalmCalls(calls', selected)
    BY <1>0, <2>1, CalmSent DEF EditorInv, CalmFits
  <2>4. QED
    BY <1>6, <2>2, <2>3 DEF ReloadList, EditorInv, CalmFits, ShownIsSelected
<1>7. CASE ArchiveSelected
  <2> DEFINE left == Overtaken(calls, {"derived"})
  <2>1. calls' = Sent(left, "reload", NoRequestKey) /\ selected' = NoRequestKey
    BY <1>7 DEF ArchiveSelected
  <2>2. left \in SUBSET Call
    BY <1>0, OvertakenTyped
  <2>3. calm => CalmCalls(left, NoRequestKey)
    BY <1>0, CalmOvertaken DEF EditorInv, CalmFits
  <2> HIDE DEF left
  <2>4. calls' \in SUBSET Call
    BY <2>1, <2>2, SentTyped, KeysTyped
  <2>5. calm => CalmCalls(calls', NoRequestKey)
    BY <2>1, <2>2, <2>3, CalmSent
  <2>6. EditorTypeOK'
    BY <1>0, <1>7, <2>4, KeysTyped DEF ArchiveSelected, EditorTypeOK
  <2>7. QED
    BY <1>7, <2>5, <2>6, KeysTyped DEF ArchiveSelected, EditorInv, CalmFits, ShownIsSelected
<1>8. QED
  BY <1>1, <1>2, <1>4, <1>5, <1>6, <1>7 DEF UserStep

(* The answers.                                                               *)
LEMMA SelectionAnswered == ASSUME EditorInv, NEW c \in calls,
                                  SelectAnswered(c) \/ DerivedAnswered(c) PROVE EditorInv'
<1>0. /\ EditorTypeOK /\ selected \in RequestKey /\ suppress \in RequestKey
      /\ calls \in SUBSET Call /\ c.key \in RequestKey /\ calls \ {c} \in SUBSET Call
      /\ loading \in BOOLEAN
  BY EditorTyped DEF EditorInv, EditorTypeOK
<1>1. calm => CalmCalls(calls \ {c}, selected) /\ CalmCall(c, selected)
  BY DEF EditorInv, CalmFits, CalmCalls
<1>2. CASE SelectAnswered(c)
  <2>1. UNCHANGED <<calm, stored, shown, selecting>> /\ c.kind = "select"
        /\ mode' \in {"list", "editor"}
    BY <1>0, <1>2 DEF SelectAnswered, EditorTypeOK
  <2>2. CASE c.newest
    <3>1. SetSelected(c.key, calls \ {c}, suppress, loading)
      BY <1>2, <2>2 DEF SelectAnswered
    <3>2. {selected', suppress'} \subseteq RequestKey /\ calls' \in SUBSET Call /\ loading' \in BOOLEAN
      BY <1>0, <3>1, SetSelectedTyped
    <3>3. EditorTypeOK'
      BY <1>0, <2>1, <3>2 DEF EditorTypeOK
    <3>4. calm => c.key.row \in ListedRows
      BY <1>1, <2>1 DEF CalmCall
    <3>5. calm => CalmFits' /\ ShownIsSelected'
      BY <1>0, <1>1, <2>1, <3>1, <3>4, SetSelectedCalm
    <3>6. ~calm => CalmFits' /\ ShownIsSelected'
      BY <2>1 DEF CalmFits, ShownIsSelected
    <3>7. QED
      BY <3>3, <3>5, <3>6 DEF EditorInv
  <2>3. CASE ~c.newest
    <3>1. calls' = calls \ {c} /\ UNCHANGED <<selected, suppress, loading>>
      BY <1>2, <2>3 DEF SelectAnswered
    <3>2. EditorTypeOK'
      BY <1>0, <2>1, <3>1 DEF EditorTypeOK
    <3>3. QED
      BY <1>1, <2>1, <3>1, <3>2 DEF EditorInv, CalmFits, ShownIsSelected
  <2>4. QED
    BY <2>2, <2>3
<1>3. CASE DerivedAnswered(c)
  <2>1. /\ UNCHANGED <<calm, stored, mode, selected, suppress>> /\ c.kind = "derived"
        /\ calls' = calls \ {c}
    BY <1>3 DEF DerivedAnswered
  <2>2. c.key.row \in ListedRows \cup {NoneSelected}
    BY <1>0, KeysTyped
  <2>3. /\ shown' \in ListedRows \cup {NoneSelected} /\ selecting' \in ListedRows \cup {NoneSelected}
        /\ loading' \in BOOLEAN
    BY <1>0, <1>3, <2>2 DEF DerivedAnswered, EditorTypeOK
  <2>4. EditorTypeOK'
    BY <1>0, <2>1, <2>3 DEF EditorTypeOK
  <2>5. CalmFits'
    BY <1>1, <2>1 DEF EditorInv, CalmFits
  <2>6. CASE c.newest
    <3>1. shown' = c.key.row
      BY <1>3, <2>6 DEF DerivedAnswered
    <3>2. calm => c.key = selected
      BY <1>1, <2>1, <2>6 DEF CalmCall
    <3>3. QED
      BY <2>1, <2>4, <2>5, <3>1, <3>2 DEF EditorInv, ShownIsSelected
  <2>7. CASE ~c.newest
    <3>1. shown' = shown /\ loading' = loading
      BY <1>0, <1>3, <2>7 DEF DerivedAnswered
    <3>2. QED
      BY <2>1, <2>4, <2>5, <3>1 DEF EditorInv, ShownIsSelected
  <2>8. QED
    BY <2>6, <2>7
<1>4. QED
  BY <1>2, <1>3

LEMMA ReloadAnsweredKeeps ==
    ASSUME EditorInv, NEW c \in calls, ReloadAnswered(c) PROVE EditorInv'
<1> DEFINE r == c.key.row
<1>0. /\ EditorTypeOK /\ suppress \in RequestKey /\ calls \ {c} \in SUBSET Call
      /\ \A x \in ListedRows : KeyOf(x) \in RequestKey
  BY EditorTyped DEF EditorInv
<1>1. UNCHANGED <<calm, stored>> /\ c.kind = "reload"
  BY DEF ReloadAnswered
<1>2. CASE c.newest /\ r \in ListedRows
  <2> DEFINE cs == Sent(calls \ {c}, "derived", KeyOf(r))
  <2>1. /\ selecting' = r /\ mode' = "editor" /\ shown' = NoneSelected
        /\ SetSelected(KeyOf(r), cs, KeyOf(r), TRUE)
    BY <1>2 DEF ReloadAnswered
  <2>2. cs \in SUBSET Call
    BY <1>0, <1>2, SentTyped, KeysTyped
  <2> HIDE DEF cs
  <2>3. {selected', suppress'} \subseteq RequestKey /\ calls' \in SUBSET Call /\ loading' \in BOOLEAN
    BY <1>0, <1>2, <2>1, <2>2, SetSelectedTyped
  <2>4. EditorTypeOK'
    BY <1>0, <1>1, <1>2, <2>1, <2>3 DEF EditorTypeOK
  <2>5. ~calm
    BY <1>1, <1>2, KeysTyped DEF EditorInv, CalmFits, CalmCalls, CalmCall
  <2>6. QED
    BY <1>1, <2>4, <2>5 DEF EditorInv, CalmFits, ShownIsSelected
<1>3. CASE ~(c.newest /\ r \in ListedRows)
  <2>1. /\ calls' = calls \ {c}
        /\ UNCHANGED <<mode, selecting, shown, selected, suppress, loading>>
    BY <1>3 DEF ReloadAnswered
  <2>2. EditorTypeOK'
    BY <1>0, <1>1, <2>1 DEF EditorTypeOK
  <2>3. QED
    BY <1>1, <2>1, <2>2 DEF EditorInv, CalmFits, CalmCalls, ShownIsSelected
<1>4. QED
  BY <1>2, <1>3

(* Failures, saves and executions belong to sessions that are not calm.       *)
LEMMA SavedKeeps ==
    ASSUME EditorInv, NEW c \in calls,
           \/ SelectFailed(c) \/ DerivedFailed(c) \/ OtherFailed(c)
           \/ SaveAnswered(c) \/ ExecuteSaved(c) \/ ExecuteAnswered(c)
    PROVE  EditorInv'
<1>0. /\ EditorTypeOK /\ suppress \in RequestKey /\ calls \ {c} \in SUBSET Call
      /\ c.key \in RequestKey /\ loading \in BOOLEAN
  BY EditorTyped DEF EditorInv, EditorTypeOK
<1>1. ~calm /\ calm' = calm
  <2>1. c.kind \in {"save", "presave", "execute"} => ~calm
    BY DEF EditorInv, CalmFits, CalmCalls, CalmCall
  <2>2. QED
    BY <2>1 DEF SelectFailed, DerivedFailed, OtherFailed, SaveAnswered, ExecuteSaved, ExecuteAnswered
<1>2. SUFFICES EditorTypeOK'
  BY <1>1 DEF EditorInv, CalmFits, ShownIsSelected
<1>3. CASE SelectFailed(c) \/ DerivedFailed(c)
  <2>1. /\ UNCHANGED <<calm, stored, mode, selected, shown, suppress>> /\ calls' = calls \ {c}
        /\ selecting' \in {selecting, NoneSelected}
    BY <1>3 DEF SelectFailed, DerivedFailed
  <2>2. loading' \in BOOLEAN
    BY <1>3 DEF SelectFailed, DerivedFailed
  <2>3. QED
    BY <1>0, <2>1, <2>2 DEF EditorTypeOK
<1>4. CASE OtherFailed(c)
  BY <1>0, <1>4 DEF OtherFailed, EditorTypeOK
<1>5. CASE SaveAnswered(c) \/ ExecuteSaved(c)
  <2>1. /\ UNCHANGED <<calm, mode, shown, selecting>>
        /\ stored' = [stored EXCEPT ![c.key.row] = c.key.env]
        /\ \/ SetSelected(c.key, Sent(Overtaken(calls \ {c}, {"select"}), "reload", c.key),
                          suppress, loading)
           \/ SetSelected(c.key, Sent(calls \ {c}, "execute", c.key), suppress, loading)
    BY <1>5 DEF SaveAnswered, ExecuteSaved
  <2>2. /\ Sent(Overtaken(calls \ {c}, {"select"}), "reload", c.key) \in SUBSET Call
        /\ Sent(calls \ {c}, "execute", c.key) \in SUBSET Call
    <3>1. Overtaken(calls \ {c}, {"select"}) \in SUBSET Call
      BY <1>0, OvertakenTyped
    <3>2. QED
      BY <1>0, <3>1, SentTyped, KeysTyped
  <2>3. {selected', suppress'} \subseteq RequestKey /\ calls' \in SUBSET Call /\ loading' \in BOOLEAN
    BY <1>0, <2>1, <2>2, SetSelectedTyped
  <2>4. stored' \in [ListedRows -> Environments]
    BY <1>0, <2>1, KeysTyped DEF EditorTypeOK
  <2>5. QED
    BY <1>0, <2>1, <2>3, <2>4 DEF EditorTypeOK
<1>6. CASE ExecuteAnswered(c)
  <2>1. calls' \in SUBSET Call
    BY <1>0, <1>6, SentTyped, KeysTyped DEF ExecuteAnswered
  <2>2. QED
    BY <1>0, <1>6, <2>1 DEF ExecuteAnswered, EditorTypeOK
<1>7. QED
  BY <1>3, <1>4, <1>5, <1>6

LEMMA EditorNextInv == EditorInv /\ [EditorNext]_editorVars => EditorInv'
<1> SUFFICES ASSUME EditorInv, [EditorNext]_editorVars PROVE EditorInv'
  OBVIOUS
<1>1. CASE EditorNext
  BY <1>1, UserStepKeeps, SelectionAnswered, ReloadAnsweredKeeps, SavedKeeps
     DEF EditorNext, UserStep
<1>2. CASE UNCHANGED editorVars
  BY <1>2 DEF editorVars, EditorInv, EditorTypeOK, CalmFits, CalmCalls, ShownIsSelected
<1>3. QED
  BY <1>1, <1>2

(* The inductive invariant of an editor session: in a calm session the calls   *)
(* under way and the views on screen are those of the selected request.        *)
THEOREM EditorInvariant == EditorSpec => []EditorInv
  BY EditorInitInv, EditorNextInv, PTL DEF EditorSpec

(* A calm session that is not loading shows the views of the selected request, *)
(* in whatever order the answers of any number of calls come.                  *)
THEOREM ShownIsSelectedHolds == EditorSpec => []ShownIsSelected
<1>1. EditorInv => ShownIsSelected
  BY DEF EditorInv
<1>2. QED
  BY <1>1, EditorInvariant, PTL

-------------------------------------------------------------------------------
(* ApiRegistry: what holds between rows, shares, review screens and pages.     *)
Submitted(s) == shares[s].row # 0
SharesFit ==
    \A s \in Share :
        /\ ~Submitted(s) => shares[s] = NoShare
        /\ Submitted(s) => /\ Used(shares[s].row)
                           /\ Len(shares[s].revisions) > 0
                           /\ Len(shares[s].revisions) <= MaxRevisions
                           /\ shares[s].status = "PENDING_REVIEW"
                                 => LastRevision(s).status = "PENDING_REVIEW"

ShownContent(k, s) ==
    LET n == screens[k].rowVersion.revisions
    IN  /\ n \in 1..Len(shares[s].revisions)
        /\ screens[k].content = {shares[s].revisions[n].content}
ScreensFit == \A k \in Reviewers : screens[k].share # 0 => ShownContent(k, screens[k].share)

TabsFit ==
    \A u \in Users : tabs[u].row # 0 =>
        /\ Used(tabs[u].row)
        /\ tabs[u].copy.status # "UNUSED"
        /\ tabs[u].copy.api = rows[tabs[u].row].api
        /\ tabs[u].copy.version = rows[tabs[u].row].version
        /\ tabs[u].copy.sharing = "APPROVED"
              => WasApproved(rows[tabs[u].row].api, rows[tabs[u].row].version)

FlightsFit == \A f \in flights : f.sent = f.object
ReferencesFit == \A r \in Row : references[r] # "none" => Used(r)

RegistryInv ==
    /\ RegistryTypeOK
    /\ SharesFit /\ ScreensFit /\ TabsFit /\ FlightsFit /\ ReferencesFit
    /\ EvidenceIsOfOneDefinition
    /\ PublishedWasApproved

(* What no step takes back: the API and version of a row, the row of a share, *)
(* and its revisions.                                                         *)
RowsKept ==
    \A r \in Row : Used(r) => /\ rows'[r].status # "UNUSED"
                              /\ rows'[r].api = rows[r].api /\ rows'[r].version = rows[r].version
SharesKept == \A s \in Share : Submitted(s) => shares'[s].row = shares[s].row
HistoryStep ==
    \A s \in Share :
       /\ Len(shares'[s].revisions) >= Len(shares[s].revisions)
       /\ \A n \in 1..Len(shares[s].revisions) :
             /\ shares'[s].revisions[n].content = shares[s].revisions[n].content
             /\ shares[s].revisions[n].status # "PENDING_REVIEW"
                   => shares'[s].revisions[n] = shares[s].revisions[n]
ApprovalsKept == \A a, v : WasApproved(a, v) => WasApproved(a, v)'

LEMMA RegistryRows ==
    ASSUME RegistryTypeOK
    PROVE  /\ \A r \in Row : rows[r] \in RowRecord
           /\ \A s \in Share : /\ shares[s] \in ShareRecord
                               /\ shares[s].row \in 0..MaxRows
                               /\ shares[s].revisions \in Seq(Revision)
                               /\ Len(shares[s].revisions) \in Nat
                               /\ \A n \in 1..Len(shares[s].revisions) :
                                     shares[s].revisions[n] \in Revision
  BY DEF RegistryTypeOK, ShareRecord

LEMMA UnchangedHistory ==
    ASSUME RegistryTypeOK, UNCHANGED shares PROVE SharesKept /\ HistoryStep
  BY RegistryRows DEF SharesKept, HistoryStep

LEMMA KeptApprovals ==
    ASSUME RegistryTypeOK, SharesFit, RowsKept, SharesKept, HistoryStep PROVE ApprovalsKept
<1> SUFFICES ASSUME NEW a, NEW v, WasApproved(a, v) PROVE WasApproved(a, v)'
  BY DEF ApprovalsKept
<1>1. PICK s \in Share : /\ shares[s].row # 0
                         /\ rows[shares[s].row].api = a
                         /\ rows[shares[s].row].version = v
                         /\ \E n \in 1..Len(shares[s].revisions) :
                               shares[s].revisions[n].status = "APPROVED"
  BY DEF WasApproved
<1>2. PICK n \in 1..Len(shares[s].revisions) : shares[s].revisions[n].status = "APPROVED"
  BY <1>1
<1>3. shares[s].row \in Row /\ Used(shares[s].row) /\ Len(shares[s].revisions) \in Nat
  BY <1>1, RegistryRows DEF SharesFit, Submitted, Row
<1>4. /\ shares'[s].row = shares[s].row
      /\ rows'[shares[s].row].api = a /\ rows'[shares[s].row].version = v
  BY <1>1, <1>3 DEF SharesKept, RowsKept, Submitted
<1>5. shares'[s].revisions[n].status = "APPROVED" /\ n \in 1..Len(shares'[s].revisions)
  <2>1. shares'[s].revisions[n] = shares[s].revisions[n]
    BY <1>2 DEF HistoryStep
  <2>2. Len(shares'[s].revisions) >= Len(shares[s].revisions)
    BY DEF HistoryStep
  <2>3. n \in Nat /\ 1 <= n /\ n <= Len(shares[s].revisions)
    BY <1>3
  <2>4. n \in 1..Len(shares'[s].revisions)
    BY <1>3, <2>2, <2>3
  <2>5. QED
    BY <1>2, <2>1, <2>4
<1>6. QED
  BY <1>1, <1>4, <1>5 DEF WasApproved

LEMMA KeptTabs ==
    ASSUME RegistryTypeOK, TabsFit, RowsKept, ApprovalsKept, UNCHANGED tabs PROVE TabsFit'
<1> SUFFICES ASSUME NEW u \in Users, tabs[u].row # 0
             PROVE  /\ Used(tabs[u].row)'
                    /\ tabs[u].copy.status # "UNUSED"
                    /\ tabs[u].copy.api = rows'[tabs[u].row].api
                    /\ tabs[u].copy.version = rows'[tabs[u].row].version
                    /\ tabs[u].copy.sharing = "APPROVED"
                          => WasApproved(tabs[u].copy.api, tabs[u].copy.version)'
  BY DEF TabsFit, Used, WasApproved
<1>1. tabs[u].row \in Row
  BY DEF RegistryTypeOK, Row
<1>2. /\ Used(tabs[u].row) /\ tabs[u].copy.status # "UNUSED"
      /\ tabs[u].copy.api = rows[tabs[u].row].api
      /\ tabs[u].copy.version = rows[tabs[u].row].version
      /\ tabs[u].copy.sharing = "APPROVED" => WasApproved(tabs[u].copy.api, tabs[u].copy.version)
  BY DEF TabsFit
<1>3. /\ rows'[tabs[u].row].status # "UNUSED"
      /\ rows'[tabs[u].row].api = rows[tabs[u].row].api
      /\ rows'[tabs[u].row].version = rows[tabs[u].row].version
  BY <1>1, <1>2 DEF RowsKept
<1>4. ASSUME NEW a, NEW v, WasApproved(a, v)
      PROVE  \E s \in Share : /\ shares'[s].row # 0
                              /\ rows'[shares'[s].row].api = a
                              /\ rows'[shares'[s].row].version = v
                              /\ \E n \in 1..Len(shares'[s].revisions) :
                                    shares'[s].revisions[n].status = "APPROVED"
  <2>1. WasApproved(a, v)'
    BY <1>4 DEF ApprovalsKept
  <2>2. QED
    BY <2>1 DEF WasApproved
<1>5. QED
  BY <1>2, <1>3, <1>4 DEF Used, WasApproved

(* Screens keep showing the revision they were opened on.                     *)
LEMMA KeptScreen ==
    ASSUME RegistryTypeOK, ScreensFit, HistoryStep, NEW k \in Reviewers, screens[k].share # 0,
           screens'[k] = screens[k]
    PROVE  ShownContent(k, screens[k].share)'
<1> DEFINE s == screens[k].share
           n == screens[k].rowVersion.revisions
<1>1. s \in Share
  BY DEF RegistryTypeOK, Share
<1>2. n \in 1..Len(shares[s].revisions) /\ screens[k].content = {shares[s].revisions[n].content}
  BY DEF ScreensFit, ShownContent
<1>3. Len(shares[s].revisions) \in Nat /\ Len(shares'[s].revisions) >= Len(shares[s].revisions)
  BY <1>1, RegistryRows DEF HistoryStep
<1>4. shares'[s].revisions[n].content = shares[s].revisions[n].content
  BY <1>1, <1>2 DEF HistoryStep
<1>5. n \in 1..Len(shares'[s].revisions)
  <2>1. n \in Nat /\ 1 <= n /\ n <= Len(shares[s].revisions)
    BY <1>2, <1>3
  <2> HIDE DEF n, s
  <2>2. QED
    BY <1>3, <2>1
<1>6. QED
  BY <1>2, <1>4, <1>5 DEF ShownContent

LEMMA KeptScreens ==
    ASSUME RegistryTypeOK, ScreensFit, HistoryStep, UNCHANGED screens PROVE ScreensFit'
  BY KeptScreen DEF ScreensFit

-------------------------------------------------------------------------------
(* Steps that set one row, or none.                                           *)
OneRow(r, row) ==
    /\ rows' = [rows EXCEPT ![r] = row]
    /\ row \in RowRecord
    /\ Used(r) => row.status # "UNUSED" /\ row.api = rows[r].api /\ row.version = rows[r].version

LEMMA OneRowKeeps ==
    ASSUME RegistryTypeOK, NEW r \in Row, NEW row, OneRow(r, row)
    PROVE  RowsKept /\ rows' \in [Row -> RowRecord]
<1>1. rows \in [Row -> RowRecord]
  BY DEF RegistryTypeOK
<1>2. rows' = [rows EXCEPT ![r] = row] /\ row \in RowRecord
  BY DEF OneRow
<1>3. rows' \in [Row -> RowRecord]
  BY <1>1, <1>2
<1>4. ASSUME NEW q \in Row, Used(q)
      PROVE  /\ rows'[q].status # "UNUSED"
             /\ rows'[q].api = rows[q].api /\ rows'[q].version = rows[q].version
  <2>1. CASE q = r
    <3>1. rows'[q] = row
      BY <1>1, <1>2, <2>1
    <3>2. QED
      BY <1>4, <2>1, <3>1 DEF OneRow
  <2>2. CASE q # r
    <3>1. rows'[q] = rows[q]
      BY <1>1, <1>2, <2>2
    <3>2. QED
      BY <1>4, <3>1 DEF Used
  <2>3. QED
    BY <2>1, <2>2
<1>5. QED
  BY <1>3, <1>4 DEF RowsKept

LEMMA OneRowPublished ==
    ASSUME RegistryTypeOK, PublishedWasApproved, ApprovalsKept, NEW r \in Row, NEW row,
           OneRow(r, row),
           row.sharing = "APPROVED" /\ row.status # "UNUSED" => WasApproved(row.api, row.version)'
    PROVE  PublishedWasApproved'
<1> SUFFICES ASSUME NEW q \in Row, rows'[q].status # "UNUSED", rows'[q].sharing = "APPROVED"
             PROVE  \E s \in Share :
                       /\ shares'[s].row # 0
                       /\ rows'[shares'[s].row].api = rows'[q].api
                       /\ rows'[shares'[s].row].version = rows'[q].version
                       /\ \E n \in 1..Len(shares'[s].revisions) :
                             shares'[s].revisions[n].status = "APPROVED"
  BY DEF PublishedWasApproved, Used, WasApproved
<1>1. CASE q = r
  <2>1. rows'[q] = row
    BY <1>1 DEF OneRow, RegistryTypeOK
  <2>2. QED
    BY <2>1 DEF WasApproved
<1>2. CASE q # r
  <2>1. rows'[q] = rows[q]
    BY <1>2 DEF OneRow, RegistryTypeOK
  <2>2. WasApproved(rows[q].api, rows[q].version)
    BY <2>1 DEF PublishedWasApproved, Used
  <2>3. \A a, v : WasApproved(a, v) =>
            \E s \in Share : /\ shares'[s].row # 0
                             /\ rows'[shares'[s].row].api = a
                             /\ rows'[shares'[s].row].version = v
                             /\ \E n \in 1..Len(shares'[s].revisions) :
                                   shares'[s].revisions[n].status = "APPROVED"
    BY DEF ApprovalsKept, WasApproved
  <2>4. QED
    BY <2>1, <2>2, <2>3
<1>3. QED
  BY <1>1, <1>2

(* A step that leaves shares and screens, and sets one row: what is left to    *)
(* show is that the row set may be published, and the page that saved it.      *)
LEMMA RowStepKeeps ==
    ASSUME RegistryInv, UNCHANGED <<shares, screens>>, NEW r \in Row, NEW row, OneRow(r, row),
           row.sharing = "APPROVED" /\ row.status # "UNUSED" => WasApproved(row.api, row.version)
    PROVE  /\ SharesFit' /\ ScreensFit' /\ PublishedWasApproved' /\ ApprovalsKept /\ RowsKept
           /\ (UNCHANGED tabs => TabsFit') /\ (UNCHANGED references => ReferencesFit')
           /\ rows' \in [Row -> RowRecord]
<1>0. /\ RegistryTypeOK /\ SharesFit /\ ScreensFit /\ TabsFit /\ PublishedWasApproved
  BY DEF RegistryInv
<1>1. RowsKept /\ rows' \in [Row -> RowRecord]
  BY <1>0, OneRowKeeps
<1>2. SharesKept /\ HistoryStep
  BY <1>0, UnchangedHistory
<1>3. ApprovalsKept
  BY <1>0, <1>1, <1>2, KeptApprovals
<1>4. SharesFit'
  <2>1. \A s \in Share : Submitted(s) => shares[s].row \in Row
    BY <1>0, RegistryRows DEF Submitted, Row
  <2>2. QED
    BY <1>0, <1>1, <2>1 DEF SharesFit, Submitted, Used, RowsKept, LastRevision
<1>5. ScreensFit'
  BY <1>0, <1>2, KeptScreens
<1>6. PublishedWasApproved'
  <2>1. WasApproved(row.api, row.version) => WasApproved(row.api, row.version)'
    BY <1>3 DEF ApprovalsKept
  <2>2. QED
    BY <1>0, <1>3, <2>1, OneRowPublished
<1>7. UNCHANGED tabs => TabsFit'
  BY <1>0, <1>1, <1>3, KeptTabs
<1>8. UNCHANGED references => ReferencesFit'
  BY <1>1 DEF RegistryInv, ReferencesFit, RowsKept, Used
<1>9. QED
  BY <1>1, <1>3, <1>4, <1>5, <1>6, <1>7, <1>8

LEMMA SameRows ==
    ASSUME RegistryInv, UNCHANGED <<rows, shares>>
    PROVE  SharesFit' /\ PublishedWasApproved' /\ ApprovalsKept /\ RowsKept /\ HistoryStep
           /\ (UNCHANGED screens => ScreensFit') /\ (UNCHANGED tabs => TabsFit')
           /\ (UNCHANGED references => ReferencesFit')
<1>1. RegistryTypeOK /\ SharesFit /\ ScreensFit /\ TabsFit /\ PublishedWasApproved
  BY DEF RegistryInv
<1>2. RowsKept /\ SharesKept /\ HistoryStep
  BY <1>1, UnchangedHistory DEF RowsKept, Used
<1>3. ApprovalsKept
  BY <1>1, <1>2, KeptApprovals
<1>4. SharesFit'
  BY <1>1 DEF SharesFit, Submitted, Used, LastRevision
<1>5. PublishedWasApproved'
  BY <1>1 DEF PublishedWasApproved, Used, WasApproved
<1>6. UNCHANGED references => ReferencesFit'
  BY DEF RegistryInv, ReferencesFit, Used
<1>7. QED
  BY <1>1, <1>2, <1>3, <1>4, <1>5, <1>6, KeptScreens, KeptTabs

-------------------------------------------------------------------------------
(* Rows of the operations.                                                    *)
LEMMA RowFields ==
    ASSUME NEW row \in RowRecord
    PROVE  /\ [row EXCEPT !.status = "ARCHIVED"] \in RowRecord
           /\ [row EXCEPT !.status = "ARCHIVED"].status = "ARCHIVED"
           /\ [row EXCEPT !.status = "ARCHIVED"].sharing = row.sharing
           /\ [row EXCEPT !.status = "ARCHIVED"].api = row.api
           /\ [row EXCEPT !.status = "ARCHIVED"].version = row.version
           /\ \A s \in Sharing : /\ [row EXCEPT !.sharing = s] \in RowRecord
                                 /\ [row EXCEPT !.sharing = s].status = row.status
                                 /\ [row EXCEPT !.sharing = s].sharing = s
                                 /\ [row EXCEPT !.sharing = s].api = row.api
                                 /\ [row EXCEPT !.sharing = s].version = row.version
           /\ \A d \in Defs : /\ [row EXCEPT !.def = d] \in RowRecord
                              /\ [row EXCEPT !.def = d].status = row.status
                              /\ [row EXCEPT !.def = d].sharing = row.sharing
                              /\ [row EXCEPT !.def = d].api = row.api
                              /\ [row EXCEPT !.def = d].version = row.version
  BY DEF RowRecord

LEMMA NewRowTyped ==
    ASSUME NEW r \in Row, NEW u \in Users, NEW c \in Collection
    PROVE  NewRow(r, u, c) \in RowRecord /\ NewRow(r, u, c).sharing = "DRAFT"
<1>1. 1 \in 0..MaxVersion /\ r \in 0..MaxRows /\ FirstDef \in Defs
  BY RegistryAssumption DEF Row
<1>2. {c[2]} \subseteq Apps /\ {c} \subseteq Collection /\ {u} \subseteq Users
  BY DEF Collection
<1>3. QED
  BY <1>1, <1>2 DEF NewRow, RowRecord, Sharing

LEMMA NextVersionTyped ==
    ASSUME RegistryTypeOK, NEW r \in Row, NEW v \in Ver
    PROVE  NextVersion(r, v) \in RowRecord /\ NextVersion(r, v).sharing = "DRAFT"
<1>1. v \in 0..MaxVersion /\ rows[r] \in RowRecord
  BY RegistryRows, RegistryAssumption DEF Ver
<1>2. QED
  BY <1>1 DEF NextVersion, RowRecord, Sharing

LEMMA ReferenceRowTyped ==
    ASSUME RegistryTypeOK, NEW r \in Row, NEW u \in Users, NEW c \in SUBSET Collection
    PROVE  /\ ReferenceRow(u, r, c) \in RowRecord
           /\ ReferenceRow(u, r, c).status = "ACTIVE"
           /\ ReferenceRow(u, r, c).api = rows[r].api
           /\ ReferenceRow(u, r, c).version = rows[r].version
<1>1. rows[r] \in RowRecord
  BY RegistryRows
<1>2. QED
  BY <1>1 DEF ReferenceRow, RowRecord, Sharing

(* The conjuncts a step may disturb beside those of its rows.                 *)
LEMMA RowOperationKeeps ==
    ASSUME RegistryInv, NEW u \in Users, RowOperation(u) PROVE RegistryInv' /\ HistoryStep
<1>0. /\ RegistryTypeOK /\ SharesFit /\ ScreensFit /\ TabsFit /\ PublishedWasApproved
      /\ FlightsFit /\ EvidenceIsOfOneDefinition
  BY DEF RegistryInv
<1>1. UNCHANGED <<shares, consumers, receipts, screens, references, flights, evidence>>
  BY DEF RowOperation, CreateCollection, CreateRequest, OpenTab, SaveRow, ArchiveRow, CreateVersion,
     sharingVars
<1>2. FlightsFit' /\ EvidenceIsOfOneDefinition' /\ HistoryStep
  BY <1>0, <1>1, UnchangedHistory DEF FlightsFit, EvidenceIsOfOneDefinition
<1>3. ASSUME rows' \in [Row -> RowRecord], collections' \subseteq Collection,
             tabs' \in [Users -> [row : 0..MaxRows, copy : RowRecord]]
      PROVE  RegistryTypeOK'
  BY <1>0, <1>1, <1>3 DEF RegistryTypeOK
<1>4. ASSUME NEW r \in Row, NEW row, OneRow(r, row),
             row.sharing = "APPROVED" /\ row.status # "UNUSED" => WasApproved(row.api, row.version),
             UNCHANGED <<collections, tabs>>
      PROVE  RegistryInv'
  <2>1. /\ SharesFit' /\ ScreensFit' /\ PublishedWasApproved' /\ TabsFit' /\ ReferencesFit'
        /\ rows' \in [Row -> RowRecord]
    BY <1>1, <1>4, RowStepKeeps
  <2>2. RegistryTypeOK'
    BY <1>0, <1>3, <1>4, <2>1 DEF RegistryTypeOK
  <2>3. QED
    BY <1>2, <2>1, <2>2 DEF RegistryInv
<1>5. ASSUME NEW a \in Apps, CreateCollection(u, a) PROVE RegistryInv'
  <2>1. UNCHANGED <<rows, tabs>> /\ collections' = collections \cup {<<u, a>>}
    BY <1>5 DEF CreateCollection
  <2>2. <<u, a>> \in Collection
    BY DEF Collection
  <2>3. RegistryTypeOK'
    BY <1>0, <1>3, <2>1, <2>2 DEF RegistryTypeOK
  <2>4. QED
    BY <1>1, <1>2, <2>1, <2>3, SameRows DEF RegistryInv
<1>6. ASSUME NEW c \in Collection, CreateRequest(u, c) PROVE RegistryInv'
  <2>1. PICK r \in Row : IsFreshRow(r) /\ rows' = [rows EXCEPT ![r] = NewRow(r, u, c)]
    BY <1>6 DEF CreateRequest
  <2>2. OneRow(r, NewRow(r, u, c))
    BY <2>1, NewRowTyped DEF OneRow, IsFreshRow
  <2>3. UNCHANGED <<collections, tabs>>
    BY <1>6 DEF CreateRequest
  <2>4. NewRow(r, u, c).sharing # "APPROVED"
    BY NewRowTyped
  <2>5. QED
    BY <1>4, <2>2, <2>3, <2>4
<1>7. ASSUME NEW r \in Row, OpenTab(u, r) PROVE RegistryInv'
  <2>1. /\ Used(r) /\ UNCHANGED <<rows, collections>>
        /\ tabs' = [tabs EXCEPT ![u] = [row |-> r, copy |-> rows[r]]]
    BY <1>7 DEF OpenTab, Owns
  <2>2. tabs' \in [Users -> [row : 0..MaxRows, copy : RowRecord]]
    BY <1>0, <2>1, RegistryRows DEF RegistryTypeOK, Row
  <2>3. RegistryTypeOK'
    BY <1>0, <1>3, <2>1, <2>2 DEF RegistryTypeOK
  <2>4. TabsFit'
    <3> SUFFICES ASSUME NEW w \in Users, tabs'[w].row # 0
                 PROVE  /\ Used(tabs'[w].row)
                        /\ tabs'[w].copy.status # "UNUSED"
                        /\ tabs'[w].copy.api = rows[tabs'[w].row].api
                        /\ tabs'[w].copy.version = rows[tabs'[w].row].version
                        /\ tabs'[w].copy.sharing = "APPROVED"
                              => WasApproved(rows[tabs'[w].row].api, rows[tabs'[w].row].version)
      BY <1>1, <2>1 DEF TabsFit, Used, WasApproved
    <3>1. CASE w = u
      <4>1. tabs'[w] = [row |-> r, copy |-> rows[r]]
        BY <1>0, <2>1, <3>1 DEF RegistryTypeOK
      <4>2. Used(r) /\ rows[r].status # "UNUSED"
        BY <2>1 DEF Used
      <4>3. rows[r].sharing = "APPROVED" => WasApproved(rows[r].api, rows[r].version)
        BY <1>0, <2>1 DEF PublishedWasApproved
      <4>4. QED
        BY <4>1, <4>2, <4>3
    <3>2. CASE w # u
      <4>1. tabs'[w] = tabs[w]
        BY <1>0, <2>1, <3>2 DEF RegistryTypeOK
      <4>2. QED
        BY <1>0, <4>1 DEF TabsFit
    <3>3. QED
      BY <3>1, <3>2
  <2>5. QED
    BY <1>1, <1>2, <2>1, <2>3, <2>4, SameRows DEF RegistryInv
<1>8. ASSUME NEW d \in Defs, SaveRow(u, d) PROVE RegistryInv'
  <2> DEFINE r == tabs[u].row
             row == Patched(u, d)
  <2>1. /\ r # 0 /\ UNCHANGED collections
        /\ rows' = [rows EXCEPT ![r] = row] /\ tabs' = [tabs EXCEPT ![u].copy = row]
    BY <1>8 DEF SaveRow
  <2>2. tabs[u] \in [row : 0..MaxRows, copy : RowRecord] /\ r \in Row
    BY <1>0, <2>1 DEF RegistryTypeOK, Row
  <2>3. /\ row \in RowRecord /\ row.status # "UNUSED"
        /\ row.api = rows[r].api /\ row.version = rows[r].version
        /\ row.sharing = tabs[u].copy.sharing
    <3>1. tabs[u].copy \in RowRecord
      BY <2>2
    <3>2. /\ row \in RowRecord /\ row.status = tabs[u].copy.status
          /\ row.api = tabs[u].copy.api /\ row.version = tabs[u].copy.version
          /\ row.sharing = tabs[u].copy.sharing
      BY <3>1, RowFields DEF Patched
    <3> HIDE DEF row
    <3>3. QED
      BY <1>0, <2>1, <3>2 DEF TabsFit
  <2>4. row.sharing = "APPROVED" => WasApproved(row.api, row.version)
    BY <1>0, <2>1, <2>3 DEF TabsFit
  <2> HIDE DEF row
  <2>5. OneRow(r, row)
    BY <2>1, <2>3 DEF OneRow
  <2>6. /\ SharesFit' /\ ScreensFit' /\ PublishedWasApproved' /\ ApprovalsKept /\ RowsKept
        /\ ReferencesFit' /\ rows' \in [Row -> RowRecord]
    BY <1>1, <2>2, <2>4, <2>5, RowStepKeeps
  <2>7. /\ tabs' \in [Users -> [row : 0..MaxRows, copy : RowRecord]]
        /\ tabs'[u].row = r /\ tabs'[u].copy = row
        /\ \A w \in Users : w # u => tabs'[w] = tabs[w]
    BY <1>0, <2>1, <2>2, <2>3 DEF RegistryTypeOK
  <2>8. RegistryTypeOK'
    BY <1>0, <1>3, <2>1, <2>6, <2>7 DEF RegistryTypeOK
  <2>9. TabsFit'
    <3> SUFFICES ASSUME NEW w \in Users, tabs'[w].row # 0
                 PROVE  /\ rows'[tabs'[w].row].status # "UNUSED"
                        /\ tabs'[w].copy.status # "UNUSED"
                        /\ tabs'[w].copy.api = rows'[tabs'[w].row].api
                        /\ tabs'[w].copy.version = rows'[tabs'[w].row].version
                        /\ tabs'[w].copy.sharing = "APPROVED" =>
                              \E s \in Share :
                                 /\ shares'[s].row # 0
                                 /\ rows'[shares'[s].row].api = tabs'[w].copy.api
                                 /\ rows'[shares'[s].row].version = tabs'[w].copy.version
                                 /\ \E n \in 1..Len(shares'[s].revisions) :
                                       shares'[s].revisions[n].status = "APPROVED"
      BY DEF TabsFit, Used, WasApproved
    <3>1. \A a, v : WasApproved(a, v) =>
              \E s \in Share : /\ shares'[s].row # 0
                               /\ rows'[shares'[s].row].api = a
                               /\ rows'[shares'[s].row].version = v
                               /\ \E n \in 1..Len(shares'[s].revisions) :
                                     shares'[s].revisions[n].status = "APPROVED"
      BY <2>6 DEF ApprovalsKept, WasApproved
    <3>2. CASE w = u
      <4>1. rows'[r] = row
        BY <1>0, <2>1, <2>2 DEF RegistryTypeOK
      <4>2. QED
        BY <2>3, <2>4, <2>7, <3>1, <3>2, <4>1
    <3>3. CASE w # u
      <4>1. tabs'[w] = tabs[w] /\ tabs[w].row \in Row
        BY <1>0, <2>7, <3>3 DEF RegistryTypeOK, Row
      <4>2. /\ Used(tabs[w].row) /\ tabs[w].copy.status # "UNUSED"
            /\ tabs[w].copy.api = rows[tabs[w].row].api
            /\ tabs[w].copy.version = rows[tabs[w].row].version
            /\ tabs[w].copy.sharing = "APPROVED" => WasApproved(tabs[w].copy.api, tabs[w].copy.version)
        BY <1>0, <4>1 DEF TabsFit
      <4>3. /\ rows'[tabs[w].row].status # "UNUSED"
            /\ rows'[tabs[w].row].api = rows[tabs[w].row].api
            /\ rows'[tabs[w].row].version = rows[tabs[w].row].version
        BY <2>6, <4>1, <4>2 DEF RowsKept
      <4>4. QED
        BY <3>1, <4>1, <4>2, <4>3
    <3>4. QED
      BY <3>2, <3>3
  <2>10. QED
    BY <1>2, <2>6, <2>8, <2>9 DEF RegistryInv
<1>9. ASSUME NEW r \in Row, ArchiveRow(u, r) PROVE RegistryInv'
  <2> DEFINE row == [rows[r] EXCEPT !.status = "ARCHIVED"]
  <2>1. Used(r) /\ rows' = [rows EXCEPT ![r] = row] /\ UNCHANGED <<collections, tabs>>
    BY <1>9 DEF ArchiveRow, Owns
  <2>2. /\ row \in RowRecord /\ row.status = "ARCHIVED" /\ row.sharing = rows[r].sharing
        /\ row.api = rows[r].api /\ row.version = rows[r].version
    BY <1>0, RegistryRows, RowFields
  <2> HIDE DEF row
  <2>3. OneRow(r, row)
    BY <2>1, <2>2 DEF OneRow
  <2>4. row.sharing = "APPROVED" => WasApproved(row.api, row.version)
    BY <1>0, <2>1, <2>2 DEF PublishedWasApproved
  <2>5. QED
    BY <1>4, <2>1, <2>3, <2>4
<1>10. ASSUME NEW r \in Row, NEW v \in Ver, CreateVersion(u, r, v) PROVE RegistryInv'
  <2>1. PICK q \in Row : IsFreshRow(q) /\ rows' = [rows EXCEPT ![q] = NextVersion(r, v)]
    BY <1>10 DEF CreateVersion
  <2>2. OneRow(q, NextVersion(r, v))
    BY <1>0, <2>1, NextVersionTyped DEF OneRow, IsFreshRow
  <2>3. UNCHANGED <<collections, tabs>>
    BY <1>10 DEF CreateVersion
  <2>4. NextVersion(r, v).sharing # "APPROVED"
    BY <1>0, NextVersionTyped
  <2>5. QED
    BY <1>4, <2>2, <2>3, <2>4
<1>11. RegistryInv'
  BY <1>5, <1>6, <1>7, <1>8, <1>9, <1>10 DEF RowOperation
<1>12. QED
  BY <1>2, <1>11

-------------------------------------------------------------------------------
(* A step on one share.                                                       *)
RevisionsGrow(old, new) ==
    /\ Len(new) >= Len(old)
    /\ \A n \in 1..Len(old) :
          /\ new[n].content = old[n].content
          /\ old[n].status # "PENDING_REVIEW" => new[n] = old[n]

OneShare(s, share) ==
    /\ shares' = [shares EXCEPT ![s] = share]
    /\ share \in ShareRecord
    /\ Submitted(s) => share.row = shares[s].row
    /\ RevisionsGrow(shares[s].revisions, share.revisions)
    /\ share.row # 0 /\ Len(share.revisions) > 0 /\ Len(share.revisions) <= MaxRevisions
    /\ share.status = "PENDING_REVIEW" =>
          share.revisions[Len(share.revisions)].status = "PENDING_REVIEW"

LEMMA OneShareKeeps ==
    ASSUME RegistryTypeOK, NEW s \in Share, NEW share, OneShare(s, share)
    PROVE  SharesKept /\ HistoryStep /\ shares' \in [Share -> ShareRecord] /\ shares'[s] = share
<1>1. shares \in [Share -> ShareRecord]
  BY DEF RegistryTypeOK
<1>2. shares' = [shares EXCEPT ![s] = share] /\ share \in ShareRecord
  BY DEF OneShare
<1>3. shares' \in [Share -> ShareRecord] /\ shares'[s] = share
  BY <1>1, <1>2
<1>4. \A t \in Share : t # s => shares'[t] = shares[t]
  BY <1>1, <1>2
<1>5. \A t \in Share : RevisionsGrow(shares[t].revisions, shares'[t].revisions)
  <2>1. \A t \in Share : RevisionsGrow(shares[t].revisions, shares[t].revisions)
    BY RegistryRows DEF RevisionsGrow
  <2>2. QED
    BY <1>3, <1>4, <2>1 DEF OneShare
<1>6. HistoryStep
  BY <1>5 DEF HistoryStep, RevisionsGrow
<1>7. SharesKept
  BY <1>3, <1>4 DEF SharesKept, OneShare
<1>8. QED
  BY <1>3, <1>6, <1>7

(* Sharing and decisions set one share and one row; the screens that stay open *)
(* stay true.                                                                  *)
LEMMA ShareStepKeeps ==
    ASSUME RegistryInv, NEW s \in Share, NEW share, OneShare(s, share),
           NEW r \in Row, NEW row, OneRow(r, row), share.row = r, Used(r),
           row.sharing = "APPROVED" =>
               \E n \in 1..Len(share.revisions) : share.revisions[n].status = "APPROVED",
           UNCHANGED <<collections, references, tabs, flights, evidence>>,
           consumers' \in [Row \X Ver -> SUBSET Consumer],
           receipts' \in [Users \X Row \X Ver -> {"none", "notified", "viewed"}],
           screens' = screens \/ \E k \in Reviewers : screens' = [screens EXCEPT ![k] = NoScreen]
    PROVE  RegistryInv' /\ HistoryStep
<1>0. /\ RegistryTypeOK /\ SharesFit /\ ScreensFit /\ TabsFit /\ PublishedWasApproved
      /\ FlightsFit /\ EvidenceIsOfOneDefinition
  BY DEF RegistryInv
<1>1. RowsKept /\ rows' \in [Row -> RowRecord]
  BY <1>0, OneRowKeeps
<1>2. SharesKept /\ HistoryStep /\ shares' \in [Share -> ShareRecord] /\ shares'[s] = share
  BY <1>0, OneShareKeeps
<1>3. ApprovalsKept
  BY <1>0, <1>1, <1>2, KeptApprovals
<1>4. rows'[r] = row /\ row.api = rows[r].api /\ row.version = rows[r].version
  BY <1>0 DEF OneRow, RegistryTypeOK
<1>5. PublishedWasApproved'
  <2>1. row.sharing = "APPROVED" => WasApproved(row.api, row.version)'
    <3> SUFFICES ASSUME row.sharing = "APPROVED"
                 PROVE  \E t \in Share :
                           /\ shares'[t].row # 0
                           /\ rows'[shares'[t].row].api = row.api
                           /\ rows'[shares'[t].row].version = row.version
                           /\ \E n \in 1..Len(shares'[t].revisions) :
                                 shares'[t].revisions[n].status = "APPROVED"
      BY DEF WasApproved
    <3>1. r # 0
      BY DEF Row
    <3>2. QED
      BY <1>2, <1>4, <3>1
  <2>2. QED
    BY <1>0, <1>3, <2>1, OneRowPublished
<1>6. SharesFit'
  <2> SUFFICES ASSUME NEW t \in Share
               PROVE  /\ shares'[t].row = 0 => shares'[t] = NoShare
                      /\ shares'[t].row # 0 =>
                            /\ rows'[shares'[t].row].status # "UNUSED"
                            /\ Len(shares'[t].revisions) > 0
                            /\ Len(shares'[t].revisions) <= MaxRevisions
                            /\ shares'[t].status = "PENDING_REVIEW" =>
                                  shares'[t].revisions[Len(shares'[t].revisions)].status
                                      = "PENDING_REVIEW"
    BY DEF SharesFit, Submitted, Used, LastRevision
  <2>1. CASE t = s
    <3>1. rows'[r].status # "UNUSED"
      BY <1>1 DEF RowsKept
    <3>2. QED
      BY <1>2, <2>1, <3>1 DEF OneShare
  <2>2. CASE t # s
    <3>1. shares'[t] = shares[t] /\ (shares[t].row # 0 => shares[t].row \in Row)
      BY <1>0, <2>2, RegistryRows DEF OneShare, RegistryTypeOK, Row
    <3>2. /\ shares[t].row = 0 => shares[t] = NoShare
          /\ shares[t].row # 0 =>
                /\ Used(shares[t].row)
                /\ Len(shares[t].revisions) > 0
                /\ Len(shares[t].revisions) <= MaxRevisions
                /\ shares[t].status = "PENDING_REVIEW" =>
                      shares[t].revisions[Len(shares[t].revisions)].status = "PENDING_REVIEW"
      BY <1>0 DEF SharesFit, Submitted, LastRevision
    <3>3. QED
      BY <1>1, <3>1, <3>2 DEF RowsKept
  <2>3. QED
    BY <2>1, <2>2
<1>7. TabsFit'
  BY <1>0, <1>1, <1>3, KeptTabs
<1>8. NoScreen.share = 0 /\ NoScreen.content = {}
      /\ NoScreen.rowVersion \in RowVersions
  BY RegistryAssumption DEF NoScreen, RowVersions, Sharing, Rev
<1>9. \A k \in Reviewers : screens'[k] = screens[k] \/ screens'[k].share = 0
  BY <1>0, <1>8 DEF RegistryTypeOK
<1>10. ScreensFit'
  <2> SUFFICES ASSUME NEW k \in Reviewers, screens'[k].share # 0
               PROVE  ShownContent(k, screens[k].share)'
    BY DEF ScreensFit
  <2>1. screens'[k] = screens[k] /\ screens[k].share # 0
    BY <1>9
  <2>2. QED
    BY <1>0, <1>2, <2>1, KeptScreen
<1>11. RegistryTypeOK'
  <2>1. screens' \in [Reviewers -> [share : 0..MaxShares, rowVersion : RowVersions,
                                    content : SUBSET Defs]]
    <3>1. NoScreen \in [share : 0..MaxShares, rowVersion : RowVersions, content : SUBSET Defs]
      BY <1>8, RegistryAssumption DEF NoScreen
    <3>2. QED
      BY <1>0, <3>1 DEF RegistryTypeOK
  <2>2. QED
    BY <1>0, <1>1, <1>2, <2>1 DEF RegistryTypeOK
<1>12. FlightsFit' /\ EvidenceIsOfOneDefinition' /\ ReferencesFit'
  BY <1>0, <1>1 DEF RegistryInv, FlightsFit, EvidenceIsOfOneDefinition, ReferencesFit, RowsKept, Used
<1>13. QED
  BY <1>2, <1>5, <1>6, <1>7, <1>10, <1>11, <1>12 DEF RegistryInv

LEMMA ShareRowKeeps ==
    ASSUME RegistryInv, NEW u \in Users, NEW r \in Row, ShareRow(u, r)
    PROVE  RegistryInv' /\ HistoryStep
<1>0. RegistryTypeOK /\ SharesFit /\ Used(r)
  BY DEF RegistryInv, ShareRow, Owns
<1>1. PICK s \in TargetShare(r) :
         /\ Len(shares[s].revisions) < MaxRevisions
         /\ shares' = [shares EXCEPT ![s] =
                          [row |-> r, status |-> "PENDING_REVIEW",
                           revisions |-> Append(@.revisions, [content |-> rows[r].def,
                                                              status |-> "PENDING_REVIEW"])]]
  BY DEF ShareRow
<1>2. s \in Share /\ (shares[s].row = r \/ shares[s].row = 0)
  BY DEF TargetShare, IsFreshShare
<1> DEFINE old == shares[s].revisions
           last == [content |-> rows[r].def, status |-> "PENDING_REVIEW"]
           share == [row |-> r, status |-> "PENDING_REVIEW", revisions |-> Append(old, last)]
           row == [rows[r] EXCEPT !.sharing = "PENDING_REVIEW"]
<1>3. old \in Seq(Revision) /\ last \in Revision /\ rows[r] \in RowRecord
  <2>1. old \in Seq(Revision) /\ rows[r] \in RowRecord
    BY <1>0, <1>2, RegistryRows
  <2>2. rows[r].def \in Defs
    BY <2>1 DEF RowRecord
  <2>3. QED
    BY <2>1, <2>2 DEF Revision
<1>4. /\ Append(old, last) \in Seq(Revision) /\ Len(Append(old, last)) = Len(old) + 1
      /\ Append(old, last)[Len(old) + 1] = last /\ Len(old) \in Nat
      /\ \A n \in 1..Len(old) : Append(old, last)[n] = old[n]
  BY <1>3
<1>5. shares' = [shares EXCEPT ![s] = share]
  BY <1>0, <1>1, <1>2 DEF RegistryTypeOK
<1>6. share.row = r /\ share.status = "PENDING_REVIEW" /\ share.revisions = Append(old, last)
  OBVIOUS
<1>7. OneShare(s, share)
  <2>1. share \in ShareRecord
    BY <1>4 DEF ShareRecord, Sharing, Row
  <2>2. r # 0 /\ last.status = "PENDING_REVIEW"
    BY DEF Row
  <2> HIDE DEF share, last
  <2>3. RevisionsGrow(old, Append(old, last))
    BY <1>4 DEF RevisionsGrow
  <2>4. Len(Append(old, last)) > 0 /\ Len(Append(old, last)) <= MaxRevisions
    BY <1>1, <1>4, RegistryAssumption
  <2>5. QED
    BY <1>2, <1>4, <1>5, <1>6, <2>1, <2>2, <2>3, <2>4 DEF OneShare, Submitted
<1>8. OneRow(r, row) /\ row.sharing = "PENDING_REVIEW"
  <2>1. /\ row \in RowRecord /\ row.sharing = "PENDING_REVIEW" /\ row.status = rows[r].status
        /\ row.api = rows[r].api /\ row.version = rows[r].version
    BY <1>3, RowFields DEF Sharing
  <2>2. rows' = [rows EXCEPT ![r] = row]
    BY DEF ShareRow
  <2> HIDE DEF row
  <2>3. QED
    BY <1>0, <2>1, <2>2 DEF OneRow, Used
<1>9. /\ UNCHANGED <<collections, references, tabs, flights, evidence, consumers, receipts, screens>>
  BY DEF ShareRow
<1>10. /\ consumers' \in [Row \X Ver -> SUBSET Consumer]
       /\ receipts' \in [Users \X Row \X Ver -> {"none", "notified", "viewed"}]
  BY <1>0, <1>9 DEF RegistryTypeOK
<1> HIDE DEF share, row
<1>11. QED
  BY <1>0, <1>2, <1>6, <1>7, <1>8, <1>9, <1>10, ShareStepKeeps

(* A decision sets the verdict of the last revision.                          *)
LEMMA DecidedShare ==
    ASSUME RegistryInv, NEW k \in Reviewers, NEW s \in Share, CanDecide(k, s),
           NEW verdict \in {"APPROVED", "RETURNED"}, NEW sharing,
           shares' = [shares EXCEPT ![s] = Decided(s, verdict)]
    PROVE  /\ Submitted(s) /\ shares[s].row \in Row /\ Used(shares[s].row)
           /\ OneShare(s, Decided(s, verdict)) /\ Decided(s, verdict).row = shares[s].row
           /\ Decided(s, verdict).status = verdict
           /\ \E n \in 1..Len(Decided(s, verdict).revisions) :
                 Decided(s, verdict).revisions[n].status = verdict
<1> DEFINE old == shares[s].revisions
           m == Len(old)
           new == [old EXCEPT ![m] = [old[m] EXCEPT !.status = verdict]]
           share == Decided(s, verdict)
<1>0. RegistryTypeOK /\ SharesFit /\ shares[s].status = "PENDING_REVIEW"
  BY DEF RegistryInv, CanDecide
<1>1. /\ Submitted(s) /\ shares[s].row \in Row /\ Used(shares[s].row) /\ m > 0
      /\ m <= MaxRevisions /\ old[m].status = "PENDING_REVIEW"
  <2>1. Submitted(s)
    BY <1>0 DEF SharesFit, NoShare
  <2>2. QED
    BY <1>0, <2>1, RegistryRows DEF SharesFit, Submitted, LastRevision, Row
<1>2. old \in Seq(Revision) /\ m \in Nat /\ m \in 1..m /\ shares[s] \in ShareRecord
  BY <1>0, <1>1, RegistryRows
<1>3. /\ [old[m] EXCEPT !.status = verdict] \in Revision
      /\ [old[m] EXCEPT !.status = verdict].content = old[m].content
      /\ [old[m] EXCEPT !.status = verdict].status = verdict
  <2>1. old[m] \in Revision
    BY <1>2
  <2> HIDE DEF old, m
  <2>2. QED
    BY <2>1 DEF Revision
<1>4. /\ new \in Seq(Revision) /\ Len(new) = m /\ new[m] = [old[m] EXCEPT !.status = verdict]
      /\ \A n \in 1..m : n # m => new[n] = old[n]
  BY <1>2, <1>3
<1>5. share = [shares[s] EXCEPT !.status = verdict, !.revisions = new]
  BY <1>2 DEF Decided, ShareRecord
<1> HIDE DEF share, new
<1>6. /\ share \in ShareRecord /\ share.row = shares[s].row /\ share.status = verdict
      /\ share.revisions = new
  BY <1>2, <1>4, <1>5 DEF ShareRecord, Sharing
<1>7. RevisionsGrow(old, new)
  <2>1. \A n \in 1..m : n = m \/ new[n] = old[n]
    BY <1>4
  <2>2. new[m].content = old[m].content /\ old[m].status = "PENDING_REVIEW"
    BY <1>1, <1>3, <1>4
  <2>3. m >= m /\ Len(new) = m
    BY <1>2, <1>4
  <2> HIDE DEF old
  <2>4. QED
    BY <2>1, <2>2, <2>3 DEF RevisionsGrow
<1>8. OneShare(s, share)
  BY <1>1, <1>2, <1>4, <1>6, <1>7 DEF OneShare, Submitted, share
<1>9. new[m].status = verdict /\ m \in 1..Len(new)
  BY <1>2, <1>3, <1>4
<1>10. QED
  BY <1>1, <1>6, <1>8, <1>9 DEF share

(* The screen a decision comes from shows the revision it decides.            *)
LEMMA DecidesShown ==
    ASSUME RegistryInv, NEW k \in Reviewers, NEW s \in Share, CanDecide(k, s)
    PROVE  screens[k].share = s /\ screens[k].content = {LastRevision(s).content}
<1>1. /\ screens[k].share = s /\ screens[k].rowVersion = RowVersion(s) /\ s # 0
  BY DEF CanDecide, Share
<1>2. ShownContent(k, s)
  BY <1>1 DEF RegistryInv, ScreensFit
<1>3. screens[k].rowVersion.revisions = Len(shares[s].revisions)
  BY <1>1 DEF RowVersion
<1>4. QED
  BY <1>1, <1>2, <1>3 DEF ShownContent, LastRevision

LEMMA DecisionKeeps ==
    ASSUME RegistryInv, NEW k \in Reviewers, NEW s \in Share, CanDecide(k, s),
           NEW verdict \in {"APPROVED", "RETURNED"},
           shares' = [shares EXCEPT ![s] = Decided(s, verdict)],
           rows' = [rows EXCEPT ![shares[s].row].sharing = verdict],
           screens' = [screens EXCEPT ![k] = NoScreen],
           UNCHANGED <<collections, references, tabs, flights, evidence>>,
           consumers' \in [Row \X Ver -> SUBSET Consumer],
           receipts' \in [Users \X Row \X Ver -> {"none", "notified", "viewed"}]
    PROVE  RegistryInv' /\ HistoryStep
<1> DEFINE r == shares[s].row
           share == Decided(s, verdict)
           row == [rows[r] EXCEPT !.sharing = verdict]
<1>1. /\ r \in Row /\ Used(r) /\ OneShare(s, share) /\ share.row = r
      /\ \E n \in 1..Len(share.revisions) : share.revisions[n].status = verdict
  BY DecidedShare
<1>2. RegistryTypeOK
  BY DEF RegistryInv
<1>3. /\ row \in RowRecord /\ row.sharing = verdict /\ row.status = rows[r].status
      /\ row.api = rows[r].api /\ row.version = rows[r].version
  <2>1. rows[r] \in RowRecord /\ verdict \in Sharing
    BY <1>1, <1>2, RegistryRows DEF Sharing
  <2>2. QED
    BY <2>1, RowFields
<1>4. rows' = [rows EXCEPT ![r] = row]
  OBVIOUS
<1> HIDE DEF row, share
<1>5. OneRow(r, row)
  BY <1>1, <1>3, <1>4 DEF OneRow, Used
<1>6. row.sharing = "APPROVED" =>
          \E n \in 1..Len(share.revisions) : share.revisions[n].status = "APPROVED"
  BY <1>1, <1>3
<1> HIDE DEF r
<1>7. QED
  BY <1>1, <1>5, <1>6, ShareStepKeeps

LEMMA SharingKeeps ==
    ASSUME RegistryInv, SharingOperation PROVE RegistryInv' /\ HistoryStep
<1>0. RegistryTypeOK
  BY DEF RegistryInv
<1>1. ASSUME NEW k \in Reviewers, NEW s \in Share, OpenReview(k, s)
      PROVE  RegistryInv' /\ HistoryStep
  <2> DEFINE screen == [share |-> s, rowVersion |-> RowVersion(s),
                        content |-> {LastRevision(s).content}]
  <2>1. /\ Submitted(s) /\ screens' = [screens EXCEPT ![k] = screen]
        /\ UNCHANGED <<rows, shares, consumers, receipts, collections, references, tabs, flights,
                       evidence>>
    BY <1>1 DEF OpenReview, Submitted
  <2>2. /\ Len(shares[s].revisions) \in 1..Len(shares[s].revisions)
        /\ LastRevision(s) \in Revision /\ shares[s].status \in Sharing
        /\ Len(shares[s].revisions) \in Rev
    <3>1. /\ Len(shares[s].revisions) \in Nat /\ Len(shares[s].revisions) > 0
          /\ Len(shares[s].revisions) <= MaxRevisions
      BY <1>0, <2>1, RegistryRows DEF RegistryInv, SharesFit
    <3>2. Len(shares[s].revisions) \in 1..Len(shares[s].revisions)
      BY <3>1
    <3>3. Len(shares[s].revisions) \in Rev
      BY <3>1, RegistryAssumption DEF Rev
    <3>4. QED
      BY <1>0, <3>2, <3>3, RegistryRows DEF LastRevision, ShareRecord
  <2>3. /\ screen.share = s /\ screen.content = {LastRevision(s).content}
        /\ screen.rowVersion.revisions = Len(shares[s].revisions)
    BY DEF RowVersion
  <2>4. RegistryTypeOK'
    <3>1. /\ RowVersion(s) \in RowVersions /\ {LastRevision(s).content} \in SUBSET Defs
          /\ s \in 0..MaxShares
      BY <2>2, RegistryAssumption DEF RowVersion, RowVersions, Revision, Share
    <3>2. screen \in [share : 0..MaxShares, rowVersion : RowVersions, content : SUBSET Defs]
      BY <3>1
    <3> HIDE DEF screen
    <3>3. screens' \in [Reviewers -> [share : 0..MaxShares, rowVersion : RowVersions,
                                      content : SUBSET Defs]]
      BY <1>0, <2>1, <3>2 DEF RegistryTypeOK
    <3>4. QED
      BY <1>0, <2>1, <3>3 DEF RegistryTypeOK
  <2> HIDE DEF screen
  <2>5. screens'[k] = screen /\ \A j \in Reviewers : j # k => screens'[j] = screens[j]
    BY <1>0, <2>1 DEF RegistryTypeOK
  <2>6. HistoryStep /\ SharesFit' /\ PublishedWasApproved' /\ TabsFit' /\ ReferencesFit'
    BY <2>1, SameRows
  <2>7. ScreensFit'
    <3> SUFFICES ASSUME NEW j \in Reviewers, screens'[j].share # 0
                 PROVE  ShownContent(j, screens[j].share)'
      BY DEF ScreensFit
    <3>1. CASE j = k
      BY <2>1, <2>2, <2>3, <2>5, <3>1 DEF ShownContent, LastRevision
    <3>2. CASE j # k
      BY <1>0, <2>5, <2>6, <3>2, KeptScreen DEF RegistryInv
    <3>3. QED
      BY <3>1, <3>2
  <2>8. QED
    BY <2>1, <2>4, <2>6, <2>7 DEF RegistryInv, FlightsFit, EvidenceIsOfOneDefinition
<1>2. ASSUME NEW k \in Reviewers, NEW s \in Share, NEW cs \in ConsumerLists, ApproveShare(k, s, cs)
      PROVE  RegistryInv' /\ HistoryStep
  <2>1. cs \in SUBSET Consumer
    BY RegistryAssumption DEF Consumer
  <2>2. consumers' \in [Row \X Ver -> SUBSET Consumer]
    BY <1>0, <1>2, <2>1 DEF ApproveShare, RegistryTypeOK
  <2>3. receipts' \in [Users \X Row \X Ver -> {"none", "notified", "viewed"}]
    BY <1>0, <1>2 DEF ApproveShare, RegistryTypeOK
  <2>4. QED
    BY <1>2, <2>2, <2>3, DecisionKeeps DEF ApproveShare
<1>3. ASSUME NEW k \in Reviewers, NEW s \in Share, ReturnShare(k, s)
      PROVE  RegistryInv' /\ HistoryStep
  BY <1>0, <1>3, DecisionKeeps DEF ReturnShare, RegistryTypeOK
<1>4. QED
  BY <1>1, <1>2, <1>3, ShareRowKeeps DEF SharingOperation

-------------------------------------------------------------------------------
LEMMA RepositoryKeeps ==
    ASSUME RegistryInv, RepositoryOperation PROVE RegistryInv' /\ HistoryStep
<1>0. /\ RegistryTypeOK /\ PublishedWasApproved /\ FlightsFit /\ EvidenceIsOfOneDefinition
  BY DEF RegistryInv
<1>1. UNCHANGED <<shares, screens, tabs, flights, evidence>>
  BY DEF RepositoryOperation, UpdateConsumers, AddToConsole, MarkViewed, RemoveReference, sharingVars
<1>2. FlightsFit' /\ EvidenceIsOfOneDefinition' /\ HistoryStep
  BY <1>0, <1>1, UnchangedHistory DEF FlightsFit, EvidenceIsOfOneDefinition
<1>3. ASSUME UNCHANGED <<rows, collections, references>>,
             consumers' \in [Row \X Ver -> SUBSET Consumer],
             receipts' \in [Users \X Row \X Ver -> {"none", "notified", "viewed"}]
      PROVE  RegistryInv'
  <2>1. RegistryTypeOK'
    BY <1>0, <1>1, <1>3 DEF RegistryTypeOK
  <2>2. QED
    BY <1>1, <1>2, <1>3, <2>1, SameRows DEF RegistryInv
<1>4. ASSUME NEW r \in Row, NEW row, OneRow(r, row), row.status # "UNUSED",
             row.sharing = "APPROVED" => WasApproved(row.api, row.version),
             collections' \subseteq Collection, NEW status \in {"ACTIVE", "REMOVED"},
             references' = [references EXCEPT ![r] = status],
             UNCHANGED <<consumers, receipts>>
      PROVE  RegistryInv'
  <2>1. /\ SharesFit' /\ ScreensFit' /\ PublishedWasApproved' /\ TabsFit' /\ RowsKept
        /\ rows' \in [Row -> RowRecord]
    BY <1>1, <1>4, RowStepKeeps
  <2>2. RegistryTypeOK'
    <3>1. references' \in [Row -> {"none", "ACTIVE", "REMOVED"}]
      BY <1>0, <1>4 DEF RegistryTypeOK
    <3>2. QED
      BY <1>0, <1>1, <1>4, <2>1, <3>1 DEF RegistryTypeOK
  <2>3. ReferencesFit'
    <3> SUFFICES ASSUME NEW q \in Row, references'[q] # "none" PROVE rows'[q].status # "UNUSED"
      BY DEF ReferencesFit, Used
    <3>1. CASE q = r
      BY <1>0, <1>4, <3>1 DEF OneRow, RegistryTypeOK
    <3>2. CASE q # r
      <4>1. references[q] # "none"
        BY <1>0, <1>4, <3>2 DEF RegistryTypeOK
      <4>2. Used(q)
        BY <4>1 DEF RegistryInv, ReferencesFit
      <4>3. QED
        BY <2>1, <4>2 DEF RowsKept
    <3>3. QED
      BY <3>1, <3>2
  <2>4. QED
    BY <1>2, <2>1, <2>2, <2>3 DEF RegistryInv
<1>5. ASSUME NEW r \in Row, NEW cs \in ConsumerLists, UpdateConsumers(r, cs) PROVE RegistryInv'
  <2>1. cs \in SUBSET Consumer
    BY RegistryAssumption DEF Consumer
  <2>2. consumers' \in [Row \X Ver -> SUBSET Consumer]
    BY <1>0, <1>5, <2>1 DEF UpdateConsumers, RegistryTypeOK
  <2>3. QED
    BY <1>0, <1>3, <1>5, <2>2 DEF UpdateConsumers, RegistryTypeOK
<1>6. ASSUME NEW u \in Users, NEW r \in Row, MarkViewed(u, r) PROVE RegistryInv'
  <2>1. receipts' \in [Users \X Row \X Ver -> {"none", "notified", "viewed"}]
    BY <1>0, <1>6 DEF MarkViewed, RegistryTypeOK
  <2>2. QED
    BY <1>0, <1>3, <1>6, <2>1 DEF MarkViewed, RegistryTypeOK
<1>7. ASSUME NEW u \in Users, NEW r \in Row, NEW named \in {{}} \cup {{c} : c \in Collection},
             AddToConsole(u, r, named)
      PROVE  RegistryInv'
  <2> DEFINE c == PlacedIn(u, r, named)
  <2>1. PICK q \in Row : /\ IsFreshRow(q)
                         /\ rows' = [rows EXCEPT ![q] = ReferenceRow(u, r, c)]
                         /\ references' = [references EXCEPT ![q] = "ACTIVE"]
    BY <1>7 DEF AddToConsole
  <2>2. collections' = collections \cup c /\ UNCHANGED <<consumers, receipts>> /\ Published(r)
    BY <1>7 DEF AddToConsole, sharingVars, IsSource
  <2>3. c \in SUBSET Collection
    <3>1. rows[r].app \subseteq Apps
      BY <1>0, RegistryRows DEF RowRecord
    <3>2. {u} \X rows[r].app \subseteq Collection
      BY <3>1 DEF Collection
    <3>3. named \subseteq Collection
      OBVIOUS
    <3>4. QED
      BY <3>2, <3>3 DEF PlacedIn
  <2> HIDE DEF c
  <2>4. /\ OneRow(q, ReferenceRow(u, r, c)) /\ ReferenceRow(u, r, c).status # "UNUSED"
        /\ ReferenceRow(u, r, c).api = rows[r].api
        /\ ReferenceRow(u, r, c).version = rows[r].version
    BY <1>0, <2>1, <2>3, ReferenceRowTyped DEF OneRow, IsFreshRow
  <2>5. WasApproved(rows[r].api, rows[r].version)
    BY <1>0, <2>2 DEF PublishedWasApproved, Published, Used
  <2>6. collections' \subseteq Collection
    BY <1>0, <2>2, <2>3 DEF RegistryTypeOK
  <2>7. QED
    BY <1>4, <2>1, <2>2, <2>4, <2>5, <2>6
<1>8. ASSUME NEW u \in Users, NEW q \in Row, RemoveReference(u, q) PROVE RegistryInv'
  <2> DEFINE row == [rows[q] EXCEPT !.status = "ARCHIVED"]
  <2>1. /\ rows' = [rows EXCEPT ![q] = row] /\ references' = [references EXCEPT ![q] = "REMOVED"]
        /\ UNCHANGED <<collections, consumers, receipts>> /\ references[q] # "none"
        /\ rows[q].owner = {u}
    BY <1>8 DEF RemoveReference, sharingVars
  <2>2. /\ row \in RowRecord /\ row.status = "ARCHIVED" /\ row.sharing = rows[q].sharing
        /\ row.api = rows[q].api /\ row.version = rows[q].version
    BY <1>0, RegistryRows, RowFields
  <2> HIDE DEF row
  <2>3. Used(q) /\ OneRow(q, row)
    BY <2>1, <2>2 DEF OneRow, RegistryInv, ReferencesFit
  <2>4. row.sharing = "APPROVED" => WasApproved(row.api, row.version)
    BY <1>0, <2>2, <2>3 DEF PublishedWasApproved
  <2>5. collections' \subseteq Collection
    BY <1>0, <2>1 DEF RegistryTypeOK
  <2>6. QED
    BY <1>4, <2>1, <2>2, <2>3, <2>4, <2>5
<1>9. RegistryInv'
  BY <1>5, <1>6, <1>7, <1>8 DEF RepositoryOperation
<1>10. QED
  BY <1>2, <1>9

LEMMA ExecutionKeeps ==
    ASSUME RegistryInv, ExecutionStep PROVE RegistryInv' /\ HistoryStep
<1>0. RegistryTypeOK /\ FlightsFit /\ EvidenceIsOfOneDefinition
  BY DEF RegistryInv
<1>1. UNCHANGED <<rows, shares, consumers, receipts, screens, collections, references, tabs>>
  BY DEF ExecutionStep, StartExecution, FinishExecution, RestartConsole, sharingVars
<1>2. ASSUME flights' \subseteq [row : Row, sent : Defs, object : Defs],
             evidence' \subseteq [row : Row, sent : Defs, checked : Defs],
             FlightsFit', EvidenceIsOfOneDefinition'
      PROVE  RegistryInv'
  <2>1. RegistryTypeOK'
    BY <1>0, <1>1, <1>2 DEF RegistryTypeOK
  <2>2. QED
    BY <1>1, <1>2, <2>1, SameRows DEF RegistryInv
<1>3. ASSUME NEW u \in Users, NEW r \in Row, StartExecution(u, r) PROVE RegistryInv'
  <2> DEFINE f == [row |-> r, sent |-> rows[r].def, object |-> rows[r].def]
  <2>1. flights' = flights \cup {f} /\ UNCHANGED evidence
    BY <1>3 DEF StartExecution
  <2>2. f \in [row : Row, sent : Defs, object : Defs] /\ f.sent = f.object
    BY <1>0, RegistryRows DEF RowRecord
  <2> HIDE DEF f
  <2>3. QED
    BY <1>0, <1>2, <2>1, <2>2 DEF RegistryTypeOK, FlightsFit, EvidenceIsOfOneDefinition
<1>4. ASSUME NEW f \in flights, FinishExecution(f) PROVE RegistryInv'
  <2> DEFINE e == [row |-> f.row, sent |-> f.sent, checked |-> f.object]
  <2>1. flights' = flights \ {f} /\ evidence' = evidence \cup {e}
    BY <1>4 DEF FinishExecution, CheckedAgainst
  <2>2. f \in [row : Row, sent : Defs, object : Defs] /\ f.sent = f.object
    BY <1>0 DEF RegistryTypeOK, FlightsFit
  <2>3. e \in [row : Row, sent : Defs, checked : Defs] /\ e.sent = e.checked
    BY <2>2
  <2> HIDE DEF e
  <2>4. QED
    BY <1>0, <1>2, <2>1, <2>3 DEF RegistryTypeOK, FlightsFit, EvidenceIsOfOneDefinition
<1>5. ASSUME RestartConsole PROVE RegistryInv'
  <2>1. flights' = {} /\ evidence' = evidence
    BY <1>5 DEF RestartConsole
  <2>2. evidence \subseteq [row : Row, sent : Defs, checked : Defs]
    BY <1>0 DEF RegistryTypeOK
  <2>3. FlightsFit'
    BY <2>1 DEF FlightsFit
  <2>4. EvidenceIsOfOneDefinition'
    BY <1>0, <2>1 DEF EvidenceIsOfOneDefinition
  <2>5. QED
    BY <1>2, <2>1, <2>2, <2>3, <2>4
<1>6. RegistryInv'
  BY <1>3, <1>4, <1>5 DEF ExecutionStep
<1>7. QED
  BY <1>0, <1>1, <1>6, UnchangedHistory

LEMMA RegistryStepKeeps ==
    RegistryInv /\ [RegistryNext]_registryVars => RegistryInv' /\ HistoryStep
<1> SUFFICES ASSUME RegistryInv, [RegistryNext]_registryVars PROVE RegistryInv' /\ HistoryStep
  OBVIOUS
<1>1. CASE RegistryNext
  BY <1>1, RowOperationKeeps, SharingKeeps, RepositoryKeeps, ExecutionKeeps DEF RegistryNext
<1>2. CASE UNCHANGED registryVars
  <2>1. UNCHANGED <<rows, shares, consumers, receipts, collections, references, tabs, screens,
                    flights, evidence>>
    BY <1>2 DEF registryVars
  <2>2. /\ SharesFit' /\ ScreensFit' /\ TabsFit' /\ ReferencesFit' /\ PublishedWasApproved'
        /\ HistoryStep
    BY <2>1, SameRows
  <2>3. RegistryTypeOK' /\ FlightsFit' /\ EvidenceIsOfOneDefinition'
    BY <2>1 DEF RegistryInv, RegistryTypeOK, FlightsFit, EvidenceIsOfOneDefinition
  <2>4. QED
    BY <2>2, <2>3 DEF RegistryInv
<1>3. QED
  BY <1>1, <1>2

LEMMA RegistryInitInv == RegistryInit => RegistryInv
<1> SUFFICES ASSUME RegistryInit PROVE RegistryInv
  OBVIOUS
<1>1. NoRow \in RowRecord /\ NoRow.status = "UNUSED"
  BY RegistryAssumption DEF NoRow, RowRecord, Sharing
<1>2. NoShare \in ShareRecord /\ NoShare.row = 0
  <2>1. <<>> \in Seq(Revision)
    OBVIOUS
  <2>2. 0 \in 0..MaxRows
    BY RegistryAssumption
  <2>3. QED
    BY <2>1, <2>2 DEF NoShare, ShareRecord, Sharing
<1>3. /\ NoScreen \in [share : 0..MaxShares, rowVersion : RowVersions, content : SUBSET Defs]
      /\ NoScreen.share = 0
  BY RegistryAssumption DEF NoScreen, RowVersions, Sharing, Rev
<1>4. NoTab \in [row : 0..MaxRows, copy : RowRecord] /\ NoTab.row = 0
  BY <1>1, RegistryAssumption DEF NoTab
<1> HIDE DEF NoRow, NoShare, NoScreen, NoTab
<1>5. rows \in [Row -> RowRecord] /\ shares \in [Share -> ShareRecord]
  BY <1>1, <1>2 DEF RegistryInit
<1>6. /\ consumers \in [Row \X Ver -> SUBSET Consumer]
      /\ receipts \in [Users \X Row \X Ver -> {"none", "notified", "viewed"}]
      /\ references \in [Row -> {"none", "ACTIVE", "REMOVED"}]
  BY DEF RegistryInit
<1>7. /\ tabs \in [Users -> [row : 0..MaxRows, copy : RowRecord]]
      /\ screens \in [Reviewers -> [share : 0..MaxShares, rowVersion : RowVersions,
                                    content : SUBSET Defs]]
  BY <1>3, <1>4 DEF RegistryInit
<1>8. RegistryTypeOK
  BY <1>5, <1>6, <1>7 DEF RegistryInit, RegistryTypeOK
<1>9. SharesFit /\ ScreensFit /\ TabsFit
  BY <1>2, <1>3, <1>4 DEF RegistryInit, SharesFit, Submitted, ScreensFit, TabsFit
<1>10. PublishedWasApproved /\ FlightsFit /\ ReferencesFit /\ EvidenceIsOfOneDefinition
  BY <1>1 DEF RegistryInit, PublishedWasApproved, Used, FlightsFit, ReferencesFit,
     EvidenceIsOfOneDefinition
<1>11. QED
  BY <1>8, <1>9, <1>10 DEF RegistryInv

(* The inductive invariant of the registry.                                   *)
THEOREM RegistryInvariant == RegistrySpec => []RegistryInv
  BY RegistryInitInv, RegistryStepKeeps, PTL DEF RegistrySpec

(* Everything in the store and on the pages is of its type.                   *)
THEOREM RegistryTyping == RegistrySpec => []RegistryTypeOK
<1>1. RegistryInv => RegistryTypeOK
  BY DEF RegistryInv
<1>2. QED
  BY <1>1, RegistryInvariant, PTL

(* A published row, or a reference to one, is of a version that was approved. *)
THEOREM PublishedWasApprovedHolds == RegistrySpec => []PublishedWasApproved
<1>1. RegistryInv => PublishedWasApproved
  BY DEF RegistryInv
<1>2. QED
  BY <1>1, RegistryInvariant, PTL

(* Evidence is of the definition that was sent.                               *)
THEOREM EvidenceHolds == RegistrySpec => []EvidenceIsOfOneDefinition
<1>1. RegistryInv => EvidenceIsOfOneDefinition
  BY DEF RegistryInv
<1>2. QED
  BY <1>1, RegistryInvariant, PTL

(* Revisions are only added, and a verdict is given once.                     *)
THEOREM RevisionHistoryHolds == RegistrySpec => RevisionHistory
<1>1. RegistryInv /\ [RegistryNext]_registryVars =>
        [\A s \in Share :
            /\ Len(shares'[s].revisions) >= Len(shares[s].revisions)
            /\ \A n \in 1..Len(shares[s].revisions) :
                  /\ shares'[s].revisions[n].content = shares[s].revisions[n].content
                  /\ shares[s].revisions[n].status # "PENDING_REVIEW"
                        => shares'[s].revisions[n] = shares[s].revisions[n]]_registryVars
  BY RegistryStepKeeps DEF HistoryStep
<1>2. QED
  BY <1>1, RegistryInvariant, PTL DEF RegistrySpec, RevisionHistory

(* A decision is about the revision its screen shows.                         *)
ShownDecision ==
    \A s \in Share :
       shares[s].status = "PENDING_REVIEW" /\ shares'[s].status # "PENDING_REVIEW"
          => \E k \in Reviewers : /\ screens[k].share = s
                                  /\ screens[k].content = {LastRevision(s).content}
                                  /\ screens'[k] = NoScreen

LEMMA DecisionsShown ==
    ASSUME RegistryInv, RegistryNext PROVE ShownDecision
<1>0. RegistryTypeOK
  BY DEF RegistryInv
<1>1. UNCHANGED shares => ShownDecision
  BY DEF ShownDecision
<1>2. ASSUME NEW u \in Users, RowOperation(u) PROVE UNCHANGED shares
  BY <1>2 DEF RowOperation, CreateCollection, CreateRequest, OpenTab, SaveRow, ArchiveRow,
     CreateVersion, sharingVars
<1>3. CASE RepositoryOperation
  BY <1>1, <1>3 DEF RepositoryOperation, UpdateConsumers, AddToConsole, MarkViewed,
     RemoveReference, sharingVars
<1>4. CASE ExecutionStep
  BY <1>1, <1>4 DEF ExecutionStep, StartExecution, FinishExecution, RestartConsole, sharingVars
<1>5. ASSUME NEW u \in Users, NEW r \in Row, ShareRow(u, r) PROVE ShownDecision
  <2>1. PICK t \in Share : \E revisions :
           shares' = [shares EXCEPT ![t] = [row |-> r, status |-> "PENDING_REVIEW",
                                            revisions |-> revisions]]
    <3>1. PICK t \in TargetShare(r) :
             shares' = [shares EXCEPT ![t] =
                           [row |-> r, status |-> "PENDING_REVIEW",
                            revisions |-> Append(@.revisions,
                                                 [content |-> rows[r].def,
                                                  status |-> "PENDING_REVIEW"])]]
      BY <1>5 DEF ShareRow
    <3>2. t \in Share
      BY DEF TargetShare
    <3>3. shares' = [shares EXCEPT ![t] =
                        [row |-> r, status |-> "PENDING_REVIEW",
                         revisions |-> Append(shares[t].revisions,
                                              [content |-> rows[r].def,
                                               status |-> "PENDING_REVIEW"])]]
      BY <1>0, <3>1, <3>2 DEF RegistryTypeOK
    <3>4. QED
      BY <3>2, <3>3
  <2>2. QED
    BY <1>0, <2>1 DEF ShownDecision, RegistryTypeOK
<1>6. ASSUME NEW k \in Reviewers, NEW s \in Share, CanDecide(k, s),
             NEW share, shares' = [shares EXCEPT ![s] = share],
             screens' = [screens EXCEPT ![k] = NoScreen]
      PROVE  ShownDecision
  <2>1. screens[k].share = s /\ screens[k].content = {LastRevision(s).content}
    BY <1>6, DecidesShown
  <2>2. screens'[k] = NoScreen
    BY <1>0, <1>6 DEF RegistryTypeOK
  <2>3. \A t \in Share : t # s => shares'[t] = shares[t]
    BY <1>0, <1>6 DEF RegistryTypeOK
  <2>4. QED
    BY <2>1, <2>2, <2>3 DEF ShownDecision
<1>7. CASE SharingOperation
  <2>1. ASSUME NEW k \in Reviewers, NEW s \in Share, OpenReview(k, s) PROVE UNCHANGED shares
    BY <2>1 DEF OpenReview
  <2>2. QED
    BY <1>1, <1>5, <1>6, <1>7, <2>1 DEF SharingOperation, ApproveShare, ReturnShare
<1>8. QED
  BY <1>1, <1>2, <1>3, <1>4, <1>7 DEF RegistryNext

(* Whoever decides a submission had read that very revision: ShownDecision at  *)
(* every step, and the screen of the reviewer is cleared with the verdict.     *)
THEOREM DecidesWhatWasReadHolds == RegistrySpec => DecidesWhatWasRead
<1>1. RegistryInv /\ [RegistryNext]_registryVars =>
        [\A s \in Share :
            shares[s].status = "PENDING_REVIEW" /\ shares'[s].status # "PENDING_REVIEW"
               => \E k \in Reviewers : /\ screens[k].share = s
                                       /\ screens[k].content = {LastRevision(s).content}
                                       /\ screens'[k] = NoScreen]_registryVars
  BY DecisionsShown DEF ShownDecision
<1>2. QED
  BY <1>1, RegistryInvariant, PTL DEF RegistrySpec, DecidesWhatWasRead

-------------------------------------------------------------------------------
(* The three models side by side, each behaviour with one of them in focus.    *)
(* Whatever is in focus, every step is a step of each model or leaves it alone, *)
(* so what holds of the models holds of the whole console.                      *)
THEOREM ConsoleIsItsParts == ConsoleSpec => RegistrySpec /\ EditorSpec /\ DocsSpec
<1>1. ConsoleInit => RegistryInit /\ EditorInit /\ DocsInit
  BY DEF ConsoleInit
<1>2. ASSUME [ConsoleNext]_consoleVars
      PROVE  [RegistryNext]_registryVars /\ [EditorNext]_editorVars /\ [DocsNext]_docsVars
  <2>1. CASE RegistryNext /\ UNCHANGED <<editorVars, docsVars>>
    BY <2>1
  <2>2. CASE EditorNext /\ UNCHANGED <<registryVars, docsVars>>
    BY <2>2
  <2>3. CASE DocsNext /\ UNCHANGED <<registryVars, editorVars>>
    BY <2>3
  <2>4. CASE UNCHANGED consoleVars
    BY <2>4 DEF consoleVars
  <2>5. QED
    BY <1>2, <2>1, <2>2, <2>3, <2>4 DEF ConsoleNext
<1>3. QED
  BY <1>1, <1>2, PTL DEF ConsoleSpec, RegistrySpec, EditorSpec, DocsSpec

(* Both halves of the page keep their types in the whole console: no answer to  *)
(* a call leaves a selection, a view or a documentation row of another shape.   *)
THEOREM PageTyping == ConsoleSpec => []PageTypeOK
<1>1. EditorInv /\ DocsInv => PageTypeOK
  BY DEF EditorInv, DocsInv, PageTypeOK
<1>2. QED
  BY <1>1, ConsoleIsItsParts, EditorInvariant, DocsInvariant, PTL
===============================================================================
