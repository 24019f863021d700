---------------------------- MODULE MC_ApiConsole ----------------------------
(***************************************************************************)
(* Small instances of the three models of the API console.  They share no  *)
(* state here, so each behaviour is about one of them, its focus, and for  *)
(* the registry about one side of it; the rest stays as it began.          *)
(***************************************************************************)
EXTENDS ApiRegistry, ConsoleEditor, ConsoleDocs

CONSTANTS owner, user, k1, k2, a1, a2, d1, d2, r1, r2, e1, e2, i1, o1, Foci

VARIABLE focus

consoleVars == <<registryVars, editorVars, docsVars, focus>>

MCConsumerLists == {{user}, {"ROLE"}}

ConsoleInit ==
    /\ focus \in Foci
    /\ RegistryInit
    /\ EditorInit
    /\ DocsInit
    /\ orderly <=> focus # "overlaps"
    /\ focus # "editor" => calm /\ stored = [r \in ListedRows |-> e1]

(* One row and two reviewers; the versions of one owner and one reviewer; an *)
(* owner and a consumer around one approval; executions beside saves         *)
RegistryFocus ==
    /\ focus \in {"review", "execution"} => rows'[2] = NoRow
    /\ focus # "execution" => flights' = {}
    /\ focus # "repository" => references' = references
    /\ focus # "repository" => (<<consumers, receipts>>' # <<consumers, receipts>> =>
          shares' # shares /\ consumers' \in [DOMAIN consumers -> {{}, {user}}])
    /\ focus = "review" => rows'[1].status # "ARCHIVED"
    /\ focus # "repository" => \A r \in Row : rows'[r].owner \subseteq {owner}
    /\ focus # "repository" => collections' \subseteq {<<owner, a1>>}
    /\ focus # "review" => screens'[k2] = NoScreen
    /\ focus # "review" => \A s \in Share : Len(shares'[s].revisions) <= 1
    /\ focus = "repository" => tabs' = tabs /\ shares'[2] = NoShare
    /\ focus = "repository" =>
          \A r \in Row : rows'[r].status = "ARCHIVED" => references'[r] # "none"
    /\ focus = "versions" => \A r \in Row : rows'[r].def = FirstDef
    /\ focus = "execution" => shares' = shares

(* Fields of the definition; fields of the responses; calls that overlap, over *)
(* fields that are found and turned off, without an edit while two are under way *)
DocsFocus ==
    /\ focus # "outputs" =>
          responses' = responses /\ \A f \in OutputFields : draft'.rows[f] = NoDocRow
    /\ focus = "outputs" =>
          draft'.fields = {} /\ \A f \in InputFields : draft'.rows[f] = NoDocRow
    /\ focus = "overlaps" =>
          /\ \A f \in InputFields : draft'.rows[f].source # "MANUAL" /\ draft'.rows[f].text = ""
          /\ docCalls' = docCalls => draft' = draft \/ \E k \in DocSlot : docCalls[k] = NoDocCall

ConsoleNext ==
    \/ /\ focus \in {"review", "versions", "repository", "execution"}
       /\ RegistryNext
       /\ RegistryFocus
       /\ UNCHANGED <<editorVars, docsVars, focus>>
    \/ /\ focus = "editor"
       /\ EditorNext
       /\ UNCHANGED <<registryVars, docsVars, focus>>
    \/ /\ focus \in {"inputs", "outputs", "overlaps"}
       /\ DocsNext
       /\ DocsFocus
       /\ UNCHANGED <<registryVars, editorVars, focus>>

ConsoleSpec == ConsoleInit /\ [][ConsoleNext]_consoleVars

(* Both halves of the page hold values of their types: keys name listed rows, *)
(* and a documentation row is found, written or not there                     *)
PageTypeOK == EditorTypeOK /\ DocsTypeOK
===============================================================================
