---------------------------- MODULE WorkflowHistory ----------------------------
(***************************************************************************)
(* What the versioned workflow store promises its readers, with no         *)
(* processes, transactions or statements: each workflow has a history of   *)
(* version ids that only ever grows at its end, one version per commit,    *)
(* and a published version taken from that history.                        *)
(***************************************************************************)
EXTENDS Naturals, Sequences

CONSTANTS Workflow, Unpublished

VARIABLES
  history,    \* workflow name -> sequence of version ids, oldest first
  published   \* workflow name -> version id, or Unpublished

Ids(h) == {h[i] : i \in 1..Len(h)}

Init ==
  /\ history = [w \in Workflow |-> <<>>]
  /\ published = [w \in Workflow |-> Unpublished]

\* w's history is left alone or gains one version nobody's history holds.
KeepsOrGrows(w) ==
  \/ history'[w] = history[w]
  \/ /\ Len(history'[w]) = Len(history[w]) + 1
     /\ \A i \in 1..Len(history[w]) : history'[w][i] = history[w][i]
     /\ \A v \in Workflow : history'[w][Len(history'[w])] \notin Ids(history[v])

KeepsOrPublishes(w) ==
  \/ published'[w] = published[w]
  \/ published'[w] \in Ids(history'[w])

\* One committed request; the startup sync may touch several workflows at once.
Commit == \A w \in Workflow : KeepsOrGrows(w) /\ KeepsOrPublishes(w)

Spec == Init /\ [][Commit]_<<history, published>>
=============================================================================
