----------------------------- MODULE WorkflowStore -----------------------------
(***************************************************************************)
(* The versioned workflow store: workflow_versions (append-only, numbered  *)
(* and hash-chained per workflow), workflow_active_versions (the published *)
(* pointer) and the audit_logs entries that record both.                   *)
(*                                                                         *)
(* A backend process runs one request at a time over the store: the        *)
(* handlers are async but talk to the database synchronously, so within a  *)
(* process nothing interleaves.  Two processes (a rollout overlaps the old *)
(* pod with the new one, or replicaCount > 1) interleave between database  *)
(* statements, at READ COMMITTED: a SELECT sees committed rows and the     *)
(* transaction's own, a write locks its row or unique key until the        *)
(* transaction ends.  Each action below is one statement, with the code up *)
(* to the next one.                                                        *)
(***************************************************************************)
EXTENDS Naturals, Sequences

CONSTANTS
  Process,      \* backend processes sharing the database
  Workflow,     \* workflow names
  Text,         \* YAML texts
  AdminText,    \* those an admin saves
  Builtins,     \* names of the shipped definitions, in the sorted file order
  Releases,     \* what a build ships: functions from names to texts
  MaxVersions,  \* bound: no request that adds a version begins past it
  MaxAudit      \* bound: no request begins once the audit trail is this long

ASSUME NamesAssumption == Process # {} /\ Workflow # {} /\ Text # {}
ASSUME BuiltinsAssumption ==   \* the keys of a dict: each name once
  /\ Builtins \in Seq(Workflow)
  /\ \A i, j \in 1..Len(Builtins) : i # j => Builtins[i] # Builtins[j]
ASSUME AdminTextAssumption == AdminText \subseteq Text
ASSUME ReleasesAssumption == Releases \subseteq [Workflow -> Text]
ASSUME BoundsAssumption == MaxVersions \in Nat /\ MaxAudit \in Nat

None == 0   \* the absent version id (SQL NULL, Python None)

VARIABLES
  versions,   \* committed rows of workflow_versions
  active,     \* committed workflow_active_versions: name -> version id
  audit,      \* committed audit_logs entries, in commit order
  lastId,     \* version ids handed out so far (uuid4 in the code)
  req         \* per process: the request it runs, with its open transaction

vars == <<versions, active, audit, lastId, req>>

Source == {"builtin", "admin"}
Action == {"workflow.draft_saved", "workflow.created", "workflow.published",
           "workflow.rolled_back", "workflow.builtin_synced"}
PointerAction == Action \ {"workflow.draft_saved", "workflow.created"}
Op == {"none", "create", "draft", "publish", "rollback", "sync"}
Phase == {"down", "idle", "builtin", "pointer", "latest", "insert", "reload", "move",
          "commit"}

\* A version row.  prev is the predecessor whose chain hash the row covers: the
\* hash is taken as collision-free, so it is the identity of the row hashed.
Row == [id : Nat, wf : Workflow, seq : Nat, text : Text, source : Source,
        prev : Nat, parent : Nat]

Entry == [wf : Workflow, action : Action, old : Nat, new : Nat]

NoMoves == [w \in Workflow |-> None]

\* A process with no request.
Resting(phase) ==
  [pc |-> phase, op |-> "none", wf |-> CHOOSE w \in Workflow : TRUE,
   text |-> CHOOSE t \in Text : TRUE, target |-> None, cached |-> None,
   loaded |-> None, parent |-> None, prevSeq |-> 0, prev |-> None, todo |-> <<>>,
   rel |-> CHOOSE f \in [Workflow -> Text] : TRUE,
   rows |-> {}, moved |-> NoMoves, locked |-> {}, log |-> <<>>]

Request ==
  [pc : Phase, op : Op, wf : Workflow, text : Text, target : Nat, cached : Nat,
   loaded : Nat, parent : Nat, prevSeq : Nat, prev : Nat, todo : Seq(Workflow),
   rel : [Workflow -> Text], rows : SUBSET Row, moved : [Workflow -> Nat],
   locked : SUBSET Workflow, log : Seq(Entry)]

InFlight(p) == req[p].pc \notin {"down", "idle"}

\* What a SELECT of p's transaction sees: committed rows and its own.
View(p) == versions \cup req[p].rows

RowsOf(rows, w) == {r \in rows : r.wf = w}

\* Mutant of BuiltinsOf: the latest version whatever its source.
AnySource(rows, w) == RowsOf(rows, w)

BuiltinsOf(rows, w) == {r \in RowsOf(rows, w) : r.source = "builtin"}

\* ORDER BY sequence DESC LIMIT 1
IsLatest(r, rows) == r \in rows /\ \A s \in rows : s.seq <= r.seq

RowAt(rows, id) == CHOOSE r \in rows : r.id = id

Init ==
  /\ versions = {}
  /\ active = NoMoves
  /\ audit = <<>>
  /\ lastId = 0
  /\ req = [p \in Process |-> Resting("down")]
--------------------------------------------------------------------------------
(* Requests begin. *)

Begin(p, request) ==
  /\ req[p].pc = "idle"
  /\ Len(audit) < MaxAudit
  /\ req' = [req EXCEPT ![p] = request]
  /\ UNCHANGED <<versions, active, audit, lastId>>

\* POST /workflows: the name must be new; the row has no parent.
BeginCreate(p, w, t) ==
  /\ lastId < MaxVersions
  /\ RowsOf(versions, w) = {}
  /\ Begin(p, [Resting("latest") EXCEPT !.op = "create", !.wf = w, !.text = t])

\* POST /workflows/{name}/versions: the workflow must exist.
BeginDraft(p, w, t) ==
  /\ lastId < MaxVersions
  /\ RowsOf(versions, w) # {}
  /\ Begin(p, [Resting("pointer") EXCEPT !.op = "draft", !.wf = w, !.text = t])

\* Mutant of BeginMove: the version is not checked to be of the named workflow.
BeginMoveAnyName(p, op, r) ==
  \E w \in Workflow :
    Begin(p, [Resting("pointer") EXCEPT !.op = op, !.wf = w, !.target = r.id])

\* POST publish and rollback: any stored version of the named workflow.
BeginMove(p, op, r) ==
  Begin(p, [Resting("pointer") EXCEPT !.op = op, !.wf = r.wf, !.target = r.id])

\* The pod starts: lifespan opens a session and syncs what its build ships.
StartUp(p, rel) ==
  /\ req[p].pc = "down"
  /\ lastId < MaxVersions
  /\ req' = [req EXCEPT ![p] =
       IF Builtins = <<>> THEN [Resting("commit") EXCEPT !.op = "sync"]
       ELSE [Resting("builtin") EXCEPT !.op = "sync", !.rel = rel,
               !.wf = Head(Builtins), !.todo = Tail(Builtins)]]
  /\ UNCHANGED <<versions, active, audit, lastId>>
--------------------------------------------------------------------------------
(* Statements of a request. *)

\* sync goes on to the next built-in, or commits.
NextBuiltin(r) ==
  IF r.todo = <<>>
  THEN [r EXCEPT !.pc = "commit"]
  ELSE [r EXCEPT !.pc = "builtin", !.wf = Head(r.todo), !.todo = Tail(r.todo),
                 !.cached = None, !.loaded = None, !.parent = None]

\* sync: latest_builtin_for_workflow; an unchanged text is left alone.
ReadBuiltin(p) ==
  LET r == req[p]
      shipped == r.rel[r.wf]
      builtins == BuiltinsOf(View(p), r.wf)
      Proceed(parent) == [r EXCEPT !.pc = "pointer", !.text = shipped, !.parent = parent]
  IN  /\ r.pc = "builtin"
      /\ \/ /\ builtins = {}
            /\ req' = [req EXCEPT ![p] = Proceed(None)]
         \/ \E b \in builtins :
              /\ IsLatest(b, builtins)
              /\ req' = [req EXCEPT ![p] = IF b.text = shipped THEN NextBuiltin(r)
                                           ELSE Proceed(b.id)]
      /\ UNCHANGED <<versions, active, audit, lastId>>

\* A rollback is refused unless its target is older than the active version.
RollbackRefused(r) ==
  /\ r.op = "rollback"
  /\ \/ active[r.wf] = None
     \/ RowAt(versions, r.target).seq >= RowAt(versions, active[r.wf]).seq

\* get_active_version_id: the request keeps the version id, not the pointer row.
ReadPointer(p) ==
  LET r == req[p]
      seen == active[r.wf]
  IN  /\ r.pc = "pointer"
      /\ req' = [req EXCEPT ![p] =
           IF RollbackRefused(r) THEN Resting("idle")
           ELSE [r EXCEPT !.pc = IF r.op \in {"draft", "sync"} THEN "latest" ELSE "reload",
                          !.cached = seen,
                          !.parent = IF r.op = "draft" THEN seen ELSE r.parent]]
      /\ UNCHANGED <<versions, active, audit, lastId>>

\* WorkflowVersionRepository.add: the predecessor's sequence and chain hash.
ReadLatest(p) ==
  LET r == req[p]
      rows == RowsOf(View(p), r.wf)
      After(seq, id) == [r EXCEPT !.pc = "insert", !.prevSeq = seq, !.prev = id]
  IN  /\ r.pc = "latest"
      /\ \/ rows = {} /\ req' = [req EXCEPT ![p] = After(0, None)]
         \/ \E last \in rows :
              /\ IsLatest(last, rows)
              /\ req' = [req EXCEPT ![p] = After(last.seq, last.id)]
      /\ UNCHANGED <<versions, active, audit, lastId>>

\* Mutant of SameKey: the table has no unique key.
NoSameKey(p, row) == FALSE

\* The unique key (workflow_name, sequence) that the flush of p would insert.
SameKey(p, row) == row.wf = req[p].wf /\ row.seq = req[p].prevSeq + 1

NewRow(r) ==
  [id |-> lastId + 1, wf |-> r.wf, seq |-> r.prevSeq + 1, text |-> r.text,
   source |-> IF r.op = "sync" THEN "builtin" ELSE "admin",
   prev |-> r.prev, parent |-> r.parent]

\* Mutants of PublishesBuiltin: an admin's version is no obstacle; the first
\* built-in of a workflow is only recorded.
PublishesAlways(r) == TRUE
PublishesUpdates(r) == r.cached # None /\ RowAt(versions, r.cached).source = "builtin"

\* sync publishes the new built-in unless the active version is an admin's.
PublishesBuiltin(r) ==
  r.cached = None \/ RowAt(versions, r.cached).source = "builtin"

\* The audit entry of a saved admin version.
SaveEntry(r, row) ==
  [wf |-> r.wf,
   action |-> IF r.op = "create" THEN "workflow.created" ELSE "workflow.draft_saved",
   old |-> r.parent, new |-> row.id]

\* What follows the flush: a draft or a creation is audited, sync may publish.
AfterInsert(r, row) ==
  LET s == [r EXCEPT !.rows = @ \cup {row}, !.target = row.id]
  IN  IF r.op # "sync"
      THEN [s EXCEPT !.pc = "commit", !.log = Append(@, SaveEntry(r, row))]
      ELSE IF PublishesBuiltin(r) THEN [s EXCEPT !.pc = "reload"] ELSE NextBuiltin(s)

\* The INSERT waits while another open transaction holds its unique key.
InsertVersion(p) ==
  /\ req[p].pc = "insert"
  /\ \A q \in Process : \A row \in View(q) : ~SameKey(p, row)
  /\ lastId' = lastId + 1
  /\ req' = [req EXCEPT ![p] = AfterInsert(req[p], NewRow(req[p]))]
  /\ UNCHANGED <<versions, active, audit>>

\* Mutant of Aborted: the session is left open, its locks held.
AbortedOpen(p) ==
  [req[p] EXCEPT !.pc = IF req[p].op = "sync" THEN "down" ELSE "idle"]

\* Where a request that rolls its transaction back leaves the process: a failed
\* startup sync ends the process, any other failure only the request.
Aborted(p) == Resting(IF req[p].op = "sync" THEN "down" ELSE "idle")

\* IntegrityError: the key was committed by another transaction meanwhile.
InsertCollides(p) ==
  /\ req[p].pc = "insert"
  /\ \E row \in View(p) : SameKey(p, row)
  /\ req' = [req EXCEPT ![p] = Aborted(p)]
  /\ UNCHANGED <<versions, active, audit, lastId>>

\* Mutant of MoveAction: the bare verb.
MoveActionBare(op) == op

MoveAction(op) ==
  CASE op = "publish" -> "workflow.published"
    [] op = "rollback" -> "workflow.rolled_back"
    [] OTHER -> "workflow.builtin_synced"

\* Mutant of MoveEntry: the old value is read after the pointer has moved.
MoveEntryAfter(r) ==
  [wf |-> r.wf, action |-> MoveAction(r.op), old |-> r.target, new |-> r.target]

\* The audit entry of a pointer move.
MoveEntry(r) ==
  [wf |-> r.wf, action |-> MoveAction(r.op), old |-> r.cached, new |-> r.target]

\* _apply_publish: set_active SELECTs the pointer row anew (the session refers only
\* weakly to the row of ReadPointer, which nobody holds any more).
ReloadPointer(p) ==
  LET r == req[p]
  IN  /\ r.pc = "reload"
      /\ req' = [req EXCEPT ![p] = [r EXCEPT !.pc = "move", !.loaded = active[r.wf]]]
      /\ UNCHANGED <<versions, active, audit, lastId>>

\* No other open transaction has written the pointer row p is about to write.
PointerFree(p) == \A q \in Process \ {p} : req[p].wf \notin req[q].locked

\* Its flush locks the row, then the audit entry.  Assigning a column the value it was
\* loaded with writes nothing; a row that was absent is inserted.
MovePointer(p) ==
  LET r == req[p]
      moved == [r EXCEPT
                 !.moved[r.wf] = IF r.loaded = r.target THEN None ELSE r.target,
                 !.locked = @ \cup {r.wf},
                 !.log = Append(@, MoveEntry(r))]
  IN  /\ r.pc = "move"
      /\ PointerFree(p)
      /\ r.loaded = None => active[r.wf] = None
      /\ req' = [req EXCEPT ![p] = IF r.op = "sync" THEN NextBuiltin(moved)
                                   ELSE [moved EXCEPT !.pc = "commit"]]
      /\ UNCHANGED <<versions, active, audit, lastId>>

\* IntegrityError: another transaction inserted the absent pointer row meanwhile.
PointerCollides(p) ==
  /\ req[p].pc = "move"
  /\ PointerFree(p)
  /\ req[p].loaded = None /\ active[req[p].wf] # None
  /\ req' = [req EXCEPT ![p] = Aborted(p)]
  /\ UNCHANGED <<versions, active, audit, lastId>>

\* Mutant of Commit: the audit entries belong to no transaction that commits.
CommitUnaudited(p) ==
  LET r == req[p]
  IN  /\ r.pc = "commit"
      /\ versions' = versions \cup r.rows
      /\ active' = [w \in Workflow |-> IF r.moved[w] = None THEN active[w] ELSE r.moved[w]]
      /\ req' = [req EXCEPT ![p] = Resting("idle")]
      /\ UNCHANGED <<audit, lastId>>

\* db.commit(): the open transaction's rows, pointers and entries become visible.
Commit(p) ==
  LET r == req[p]
  IN  /\ r.pc = "commit"
      /\ versions' = versions \cup r.rows
      /\ active' = [w \in Workflow |-> IF r.moved[w] = None THEN active[w] ELSE r.moved[w]]
      /\ audit' = audit \o r.log
      /\ req' = [req EXCEPT ![p] = Resting("idle")]
      /\ UNCHANGED lastId

\* Validation refuses the input, or any statement fails: nothing is kept.
Fail(p) ==
  /\ InFlight(p)
  /\ req' = [req EXCEPT ![p] = Aborted(p)]
  /\ UNCHANGED <<versions, active, audit, lastId>>

\* The pod is stopped or dies; the database rolls its open transaction back.
Crash(p) ==
  /\ req[p].pc # "down"
  /\ req' = [req EXCEPT ![p] = Resting("down")]
  /\ UNCHANGED <<versions, active, audit, lastId>>

Statement(p) ==
  \/ ReadBuiltin(p)
  \/ ReadPointer(p)
  \/ ReadLatest(p)
  \/ InsertVersion(p)
  \/ InsertCollides(p)
  \/ ReloadPointer(p)
  \/ MovePointer(p)
  \/ PointerCollides(p)
  \/ Commit(p)

Next ==
  \E p \in Process :
    \/ \E w \in Workflow, t \in AdminText : BeginCreate(p, w, t)
    \/ \E w \in Workflow, t \in AdminText : BeginDraft(p, w, t)
    \/ \E r \in versions : BeginMove(p, "publish", r)
    \/ \E r \in versions : BeginMove(p, "rollback", r)
    \/ \E rel \in Releases : StartUp(p, rel)
    \/ Statement(p)
    \/ Fail(p)
    \/ Crash(p)

Spec == Init /\ [][Next]_vars

\* A process goes on with the request it runs; nobody has to send one.  The fairness
\* is strong because a statement may wait for another transaction's key or pointer
\* row: PostgreSQL queues the waiters of a lock, so none is overtaken for ever.  The
\* others stay enabled until taken, so weak fairness would do for them.
FairSpec == Spec /\ \A p \in Process : SF_vars(Statement(p))
--------------------------------------------------------------------------------
(* Properties. *)

\* Every variable has its type: the rows, pointers and entries are well formed and
\* each process's transaction holds only such rows and entries.
TypeOK ==
  /\ versions \subseteq Row
  /\ active \in [Workflow -> Nat]
  /\ audit \in Seq(Entry)
  /\ lastId \in Nat
  /\ req \in [Process -> Request]

\* The history of each workflow is one chain: sequence numbers are 1, 2, 3... with
\* none taken twice, and every row hashes its predecessor, so verify_chain finds no
\* broken version and two concurrent saves never fork the chain.
ChainIntact ==
  /\ \A r, s \in versions : (r.wf = s.wf /\ r.seq = s.seq) => r = s
  /\ \A r \in versions :
       IF r.seq = 1 THEN r.prev = None
       ELSE \E s \in versions : s.wf = r.wf /\ s.seq = r.seq - 1 /\ s.id = r.prev

\* A published pointer names a committed version of its own workflow: the assertion
\* of resolve_active_workflow and list_available_workflows.
PublishedIsStored ==
  \A w \in Workflow :
    active[w] # None => \E r \in versions : r.id = active[w] /\ r.wf = w

\* A version is parented on an older committed version of the same workflow, so
\* parentage never forms a cycle and never names a version that was rolled back.
ParentIsOlder ==
  \A r \in versions :
    r.parent # None =>
      \E s \in versions : s.id = r.parent /\ s.wf = r.wf /\ s.seq < r.seq

\* A process that serves requests has a published version for every built-in it
\* ships, so a chat turn on one always resolves.
ServingIsPublished ==
  \A p \in Process :
    (req[p].pc # "down" /\ req[p].op # "sync") =>
      \A i \in 1..Len(Builtins) : active[Builtins[i]] # None

IsMoveOf(e, w) == e.wf = w /\ e.action \in PointerAction

\* v is what the first n entries of the trail say the pointer of w holds, when it
\* held base before them.
Tells(trail, w, n, base, v) ==
  \/ v = base /\ \A i \in 1..n : ~IsMoveOf(trail[i], w)
  \/ \E i \in 1..n : /\ IsMoveOf(trail[i], w) /\ trail[i].new = v
                    /\ \A j \in i + 1 .. n : ~IsMoveOf(trail[j], w)

\* The audit trail is a complete history of what the pointer has held: each move
\* starts where the previous one ended, and the last one ends at the pointer.
AuditLineage ==
  \A w \in Workflow :
    /\ \A i \in 1..Len(audit) :
         IsMoveOf(audit[i], w) => Tells(audit, w, i - 1, None, audit[i].old)
    /\ Tells(audit, w, Len(audit), None, active[w])

\* The pointer never moves without an audit entry of the same commit that names
\* where it now points.
MovesAudited ==
  [][\A w \in Workflow : active'[w] # active[w] =>
       \E i \in Len(audit) + 1 .. Len(audit') :
         IsMoveOf(audit'[i], w) /\ audit'[i].new = active'[w]]_vars

\* A shipped update never replaces an admin's published version: the startup sync
\* moves a pointer only off nothing or off a built-in.
AdminChoiceKept ==
  [][\A p \in Process, w \in Workflow :
       (req[p].op = "sync" /\ active'[w] # active[w] /\ active[w] # None
        /\ req'[p].op # "sync")
          => RowAt(versions, active[w]).source = "builtin"]_vars

\* A restart with the same build records nothing: two built-in rows of a workflow
\* with no other built-in between them never carry the same text.
NoBuiltinTwice ==
  \A r, s \in versions :
    (/\ r.wf = s.wf /\ r.seq < s.seq
     /\ r.source = "builtin" /\ s.source = "builtin"
     /\ \A t \in versions : ~ /\ t.wf = r.wf /\ t.source = "builtin"
                              /\ r.seq < t.seq /\ t.seq < s.seq)
       => r.text # s.text

\* A request a process has begun ends, committed, refused or failed: no set of
\* transactions waits for each other's keys and pointer rows for ever.
RequestsEnd ==
  \A p \in Process : InFlight(p) ~> ~InFlight(p)

\* The committed rows of w as a sequence of version ids.
HistoryOf(w) ==
  [n \in {r.seq : r \in RowsOf(versions, w)} |->
     (CHOOSE r \in RowsOf(versions, w) : r.seq = n).id]

History == INSTANCE WorkflowHistory WITH
  Unpublished <- None,
  history <- [w \in Workflow |-> HistoryOf(w)],
  published <- active

\* The store implements the append-only history: no commit of any interleaving
\* rewrites, drops or reorders a stored version or publishes an unstored one.
ImplementsHistory == History!Spec
=============================================================================
