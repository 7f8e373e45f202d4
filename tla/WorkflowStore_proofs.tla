-------------------------- MODULE WorkflowStore_proofs --------------------------
(***************************************************************************)
(* Theorems about WorkflowStore for any number of processes, workflows,    *)
(* texts and releases, and any bounds.                                     *)
(***************************************************************************)
EXTENDS WorkflowStore, TLAPS

\* A request that rests, whichever its phase, is well formed.
LEMMA RestingType ==
  ASSUME NEW phase \in Phase
  PROVE  Resting(phase) \in Request
<1>1. (CHOOSE w \in Workflow : TRUE) \in Workflow
  BY NamesAssumption
<1>2. (CHOOSE t \in Text : TRUE) \in Text
  BY NamesAssumption
<1>3. (CHOOSE f \in [Workflow -> Text] : TRUE) \in [Workflow -> Text]
  <2>1. [w \in Workflow |-> CHOOSE t \in Text : TRUE] \in [Workflow -> Text]
    BY <1>2
  <2>2. QED BY <2>1
<1>4. <<>> \in Seq(Workflow) /\ <<>> \in Seq(Entry)
  OBVIOUS
<1>5. NoMoves \in [Workflow -> Nat]
  BY DEF NoMoves, None
<1>6. QED
  BY <1>1, <1>2, <1>3, <1>4, <1>5 DEF Resting, Request, Op, None

\* Going on to the next built-in keeps a request well formed.
LEMMA NextBuiltinType ==
  ASSUME NEW r \in Request
  PROVE  NextBuiltin(r) \in Request
<1>1. CASE r.todo = <<>>
  BY <1>1 DEF NextBuiltin, Request, Phase
<1>2. CASE r.todo # <<>>
  <2>1. r.todo \in Seq(Workflow)
    BY DEF Request
  <2>2. Head(r.todo) \in Workflow /\ Tail(r.todo) \in Seq(Workflow)
    BY <1>2, <2>1
  <2>3. QED
    BY <1>2, <2>2 DEF NextBuiltin, Request, Phase, None
<1>3. QED BY <1>1, <1>2

\* Type correctness of the initial state.
LEMMA InitType == Init => TypeOK
<1> SUFFICES ASSUME Init PROVE TypeOK
  OBVIOUS
<1>1. Resting("down") \in Request
  BY RestingType DEF Phase
<1>2. active \in [Workflow -> Nat]
  BY DEF Init, NoMoves, None
<1>3. audit \in Seq(Entry)
  BY DEF Init
<1>4. QED
  BY <1>1, <1>2, <1>3 DEF Init, TypeOK

\* A step that only gives one process another well-formed request keeps the types.
LEMMA ReqOnlyType ==
  ASSUME TypeOK, NEW p \in Process, NEW r \in Request,
         req' = [req EXCEPT ![p] = r],
         UNCHANGED <<versions, active, audit>>, lastId' \in Nat
  PROVE  TypeOK'
BY DEF TypeOK

\* A row about to be inserted is a row, and the request that follows is well formed.
LEMMA InsertType ==
  ASSUME TypeOK, NEW p \in Process
  PROVE  /\ NewRow(req[p]) \in Row
         /\ AfterInsert(req[p], NewRow(req[p])) \in Request
<1> DEFINE r == req[p]
           row == NewRow(r)
           s == [r EXCEPT !.rows = @ \cup {row}, !.target = row.id]
<1>1. r \in Request /\ lastId \in Nat
  BY DEF TypeOK
<1>2. row \in Row
  BY <1>1 DEF NewRow, Row, Request, Source
<1>3. s \in Request
  <2>1. r.rows \cup {row} \in SUBSET Row /\ row.id \in Nat
    BY <1>1, <1>2 DEF Request, Row
  <2>2. QED BY <1>1, <2>1 DEF Request
<1>4. NextBuiltin(s) \in Request
  BY <1>3, NextBuiltinType
<1>5. [s EXCEPT !.pc = "reload"] \in Request
  BY <1>3 DEF Request, Phase
<1>6. SaveEntry(r, row) \in Entry
  BY <1>1, <1>2 DEF SaveEntry, Entry, Request, Row, Action
<1>7. [s EXCEPT !.pc = "commit", !.log = Append(@, SaveEntry(r, row))] \in Request
  <2>1. s.log \in Seq(Entry)
    BY <1>3 DEF Request
  <2>2. Append(s.log, SaveEntry(r, row)) \in Seq(Entry)
    BY <1>6, <2>1
  <2>3. QED BY <1>3, <2>2 DEF Request, Phase
<1>8. QED
  BY <1>2, <1>4, <1>5, <1>7 DEF AfterInsert

\* The request after a pointer move is well formed.
LEMMA MoveType ==
  ASSUME TypeOK, NEW p \in Process, MovePointer(p)
  PROVE  TypeOK'
<1> DEFINE r == req[p]
           m == [r EXCEPT
                  !.moved[r.wf] = IF r.loaded = r.target THEN None ELSE r.target,
                  !.locked = @ \cup {r.wf},
                  !.log = Append(@, MoveEntry(r))]
<1>1. r \in Request
  BY DEF TypeOK
<1>2. MoveEntry(r) \in Entry
  BY <1>1 DEF MoveEntry, Entry, Request, MoveAction, Action
<1>3. m \in Request
  <2>1. Append(r.log, MoveEntry(r)) \in Seq(Entry)
    BY <1>1, <1>2 DEF Request
  <2>2. [r.moved EXCEPT ![r.wf] = IF r.loaded = r.target THEN None ELSE r.target]
          \in [Workflow -> Nat]
    BY <1>1 DEF Request, None
  <2>3. r.locked \cup {r.wf} \in SUBSET Workflow
    BY <1>1 DEF Request
  <2>4. QED BY <1>1, <2>1, <2>2, <2>3 DEF Request
<1>4. NextBuiltin(m) \in Request
  BY <1>3, NextBuiltinType
<1>5. [m EXCEPT !.pc = "commit"] \in Request
  BY <1>3 DEF Request, Phase
<1>6. \E n \in Request : req' = [req EXCEPT ![p] = n]
  BY <1>4, <1>5 DEF MovePointer
<1>7. UNCHANGED <<versions, active, audit, lastId>>
  BY DEF MovePointer
<1>8. QED
  BY <1>6, <1>7, ReqOnlyType DEF TypeOK

\* A committed transaction's rows, pointers and entries are well formed.
LEMMA CommitType ==
  ASSUME TypeOK, NEW p \in Process, Commit(p)
  PROVE  TypeOK'
<1> DEFINE r == req[p]
<1>1. r \in Request
  BY DEF TypeOK
<1>2. versions' \subseteq Row
  BY <1>1 DEF TypeOK, Commit, Request
<1>3. active' \in [Workflow -> Nat]
  BY <1>1 DEF TypeOK, Commit, Request
<1>4. audit' \in Seq(Entry)
  BY <1>1 DEF TypeOK, Commit, Request
<1>5. req' \in [Process -> Request]
  BY RestingType DEF TypeOK, Commit, Phase
<1>6. QED
  BY <1>2, <1>3, <1>4, <1>5 DEF TypeOK, Commit

\* Every other step hands its process a well-formed request.
LEMMA NextType ==
  ASSUME TypeOK, [Next]_vars
  PROVE  TypeOK'
<1>1. CASE UNCHANGED vars
  BY <1>1 DEF vars, TypeOK
<1>2. ASSUME NEW p \in Process, NEW w \in Workflow, NEW t \in AdminText, BeginCreate(p, w, t)
      PROVE  TypeOK'
  <2>1. t \in Text /\ Resting("latest") \in Request
    BY AdminTextAssumption, RestingType DEF Phase
  <2>2. [Resting("latest") EXCEPT !.op = "create", !.wf = w, !.text = t] \in Request
    BY <2>1 DEF Request, Op
  <2>3. QED
    BY <1>2, <2>2, ReqOnlyType DEF BeginCreate, Begin, TypeOK
<1>3. ASSUME NEW p \in Process, NEW w \in Workflow, NEW t \in AdminText, BeginDraft(p, w, t)
      PROVE  TypeOK'
  <2>1. t \in Text /\ Resting("pointer") \in Request
    BY AdminTextAssumption, RestingType DEF Phase
  <2>2. [Resting("pointer") EXCEPT !.op = "draft", !.wf = w, !.text = t] \in Request
    BY <2>1 DEF Request, Op
  <2>3. QED
    BY <1>3, <2>2, ReqOnlyType DEF BeginDraft, Begin, TypeOK
<1>4. ASSUME NEW p \in Process, NEW op \in {"publish", "rollback"}, NEW r \in versions,
             BeginMove(p, op, r)
      PROVE  TypeOK'
  <2>1. r.wf \in Workflow /\ r.id \in Nat /\ Resting("pointer") \in Request
    BY RestingType DEF TypeOK, Row, Phase
  <2>2. [Resting("pointer") EXCEPT !.op = op, !.wf = r.wf, !.target = r.id] \in Request
    BY <2>1 DEF Request, Op
  <2>3. QED
    BY <1>4, <2>2, ReqOnlyType DEF BeginMove, Begin, TypeOK
<1>5. ASSUME NEW p \in Process, NEW rel \in Releases, StartUp(p, rel)
      PROVE  TypeOK'
  <2>1. [Resting("commit") EXCEPT !.op = "sync"] \in Request
    BY RestingType DEF Request, Op, Phase
  <2>2. ASSUME Builtins # <<>>
        PROVE  [Resting("builtin") EXCEPT !.op = "sync", !.rel = rel,
                  !.wf = Head(Builtins), !.todo = Tail(Builtins)] \in Request
    <3>1. Head(Builtins) \in Workflow /\ Tail(Builtins) \in Seq(Workflow)
      BY <2>2, BuiltinsAssumption
    <3>2. rel \in [Workflow -> Text]
      BY ReleasesAssumption
    <3>3. Resting("builtin") \in Request
      BY RestingType DEF Phase
    <3>4. QED BY <3>1, <3>2, <3>3 DEF Request, Op
  <2>3. \E n \in Request : req' = [req EXCEPT ![p] = n]
    BY <1>5, <2>1, <2>2 DEF StartUp
  <2>4. QED
    BY <1>5, <2>3, ReqOnlyType DEF StartUp, TypeOK
<1>6. ASSUME NEW p \in Process, ReadBuiltin(p)
      PROVE  TypeOK'
  <2> DEFINE r == req[p]
             Proceed(parent) == [r EXCEPT !.pc = "pointer", !.text = r.rel[r.wf],
                                          !.parent = parent]
  <2>1. r \in Request
    BY DEF TypeOK
  <2>2. \A id \in Nat : Proceed(id) \in Request
    BY <2>1 DEF Request, Phase
  <2>3. NextBuiltin(r) \in Request
    BY <2>1, NextBuiltinType
  <2>4. \A b \in BuiltinsOf(View(p), r.wf) : b.id \in Nat
    BY <2>1 DEF BuiltinsOf, RowsOf, View, TypeOK, Request, Row
  <2>5. \E n \in Request : req' = [req EXCEPT ![p] = n]
    <3>1. CASE req' = [req EXCEPT ![p] = Proceed(None)]
      BY <2>2, <3>1 DEF None
    <3>2. CASE \E b \in BuiltinsOf(View(p), r.wf) :
                 req' = [req EXCEPT ![p] = IF b.text = r.rel[r.wf] THEN NextBuiltin(r)
                                           ELSE Proceed(b.id)]
      BY <2>2, <2>3, <2>4, <3>2
    <3>3. QED BY <1>6, <3>1, <3>2 DEF ReadBuiltin
  <2>6. QED
    BY <1>6, <2>5, ReqOnlyType DEF ReadBuiltin, TypeOK
<1>7. ASSUME NEW p \in Process, ReadPointer(p)
      PROVE  TypeOK'
  <2> DEFINE r == req[p]
             n == [r EXCEPT !.pc = IF r.op \in {"draft", "sync"} THEN "latest" ELSE "reload",
                            !.cached = active[r.wf],
                            !.parent = IF r.op = "draft" THEN active[r.wf] ELSE r.parent]
  <2>1. r \in Request /\ active[r.wf] \in Nat
    BY DEF TypeOK, Request
  <2>2. n \in Request
    BY <2>1 DEF Request, Phase
  <2>3. Resting("idle") \in Request
    BY RestingType DEF Phase
  <2>4. \E m \in Request : req' = [req EXCEPT ![p] = m]
    BY <1>7, <2>2, <2>3 DEF ReadPointer
  <2>5. QED
    BY <1>7, <2>4, ReqOnlyType DEF ReadPointer, TypeOK
<1>8. ASSUME NEW p \in Process, ReadLatest(p)
      PROVE  TypeOK'
  <2> DEFINE r == req[p]
             After(seq, id) == [r EXCEPT !.pc = "insert", !.prevSeq = seq, !.prev = id]
  <2>1. r \in Request
    BY DEF TypeOK
  <2>2. \A seq, id \in Nat : After(seq, id) \in Request
    BY <2>1 DEF Request, Phase
  <2>3. \A last \in RowsOf(View(p), r.wf) : last.seq \in Nat /\ last.id \in Nat
    BY <2>1 DEF RowsOf, View, TypeOK, Request, Row
  <2>4. \E n \in Request : req' = [req EXCEPT ![p] = n]
    BY <1>8, <2>2, <2>3 DEF ReadLatest, None
  <2>5. QED
    BY <1>8, <2>4, ReqOnlyType DEF ReadLatest, TypeOK
<1>9. ASSUME NEW p \in Process, InsertVersion(p)
      PROVE  TypeOK'
  <2>1. AfterInsert(req[p], NewRow(req[p])) \in Request
    BY InsertType
  <2>2. lastId' \in Nat
    BY <1>9 DEF InsertVersion, TypeOK
  <2>3. QED
    BY <1>9, <2>1, <2>2, ReqOnlyType DEF InsertVersion
<1>10. ASSUME NEW p \in Process,
              InsertCollides(p) \/ PointerCollides(p) \/ Fail(p) \/ Crash(p)
       PROVE  TypeOK'
  <2>1. Resting("down") \in Request /\ Resting("idle") \in Request
    BY RestingType DEF Phase
  <2>2. \E n \in Request : req' = [req EXCEPT ![p] = n]
    BY <1>10, <2>1 DEF InsertCollides, PointerCollides, Fail, Crash, Aborted
  <2>3. UNCHANGED <<versions, active, audit, lastId>>
    BY <1>10 DEF InsertCollides, PointerCollides, Fail, Crash
  <2>4. QED
    BY <2>2, <2>3, ReqOnlyType DEF TypeOK
<1>11. ASSUME NEW p \in Process, ReloadPointer(p)
       PROVE  TypeOK'
  <2> DEFINE r == req[p]
             n == [r EXCEPT !.pc = "move", !.loaded = active[r.wf]]
  <2>1. r \in Request /\ active[r.wf] \in Nat
    BY DEF TypeOK, Request
  <2>2. n \in Request
    BY <2>1 DEF Request, Phase
  <2>3. QED
    BY <1>11, <2>2, ReqOnlyType DEF ReloadPointer, TypeOK
<1>12. QED
  BY <1>1, <1>2, <1>3, <1>4, <1>5, <1>6, <1>7, <1>8, <1>9, <1>10, <1>11, MoveType, CommitType
     DEF Next, Statement

\* The store is type correct in every reachable state: no interleaving of requests,
\* startups, failures and crashes leaves a malformed row, pointer or audit entry.
THEOREM TypeCorrect == Spec => []TypeOK
<1>1. QED
  BY InitType, NextType, PTL DEF Spec

--------------------------------------------------------------------------------
(* The inductive invariant. *)

\* row is chained to its predecessor within rows.
Chained(row, rows) ==
  IF row.seq = 1 THEN row.prev = None
  ELSE \E s \in rows : s.wf = row.wf /\ s.seq = row.seq - 1 /\ s.id = row.prev

\* row's parent is an older version within rows.
Parented(row, rows) ==
  row.parent # None =>
    \E s \in rows : s.id = row.parent /\ s.wf = row.wf /\ s.seq < row.seq

RowInv(row, rows) == row.id # 0 /\ row.seq # 0 /\ Chained(row, rows) /\ Parented(row, rows)

Stored(id, w, rows) == \E s \in rows : s.id = id /\ s.wf = w

\* What a transaction holds is sound with respect to what it can read: its rows are
\* chained and parented in its view, and so is the row it is about to insert.
ReqInv(p) ==
  LET r == req[p]
  IN  /\ r.pc = "builtin" => r.op = "sync"
      /\ r.pc = "pointer" => r.op \in {"draft", "sync", "publish", "rollback"}
      /\ \A row \in r.rows : RowInv(row, View(p))
      /\ \A w \in Workflow : r.moved[w] # None => Stored(r.moved[w], w, View(p))
      /\ r.parent # None => Stored(r.parent, r.wf, View(p))
      /\ (r.pc \in {"reload", "move"} \/ r.op \in {"publish", "rollback"}) =>
           r.target # None /\ Stored(r.target, r.wf, View(p))
      /\ r.pc = "insert" =>
           /\ r.prevSeq = 0 => r.prev = None
           /\ r.prevSeq # 0 =>
                \E s \in View(p) : s.wf = r.wf /\ s.seq = r.prevSeq /\ s.id = r.prev
           /\ r.parent # None =>
                \E s \in View(p) : s.id = r.parent /\ s.wf = r.wf /\ s.seq <= r.prevSeq

\* No two rows share a unique key, open transactions' rows included.
KeysInv ==
  \A p, q \in Process : \A r \in View(p), s \in View(q) :
    (r.wf = s.wf /\ r.seq = s.seq) => r = s

IInv ==
  /\ TypeOK
  /\ \A row \in versions : RowInv(row, versions)
  /\ PublishedIsStored
  /\ KeysInv
  /\ \A p \in Process : ReqInv(p)

\* What a resting process holds: nothing.
LEMMA RestingFields ==
  ASSUME NEW phase
  PROVE  /\ Resting(phase).pc = phase
         /\ Resting(phase).op = "none"
         /\ Resting(phase).rows = {}
         /\ Resting(phase).parent = None
         /\ \A w \in Workflow : Resting(phase).moved[w] = None
BY DEF Resting, NoMoves

\* The invariant holds initially: nothing is stored and every process rests.
LEMMA InitIInv == Init => IInv
<1> SUFFICES ASSUME Init PROVE IInv
  OBVIOUS
<1>1. TypeOK
  BY InitType
<1>2. \A p \in Process : req[p] = Resting("down")
  BY DEF Init
<1>3. \A p \in Process : View(p) = {}
  BY <1>2, RestingFields DEF Init, View
<1>4. \A p \in Process : ReqInv(p)
  <2> SUFFICES ASSUME NEW p \in Process PROVE ReqInv(p)
    OBVIOUS
  <2>1. /\ req[p].pc = "down"
        /\ req[p].op = "none"
        /\ req[p].rows = {}
        /\ req[p].parent = None
        /\ \A w \in Workflow : req[p].moved[w] = None
    BY <1>2, RestingFields
  <2>2. QED BY <2>1 DEF ReqInv
<1>5. KeysInv
  BY <1>3 DEF KeysInv
<1>6. PublishedIsStored
  BY DEF Init, PublishedIsStored, NoMoves
<1>7. QED
  BY <1>1, <1>4, <1>5, <1>6 DEF IInv, Init

\* A sound row stays sound among more rows.
LEMMA RowInvGrows ==
  ASSUME NEW A, NEW B, A \subseteq B, NEW row, RowInv(row, A)
  PROVE  RowInv(row, B)
BY DEF RowInv, Chained, Parented

\* A resting process holds nothing that could be unsound.
LEMMA RestingInv ==
  ASSUME NEW p \in Process, NEW phase \in {"down", "idle"}, req'[p] = Resting(phase)
  PROVE  ReqInv(p)'
<1>1. /\ req'[p].pc = phase
      /\ req'[p].op = "none"
      /\ req'[p].rows = {}
      /\ req'[p].parent = None
      /\ \A w \in Workflow : req'[p].moved[w] = None
  BY RestingFields
<1>2. QED BY <1>1 DEF ReqInv

\* A step that changes one request only, and gives it no new row, keeps the invariant
\* if it keeps what that request holds sound.
LEMMA Frame ==
  ASSUME IInv, TypeOK', NEW p \in Process, NEW n,
         req' = [req EXCEPT ![p] = n], n.rows \subseteq req[p].rows,
         UNCHANGED <<versions, active>>,
         ReqInv(p)'
  PROVE  IInv'
<1>1. \A q \in Process \ {p} : req'[q] = req[q] /\ View(q)' = View(q)
  BY DEF IInv, TypeOK, View
<1>2. req'[p] = n /\ View(p)' \subseteq View(p)
  BY DEF IInv, TypeOK, View
<1>3. KeysInv'
  BY <1>1, <1>2 DEF IInv, KeysInv
<1>4. \A q \in Process : ReqInv(q)'
  <2> SUFFICES ASSUME NEW q \in Process \ {p} PROVE ReqInv(q)'
    OBVIOUS
  <2>1. ReqInv(q)
    BY DEF IInv
  <2>2. QED BY <1>1, <2>1 DEF ReqInv
<1>5. PublishedIsStored'
  BY DEF IInv, PublishedIsStored
<1>6. QED
  BY <1>3, <1>4, <1>5 DEF IInv

\* Every row a transaction can read is sound among the rows it can read.
LEMMA ViewSound ==
  ASSUME IInv, NEW p \in Process, NEW row \in View(p)
  PROVE  RowInv(row, View(p)) /\ row \in Row
<1>1. CASE row \in versions
  BY <1>1, RowInvGrows DEF IInv, View, TypeOK
<1>2. CASE row \in req[p].rows
  BY <1>2 DEF IInv, ReqInv, TypeOK, Request
<1>3. QED BY <1>1, <1>2 DEF View

\* Going on to the next built-in keeps what a sync transaction holds sound.
LEMMA NextBuiltinInv ==
  ASSUME NEW p \in Process, NEW r \in Request, r.op = "sync",
         req'[p] = NextBuiltin(r),
         \A row \in r.rows : RowInv(row, View(p)'),
         \A w \in Workflow : r.moved[w] # None => Stored(r.moved[w], w, View(p)'),
         r.parent # None => Stored(r.parent, r.wf, View(p)')
  PROVE  ReqInv(p)' /\ req'[p].rows = r.rows
<1>1. CASE r.todo = <<>>
  <2>1. req'[p] = [r EXCEPT !.pc = "commit"]
    BY <1>1 DEF NextBuiltin
  <2>2. QED BY <2>1 DEF ReqInv, Request
<1>2. CASE r.todo # <<>>
  <2>1. req'[p] = [r EXCEPT !.pc = "builtin", !.wf = Head(r.todo), !.todo = Tail(r.todo),
                            !.cached = None, !.loaded = None, !.parent = None]
    BY <1>2 DEF NextBuiltin
  <2>2. QED BY <2>1 DEF ReqInv, Request
<1>3. QED BY <1>1, <1>2

\* A process that comes to rest keeps the invariant.
LEMMA RestKeeps ==
  ASSUME IInv, TypeOK', NEW p \in Process, NEW phase \in {"down", "idle"},
         req' = [req EXCEPT ![p] = Resting(phase)],
         UNCHANGED <<versions, active>>
  PROVE  IInv'
<1>1. Resting(phase).rows \subseteq req[p].rows
  BY RestingFields
<1>2. req'[p] = Resting(phase)
  BY DEF IInv, TypeOK
<1>3. ReqInv(p)'
  BY <1>2, RestingInv
<1>4. QED BY <1>1, <1>3, Frame

\* A request that begins without rows, pending moves or a parent keeps the invariant
\* if the version it names, if any, is stored.
LEMMA BeginKeeps ==
  ASSUME IInv, TypeOK', NEW p \in Process, NEW n,
         req' = [req EXCEPT ![p] = n],
         UNCHANGED <<versions, active>>,
         n.rows = {}, n.parent = None, \A w \in Workflow : n.moved[w] = None,
         n.pc \notin {"reload", "move", "insert"}, n.pc = "builtin" => n.op = "sync",
         n.pc = "pointer" => n.op \in {"draft", "sync", "publish", "rollback"},
         n.op \in {"publish", "rollback"} =>
           n.target # None /\ Stored(n.target, n.wf, versions)
  PROVE  IInv'
<1>1. req'[p] = n /\ n.rows \subseteq req[p].rows
  BY DEF IInv, TypeOK
<1>2. View(p)' = versions
  BY <1>1 DEF View
<1>3. ReqInv(p)'
  BY <1>1, <1>2 DEF ReqInv
<1>4. QED BY <1>1, <1>3, Frame

LEMMA ReadBuiltinKeeps ==
  ASSUME IInv, TypeOK', NEW p \in Process, ReadBuiltin(p)
  PROVE  IInv'
<1> DEFINE r == req[p]
           Proceed(parent) == [r EXCEPT !.pc = "pointer", !.text = r.rel[r.wf],
                                        !.parent = parent]
<1>1. r \in Request /\ ReqInv(p) /\ r.op = "sync"
  BY DEF IInv, TypeOK, ReqInv, ReadBuiltin
<1>2. UNCHANGED <<versions, active>>
  BY DEF ReadBuiltin
<1>3. ASSUME NEW id \in Nat, req' = [req EXCEPT ![p] = Proceed(id)],
             id # None => Stored(id, r.wf, View(p))
      PROVE  IInv'
  <2>1. /\ req'[p] = Proceed(id)
        /\ Proceed(id).rows = r.rows
        /\ Proceed(id).pc = "pointer" /\ Proceed(id).op = "sync"
        /\ Proceed(id).moved = r.moved
        /\ Proceed(id).wf = r.wf /\ Proceed(id).parent = id
    BY <1>1, <1>3 DEF IInv, TypeOK, Request
  <2>2. View(p)' = View(p)
    BY <1>2, <2>1 DEF View
  <2>3. ReqInv(p)'
    BY <1>1, <1>3, <2>1, <2>2 DEF ReqInv
  <2>4. QED BY <1>2, <1>3, <2>1, <2>3, Frame
<1>4. ASSUME req' = [req EXCEPT ![p] = NextBuiltin(r)]
      PROVE  IInv'
  <2>1. req'[p] = NextBuiltin(r)
    BY <1>4 DEF IInv, TypeOK
  <2>2. NextBuiltin(r).rows = r.rows
    BY <1>1 DEF NextBuiltin, Request
  <2>3. View(p)' = View(p)
    BY <1>2, <2>1, <2>2 DEF View
  <2>4. ReqInv(p)'
    BY <1>1, <2>1, <2>3, NextBuiltinInv DEF ReqInv
  <2>5. QED BY <1>2, <1>4, <2>2, <2>4, Frame
<1>5. CASE req' = [req EXCEPT ![p] = Proceed(None)]
  BY <1>3, <1>5 DEF None
<1>6. CASE \E b \in BuiltinsOf(View(p), r.wf) :
             req' = [req EXCEPT ![p] = IF b.text = r.rel[r.wf] THEN NextBuiltin(r)
                                       ELSE Proceed(b.id)]
  <2>1. PICK b \in BuiltinsOf(View(p), r.wf) :
             req' = [req EXCEPT ![p] = IF b.text = r.rel[r.wf] THEN NextBuiltin(r)
                                       ELSE Proceed(b.id)]
    BY <1>6
  <2>2. b \in View(p) /\ b.wf = r.wf
    BY DEF BuiltinsOf, RowsOf
  <2>3. b.id \in Nat /\ Stored(b.id, r.wf, View(p))
    BY <2>2, ViewSound DEF Stored, Row
  <2>4. QED BY <1>3, <1>4, <2>1, <2>3
<1>7. QED BY <1>5, <1>6 DEF ReadBuiltin

LEMMA ReadPointerKeeps ==
  ASSUME IInv, TypeOK', NEW p \in Process, ReadPointer(p)
  PROVE  IInv'
<1> DEFINE r == req[p]
           n == [r EXCEPT !.pc = IF r.op \in {"draft", "sync"} THEN "latest" ELSE "reload",
                          !.cached = active[r.wf],
                          !.parent = IF r.op = "draft" THEN active[r.wf] ELSE r.parent]
<1>1. r \in Request /\ ReqInv(p)
  BY DEF IInv, TypeOK
<1>2. UNCHANGED <<versions, active>>
  BY DEF ReadPointer
<1>3. CASE req' = [req EXCEPT ![p] = Resting("idle")]
  BY <1>2, <1>3, RestKeeps
<1>4. CASE req' = [req EXCEPT ![p] = n]
  <2>1. /\ req'[p] = n
        /\ n.rows = r.rows /\ n.moved = r.moved /\ n.wf = r.wf /\ n.op = r.op
        /\ n.target = r.target
        /\ r.op \in {"draft", "sync", "publish", "rollback"}
        /\ n.pc = IF r.op \in {"draft", "sync"} THEN "latest" ELSE "reload"
        /\ n.parent = IF r.op = "draft" THEN active[r.wf] ELSE r.parent
    BY <1>1, <1>4 DEF IInv, TypeOK, Request, ReqInv, ReadPointer
  <2>2. View(p)' = View(p)
    BY <1>2, <2>1 DEF View
  <2>3. r.wf \in Workflow
    BY <1>1 DEF Request
  <2>4. active[r.wf] # None => Stored(active[r.wf], r.wf, View(p))
    BY <2>3 DEF IInv, PublishedIsStored, Stored, View
  <2>5. ReqInv(p)'
    BY <1>1, <1>4, <2>1, <2>2, <2>4 DEF ReqInv
  <2>6. QED BY <1>2, <1>4, <2>1, <2>5, Frame
<1>5. QED BY <1>3, <1>4 DEF ReadPointer

LEMMA ReadLatestKeeps ==
  ASSUME IInv, TypeOK', NEW p \in Process, ReadLatest(p)
  PROVE  IInv'
<1> DEFINE r == req[p]
           rows == RowsOf(View(p), r.wf)
           After(seq, id) == [r EXCEPT !.pc = "insert", !.prevSeq = seq, !.prev = id]
<1>1. r \in Request /\ ReqInv(p)
  BY DEF IInv, TypeOK
<1>2. UNCHANGED <<versions, active>>
  BY DEF ReadLatest
<1>3. ASSUME NEW seq \in Nat, NEW id \in Nat, req' = [req EXCEPT ![p] = After(seq, id)],
             seq = 0 => rows = {} /\ id = None,
             seq # 0 => \E s \in rows : s.seq = seq /\ s.id = id,
             \A s \in rows : s.seq <= seq
      PROVE  IInv'
  <2>1. /\ req'[p] = After(seq, id)
        /\ After(seq, id).rows = r.rows /\ After(seq, id).moved = r.moved
        /\ After(seq, id).wf = r.wf /\ After(seq, id).op = r.op
        /\ After(seq, id).parent = r.parent /\ After(seq, id).target = r.target
        /\ After(seq, id).pc = "insert"
        /\ After(seq, id).prevSeq = seq /\ After(seq, id).prev = id
    BY <1>1, <1>3 DEF IInv, TypeOK, Request
  <2>2. View(p)' = View(p)
    BY <1>2, <2>1 DEF View
  <2>3. r.parent # None =>
          \E s \in View(p) : s.id = r.parent /\ s.wf = r.wf /\ s.seq <= seq
    BY <1>1, <1>3 DEF ReqInv, Stored, RowsOf
  <2>4. seq # 0 => \E s \in View(p) : s.wf = r.wf /\ s.seq = seq /\ s.id = id
    BY <1>3 DEF RowsOf
  <2>5. ReqInv(p)'
    BY <1>1, <1>3, <2>1, <2>2, <2>3, <2>4 DEF ReqInv
  <2>6. QED BY <1>2, <1>3, <2>1, <2>5, Frame
<1>4. CASE rows = {} /\ req' = [req EXCEPT ![p] = After(0, None)]
  BY <1>3, <1>4 DEF None
<1>5. CASE \E last \in rows : IsLatest(last, rows)
                              /\ req' = [req EXCEPT ![p] = After(last.seq, last.id)]
  <2>1. PICK last \in rows : IsLatest(last, rows)
                             /\ req' = [req EXCEPT ![p] = After(last.seq, last.id)]
    BY <1>5
  <2>2. last \in View(p)
    BY DEF RowsOf
  <2>3. last.seq \in Nat /\ last.id \in Nat /\ last.seq # 0
    BY <2>2, ViewSound DEF Row, RowInv
  <2>4. \A s \in rows : s.seq <= last.seq
    BY <2>1 DEF IsLatest
  <2>5. QED BY <1>3, <2>1, <2>3, <2>4
<1>6. QED BY <1>4, <1>5 DEF ReadLatest

LEMMA InsertKeeps ==
  ASSUME IInv, TypeOK', NEW p \in Process, InsertVersion(p)
  PROVE  IInv'
<1> DEFINE r == req[p]
           row == NewRow(r)
           n == AfterInsert(r, row)
           s == [r EXCEPT !.rows = @ \cup {row}, !.target = row.id]
<1>1. r \in Request /\ ReqInv(p) /\ r.pc = "insert" /\ lastId \in Nat
  BY DEF IInv, TypeOK, InsertVersion
<1>2. UNCHANGED <<versions, active>> /\ req' = [req EXCEPT ![p] = n] /\ req'[p] = n
  BY DEF InsertVersion, IInv, TypeOK
<1>3. row \in Row /\ n \in Request
  BY InsertType DEF IInv
<1>4. /\ row.id = lastId + 1 /\ row.wf = r.wf /\ row.seq = r.prevSeq + 1
      /\ row.prev = r.prev /\ row.parent = r.parent
  BY DEF NewRow
<1>5. /\ s \in Request /\ s.rows = r.rows \cup {row} /\ s.target = row.id
      /\ s.moved = r.moved /\ s.wf = r.wf /\ s.op = r.op /\ s.parent = r.parent
  <2>1. r.rows \cup {row} \in SUBSET Row /\ row.id \in Nat
    BY <1>1, <1>3 DEF Request, Row
  <2>2. QED BY <1>1, <2>1 DEF Request
<1>6. RowInv(row, View(p))
  <2>1. row.id # 0 /\ row.seq # 0
    BY <1>1, <1>4 DEF Request
  <2>2. Chained(row, View(p))
    <3>1. /\ r.prevSeq = 0 => r.prev = None
          /\ r.prevSeq # 0 =>
               \E t \in View(p) : t.wf = r.wf /\ t.seq = r.prevSeq /\ t.id = r.prev
      BY <1>1 DEF ReqInv
    <3>2. r.prevSeq \in Nat
      BY <1>1 DEF Request
    <3>3. row.seq = 1 <=> r.prevSeq = 0
      BY <1>4, <3>2
    <3>4. row.seq - 1 = r.prevSeq
      BY <1>4, <3>2
    <3>5. QED BY <1>4, <3>1, <3>3, <3>4 DEF Chained
  <2>3. Parented(row, View(p))
    <3>1. SUFFICES ASSUME row.parent # None
                   PROVE  \E t \in View(p) : t.id = row.parent /\ t.wf = row.wf
                                             /\ t.seq < row.seq
      BY DEF Parented
    <3>2. PICK t \in View(p) : t.id = r.parent /\ t.wf = r.wf /\ t.seq <= r.prevSeq
      BY <1>1, <1>4, <3>1 DEF ReqInv
    <3>3. t.seq \in Nat /\ r.prevSeq \in Nat
      BY <1>1, ViewSound DEF Row, Request
    <3>4. QED BY <1>4, <3>2, <3>3
  <2>4. QED BY <2>1, <2>2, <2>3 DEF RowInv
<1>7. n.rows = s.rows
  BY <1>5 DEF AfterInsert, NextBuiltin, Request
<1>8. View(p)' = View(p) \cup {row}
  BY <1>2, <1>5, <1>7 DEF View
<1>9. \A q \in Process \ {p} : req'[q] = req[q] /\ View(q)' = View(q)
  BY <1>2 DEF IInv, TypeOK, View
<1>10. KeysInv'
  <2>1. \A q \in Process : \A t \in View(q) : ~(t.wf = row.wf /\ t.seq = row.seq)
    BY <1>4 DEF InsertVersion, SameKey
  <2>2. QED BY <1>8, <1>9, <2>1 DEF IInv, KeysInv
<1>11. ReqInv(p)'
  <2>1. \A t \in s.rows : RowInv(t, View(p)')
    BY <1>1, <1>5, <1>6, <1>8, RowInvGrows DEF ReqInv
  <2>2. \A w \in Workflow : s.moved[w] # None => Stored(s.moved[w], w, View(p)')
    BY <1>1, <1>5, <1>8 DEF ReqInv, Stored
  <2>3. s.parent # None => Stored(s.parent, s.wf, View(p)')
    BY <1>1, <1>5, <1>8 DEF ReqInv, Stored
  <2>4. s.target # None /\ Stored(s.target, s.wf, View(p)')
    BY <1>1, <1>4, <1>5, <1>8 DEF Stored, None
  <2>5. CASE n = [s EXCEPT !.pc = "commit", !.log = Append(@, SaveEntry(r, row))]
    <3>1. /\ n.pc = "commit" /\ n.rows = s.rows /\ n.moved = s.moved /\ n.wf = s.wf
          /\ n.op = s.op /\ n.parent = s.parent /\ n.target = s.target
      BY <1>5, <2>5 DEF Request
    <3>2. QED BY <1>2, <2>1, <2>2, <2>3, <2>4, <3>1 DEF ReqInv
  <2>6. CASE n = [s EXCEPT !.pc = "reload"]
    <3>1. /\ n.pc = "reload" /\ n.rows = s.rows /\ n.moved = s.moved /\ n.wf = s.wf
          /\ n.op = s.op /\ n.parent = s.parent /\ n.target = s.target
      BY <1>5, <2>6 DEF Request
    <3>2. QED BY <1>2, <2>1, <2>2, <2>3, <2>4, <3>1 DEF ReqInv
  <2>7. CASE n = NextBuiltin(s) /\ r.op = "sync"
    BY <1>2, <1>5, <2>1, <2>2, <2>3, <2>7, NextBuiltinInv
  <2>8. QED BY <2>5, <2>6, <2>7 DEF AfterInsert
<1>12. \A q \in Process : ReqInv(q)'
  <2> SUFFICES ASSUME NEW q \in Process \ {p} PROVE ReqInv(q)'
    BY <1>11
  <2>1. ReqInv(q)
    BY DEF IInv
  <2>2. QED BY <1>9, <2>1 DEF ReqInv
<1>13. PublishedIsStored'
  BY <1>2 DEF IInv, PublishedIsStored
<1>14. QED BY <1>2, <1>10, <1>12, <1>13 DEF IInv

LEMMA ReloadKeeps ==
  ASSUME IInv, TypeOK', NEW p \in Process, ReloadPointer(p)
  PROVE  IInv'
<1> DEFINE r == req[p]
           n == [r EXCEPT !.pc = "move", !.loaded = active[r.wf]]
<1>1. r \in Request /\ ReqInv(p) /\ r.pc = "reload"
  BY DEF IInv, TypeOK, ReloadPointer
<1>2. UNCHANGED <<versions, active>> /\ req' = [req EXCEPT ![p] = n]
  BY DEF ReloadPointer
<1>3. /\ req'[p] = n
      /\ n.rows = r.rows /\ n.moved = r.moved /\ n.wf = r.wf /\ n.op = r.op
      /\ n.target = r.target /\ n.parent = r.parent /\ n.pc = "move"
  BY <1>1, <1>2 DEF IInv, TypeOK, Request
<1>4. View(p)' = View(p)
  BY <1>2, <1>3 DEF View
<1>5. ReqInv(p)'
  BY <1>1, <1>3, <1>4 DEF ReqInv
<1>6. QED BY <1>2, <1>3, <1>5, Frame

LEMMA MoveKeeps ==
  ASSUME IInv, TypeOK', NEW p \in Process, MovePointer(p)
  PROVE  IInv'
<1> DEFINE r == req[p]
           m == [r EXCEPT
                  !.moved[r.wf] = IF r.loaded = r.target THEN None ELSE r.target,
                  !.locked = @ \cup {r.wf},
                  !.log = Append(@, MoveEntry(r))]
           n == IF r.op = "sync" THEN NextBuiltin(m) ELSE [m EXCEPT !.pc = "commit"]
<1>1. r \in Request /\ ReqInv(p) /\ r.pc = "move"
  BY DEF IInv, TypeOK, MovePointer
<1>2. /\ UNCHANGED <<versions, active>>
      /\ req' = [req EXCEPT ![p] = n] /\ req'[p] = n
  BY DEF MovePointer, IInv, TypeOK
<1>3. /\ m \in Request /\ m.rows = r.rows /\ m.wf = r.wf /\ m.op = r.op
      /\ m.parent = r.parent /\ m.target = r.target
      /\ \A w \in Workflow : m.moved[w] # None =>
           m.moved[w] = r.moved[w] \/ (w = r.wf /\ m.moved[w] = r.target)
  <2>1. Append(r.log, MoveEntry(r)) \in Seq(Entry)
    <3>1. MoveEntry(r) \in Entry
      BY <1>1 DEF MoveEntry, Entry, Request, MoveAction, Action
    <3>2. QED BY <1>1, <3>1 DEF Request
  <2>2. [r.moved EXCEPT ![r.wf] = IF r.loaded = r.target THEN None ELSE r.target]
          \in [Workflow -> Nat]
    BY <1>1 DEF Request, None
  <2>3. r.locked \cup {r.wf} \in SUBSET Workflow
    BY <1>1 DEF Request
  <2>4. m \in Request
    BY <1>1, <2>1, <2>2, <2>3 DEF Request
  <2>5. QED BY <1>1, <2>4 DEF Request
<1>4. n.rows = m.rows
  BY <1>3 DEF NextBuiltin, Request
<1>5. View(p)' = View(p)
  BY <1>2, <1>3, <1>4 DEF View
<1>6. \A row \in m.rows : RowInv(row, View(p)')
  BY <1>1, <1>3, <1>5 DEF ReqInv
<1>7. \A w \in Workflow : m.moved[w] # None => Stored(m.moved[w], w, View(p)')
  BY <1>1, <1>3, <1>5 DEF ReqInv
<1>8. m.parent # None => Stored(m.parent, m.wf, View(p)')
  BY <1>1, <1>3, <1>5 DEF ReqInv
<1>9. ReqInv(p)'
  <2>1. CASE r.op = "sync"
    BY <1>2, <1>3, <1>6, <1>7, <1>8, <2>1, NextBuiltinInv
  <2>2. CASE r.op # "sync"
    <3>1. /\ n.pc = "commit" /\ n.moved = m.moved /\ n.wf = m.wf
          /\ n.op = m.op /\ n.parent = m.parent /\ n.target = m.target
      BY <1>3, <2>2 DEF Request
    <3>2. m.target # None /\ Stored(m.target, m.wf, View(p)')
      BY <1>1, <1>3, <1>5 DEF ReqInv
    <3> HIDE DEF n, m
    <3>3. QED BY <1>2, <1>4, <1>6, <1>7, <1>8, <3>1, <3>2 DEF ReqInv
  <2>3. QED BY <2>1, <2>2
<1>10. QED BY <1>2, <1>3, <1>4, <1>9, Frame

\* A commit makes one transaction's view the committed state.
LEMMA CommitKeeps ==
  ASSUME IInv, TypeOK', NEW p \in Process, Commit(p)
  PROVE  IInv'
<1>1. req[p] \in Request /\ ReqInv(p)
  BY DEF IInv, TypeOK
<1>2. /\ versions' = View(p) /\ req' = [req EXCEPT ![p] = Resting("idle")]
      /\ req'[p] = Resting("idle")
  BY DEF Commit, View, IInv, TypeOK
<1>3. View(p)' = View(p)
  BY <1>2, RestingFields DEF View
<1>4. \A q \in Process \ {p} : /\ req'[q] = req[q]
                               /\ View(q)' = View(q) \cup View(p)
                               /\ View(q) \subseteq View(q)'
  BY <1>2 DEF IInv, TypeOK, View
<1>5. \A row \in versions' : RowInv(row, versions')
  BY <1>2, ViewSound
<1>6. PublishedIsStored'
  <2> SUFFICES ASSUME NEW w \in Workflow, active'[w] # None
               PROVE  Stored(active'[w], w, View(p))
    BY <1>2 DEF PublishedIsStored, Stored
  <2>1. CASE req[p].moved[w] = None
    <3>1. active'[w] = active[w]
      BY <2>1 DEF Commit
    <3>2. QED BY <3>1 DEF IInv, PublishedIsStored, Stored, View
  <2>2. CASE req[p].moved[w] # None
    <3>1. active'[w] = req[p].moved[w]
      BY <2>2 DEF Commit
    <3>2. QED BY <1>1, <2>2, <3>1 DEF ReqInv
  <2>3. QED BY <2>1, <2>2
<1>7. KeysInv'
  <2> SUFFICES ASSUME NEW q1 \in Process, NEW q2 \in Process,
                      NEW r \in View(q1)', NEW s \in View(q2)',
                      r.wf = s.wf, r.seq = s.seq
               PROVE  r = s
    BY DEF KeysInv
  <2>1. \E a \in Process : r \in View(a)
    BY <1>3, <1>4
  <2>2. \E b \in Process : s \in View(b)
    BY <1>3, <1>4
  <2>3. QED BY <2>1, <2>2 DEF IInv, KeysInv
<1>8. \A q \in Process : ReqInv(q)'
  <2>1. ReqInv(p)'
    BY <1>2, RestingInv
  <2>2. ASSUME NEW q \in Process \ {p} PROVE ReqInv(q)'
    <3>1. ReqInv(q) /\ req[q] \in Request
      BY DEF IInv, TypeOK
    <3>2. req'[q] = req[q] /\ View(q) \subseteq View(q)'
      BY <1>4
    <3>3. \A row \in req'[q].rows : RowInv(row, View(q)')
      BY <3>1, <3>2, RowInvGrows DEF ReqInv
    <3>4. \A id, w : Stored(id, w, View(q)) => Stored(id, w, View(q)')
      BY <3>2 DEF Stored
    <3>5. QED BY <3>1, <3>2, <3>3, <3>4 DEF ReqInv
  <2>3. QED BY <2>1, <2>2
<1>9. QED BY <1>5, <1>6, <1>7, <1>8 DEF IInv

\* Every step keeps the invariant.
LEMMA NextIInv ==
  ASSUME IInv, [Next]_vars
  PROVE  IInv'
<1>1. TypeOK'
  BY NextType DEF IInv
<1>2. CASE UNCHANGED vars
  <2>1. \A p \in Process : View(p)' = View(p) /\ req'[p] = req[p]
    BY <1>2 DEF vars, View
  <2>2. \A p \in Process : ReqInv(p)'
    BY <2>1 DEF IInv, ReqInv
  <2>3. KeysInv' /\ PublishedIsStored'
    BY <1>2, <2>1 DEF vars, IInv, KeysInv, PublishedIsStored
  <2>4. QED BY <1>1, <1>2, <2>2, <2>3 DEF IInv, vars
<1>3. ASSUME NEW p \in Process, NEW w \in Workflow, NEW t \in AdminText,
             BeginCreate(p, w, t) \/ BeginDraft(p, w, t)
      PROVE  IInv'
  <2> DEFINE n1 == [Resting("latest") EXCEPT !.op = "create", !.wf = w, !.text = t]
             n2 == [Resting("pointer") EXCEPT !.op = "draft", !.wf = w, !.text = t]
  <2>1. UNCHANGED <<versions, active>>
    BY <1>3 DEF BeginCreate, BeginDraft, Begin
  <2>2. CASE req' = [req EXCEPT ![p] = n1]
    <3>1. /\ n1.pc = "latest" /\ n1.op = "create" /\ n1.rows = {} /\ n1.parent = None
          /\ \A v \in Workflow : n1.moved[v] = None
      BY RestingFields DEF Resting
    <3>2. QED BY <1>1, <2>1, <2>2, <3>1, BeginKeeps
  <2>3. CASE req' = [req EXCEPT ![p] = n2]
    <3>1. /\ n2.pc = "pointer" /\ n2.op = "draft" /\ n2.rows = {} /\ n2.parent = None
          /\ \A v \in Workflow : n2.moved[v] = None
      BY RestingFields DEF Resting
    <3>2. QED BY <1>1, <2>1, <2>3, <3>1, BeginKeeps
  <2>4. QED BY <1>3, <2>2, <2>3 DEF BeginCreate, BeginDraft, Begin
<1>4. ASSUME NEW p \in Process, NEW op \in {"publish", "rollback"}, NEW r \in versions,
             BeginMove(p, op, r)
      PROVE  IInv'
  <2> DEFINE n == [Resting("pointer") EXCEPT !.op = op, !.wf = r.wf, !.target = r.id]
  <2>1. UNCHANGED <<versions, active>> /\ req' = [req EXCEPT ![p] = n]
    BY <1>4 DEF BeginMove, Begin
  <2>2. /\ n.pc = "pointer" /\ n.op = op /\ n.rows = {} /\ n.parent = None
        /\ n.target = r.id /\ n.wf = r.wf
        /\ \A v \in Workflow : n.moved[v] = None
    BY RestingFields DEF Resting
  <2>3. n.target # None /\ Stored(n.target, n.wf, versions)
    BY <2>2 DEF IInv, RowInv, Stored, None
  <2>4. QED BY <1>1, <2>1, <2>2, <2>3, BeginKeeps
<1>5. ASSUME NEW p \in Process, NEW rel \in Releases, StartUp(p, rel)
      PROVE  IInv'
  <2> DEFINE n1 == [Resting("commit") EXCEPT !.op = "sync"]
             n2 == [Resting("builtin") EXCEPT !.op = "sync", !.rel = rel,
                      !.wf = Head(Builtins), !.todo = Tail(Builtins)]
  <2>1. UNCHANGED <<versions, active>>
    BY <1>5 DEF StartUp
  <2>2. CASE req' = [req EXCEPT ![p] = n1]
    <3>1. /\ n1.pc = "commit" /\ n1.op = "sync" /\ n1.rows = {} /\ n1.parent = None
          /\ \A v \in Workflow : n1.moved[v] = None
      BY RestingFields DEF Resting
    <3>2. QED BY <1>1, <2>1, <2>2, <3>1, BeginKeeps
  <2>3. CASE req' = [req EXCEPT ![p] = n2]
    <3>1. /\ n2.pc = "builtin" /\ n2.op = "sync" /\ n2.rows = {} /\ n2.parent = None
          /\ \A v \in Workflow : n2.moved[v] = None
      BY RestingFields DEF Resting
    <3>2. QED BY <1>1, <2>1, <2>3, <3>1, BeginKeeps
  <2>4. QED BY <1>5, <2>2, <2>3 DEF StartUp
<1>6. ASSUME NEW p \in Process,
             InsertCollides(p) \/ PointerCollides(p) \/ Fail(p) \/ Crash(p)
      PROVE  IInv'
  <2>1. UNCHANGED <<versions, active>>
    BY <1>6 DEF InsertCollides, PointerCollides, Fail, Crash
  <2>2. \E phase \in {"down", "idle"} : req' = [req EXCEPT ![p] = Resting(phase)]
    BY <1>6 DEF InsertCollides, PointerCollides, Fail, Crash, Aborted
  <2>3. QED BY <1>1, <2>1, <2>2, RestKeeps
<1>7. QED
  BY <1>1, <1>2, <1>3, <1>4, <1>5, <1>6, ReadBuiltinKeeps, ReadPointerKeeps,
     ReadLatestKeeps, InsertKeeps, ReloadKeeps, MoveKeeps, CommitKeeps DEF Next, Statement

LEMMA Invariance == Spec => []IInv
BY InitIInv, NextIInv, PTL DEF Spec

\* However many processes save, sync and fail at once, each workflow's history stays
\* one unbroken chain numbered without repetition.
THEOREM ChainCorrect == Spec => []ChainIntact
<1>1. IInv => ChainIntact
  <2> SUFFICES ASSUME IInv PROVE ChainIntact
    OBVIOUS
  <2>1. PICK p \in Process : TRUE
    BY NamesAssumption
  <2>2. \A r, s \in versions : (r.wf = s.wf /\ r.seq = s.seq) => r = s
    BY <2>1 DEF IInv, KeysInv, View
  <2>3. QED BY <2>2 DEF IInv, RowInv, Chained, ChainIntact
<1>2. QED BY <1>1, Invariance, PTL

\* A published pointer always names a committed version of its own workflow, so
\* resolving an active workflow never dereferences a missing row.
THEOREM PublishedCorrect == Spec => []PublishedIsStored
<1>1. IInv => PublishedIsStored
  BY DEF IInv
<1>2. QED BY <1>1, Invariance, PTL

\* Parentage is acyclic: a parent is a committed, older version of the workflow.
THEOREM ParentCorrect == Spec => []ParentIsOlder
<1>1. IInv => ParentIsOlder
  BY DEF IInv, RowInv, Parented, ParentIsOlder
<1>2. QED BY <1>1, Invariance, PTL
=============================================================================
