-------------------------- MODULE WorkflowTrail_proofs --------------------------
(***************************************************************************)
(* More theorems about WorkflowStore: what a transaction has written and   *)
(* logged when it commits, so what the pointer, the audit trail and the    *)
(* stored histories look like afterwards.                                  *)
(***************************************************************************)
EXTENDS WorkflowStore_proofs, SequenceTheorems

(* What the steps do. *)

Others(p) == \A q \in Process \ {p} : req'[q] = req[q]
Kept == UNCHANGED <<versions, active, audit>>

SameWork(n, r) == n.rows = r.rows /\ n.moved = r.moved /\ n.log = r.log /\ n.op = r.op
SameGoal(n, r) == n.wf = r.wf /\ n.todo = r.todo

\* A sync is past its current built-in.
Onward(n, r) ==
  /\ SameWork(n, r)
  /\ \/ r.todo = <<>> /\ n.pc = "commit" /\ n.todo = <<>> /\ n.wf = r.wf /\ n.cached = r.cached
     \/ /\ r.todo # <<>> /\ n.pc = "builtin" /\ n.cached = None
        /\ n.wf = Head(r.todo) /\ n.todo = Tail(r.todo)

Began(p) ==
  /\ Kept /\ lastId' = lastId /\ Others(p)
  /\ req[p].pc \in {"idle", "down"}
  /\ req'[p].rows = {} /\ req'[p].log = <<>> /\ req'[p].cached = None
  /\ \A w \in Workflow : req'[p].moved[w] = None
  /\ \/ /\ req[p].pc = "idle"
        /\ \/ req'[p].op = "create" /\ req'[p].pc = "latest"
           \/ req'[p].op \in {"draft", "publish", "rollback"} /\ req'[p].pc = "pointer"
     \/ /\ req[p].pc = "down" /\ req'[p].op = "sync"
        /\ \/ Builtins = <<>> /\ req'[p].pc = "commit" /\ req'[p].todo = <<>>
           \/ /\ Builtins # <<>> /\ req'[p].pc = "builtin"
              /\ req'[p].wf = Head(Builtins) /\ req'[p].todo = Tail(Builtins)

Rested(p) ==
  /\ Kept /\ lastId' = lastId /\ Others(p)
  /\ \E phase \in {"down", "idle"} : req'[p] = Resting(phase)
  /\ req'[p].pc = "idle" => req[p].op # "sync" /\ req[p].pc # "down"

LEMMA RestingMore ==
  ASSUME NEW phase
  PROVE  /\ Resting(phase).log = <<>> /\ Resting(phase).todo = <<>>
         /\ Resting(phase).cached = None
BY DEF Resting

LEMMA OneRequest ==
  ASSUME TypeOK, NEW p \in Process, NEW n, req' = [req EXCEPT ![p] = n]
  PROVE  req'[p] = n /\ Others(p)
BY DEF TypeOK, Others

LEMMA RestSteps ==
  ASSUME TypeOK, NEW p \in Process,
         \/ InsertCollides(p) \/ PointerCollides(p) \/ Fail(p) \/ Crash(p)
         \/ ReadPointer(p) /\ RollbackRefused(req[p])
  PROVE  Rested(p)
<1>1. Kept /\ lastId' = lastId
  BY DEF InsertCollides, PointerCollides, Fail, Crash, ReadPointer, Kept
<1>2. PICK phase \in {"down", "idle"} :
        /\ req' = [req EXCEPT ![p] = Resting(phase)]
        /\ phase = "idle" => req[p].op # "sync" /\ req[p].pc # "down"
  <2>1. CASE InsertCollides(p) \/ PointerCollides(p) \/ Fail(p)
    <3>1. PICK phase : phase = IF req[p].op = "sync" THEN "down" ELSE "idle"
      OBVIOUS
    <3>2. req' = [req EXCEPT ![p] = Resting(phase)] /\ req[p].pc # "down"
      BY <2>1, <3>1 DEF InsertCollides, PointerCollides, Fail, Aborted, InFlight
    <3>3. QED BY <3>1, <3>2
  <2>2. CASE Crash(p)
    BY <2>2 DEF Crash
  <2>3. CASE ReadPointer(p) /\ RollbackRefused(req[p])
    BY <2>3 DEF ReadPointer, RollbackRefused
  <2>4. QED BY <2>1, <2>2, <2>3
<1>3. PICK n : n = Resting(phase)
  OBVIOUS
<1>4. req'[p] = n /\ Others(p)
  BY <1>2, <1>3, OneRequest
<1>5. n.pc = phase
  BY <1>3, RestingFields
<1>6. QED BY <1>1, <1>2, <1>3, <1>4, <1>5 DEF Rested

LEMMA BeginSteps ==
  ASSUME TypeOK, NEW p \in Process,
         \/ \E w \in Workflow, t \in AdminText : BeginCreate(p, w, t) \/ BeginDraft(p, w, t)
         \/ \E op \in {"publish", "rollback"}, r \in versions : BeginMove(p, op, r)
         \/ \E rel \in Releases : StartUp(p, rel)
  PROVE  Began(p)
<1>1. CASE \E w \in Workflow, t \in AdminText : BeginCreate(p, w, t)
  <2>1. PICK w, t : BeginCreate(p, w, t)
    BY <1>1
  <2>2. PICK n : n = [Resting("latest") EXCEPT !.op = "create", !.wf = w, !.text = t]
    OBVIOUS
  <2>3. /\ n.pc = "latest" /\ n.op = "create" /\ n.rows = {} /\ n.log = <<>>
        /\ n.cached = None /\ \A v \in Workflow : n.moved[v] = None
    BY <2>2, RestingFields, RestingMore DEF Resting
  <2>4. Kept /\ lastId' = lastId /\ req[p].pc = "idle" /\ req' = [req EXCEPT ![p] = n]
    BY <2>1, <2>2 DEF BeginCreate, Begin, Kept
  <2>5. QED BY <2>3, <2>4, OneRequest DEF Began
<1>2. CASE \E w \in Workflow, t \in AdminText : BeginDraft(p, w, t)
  <2>1. PICK w, t : BeginDraft(p, w, t)
    BY <1>2
  <2>2. PICK n : n = [Resting("pointer") EXCEPT !.op = "draft", !.wf = w, !.text = t]
    OBVIOUS
  <2>3. /\ n.pc = "pointer" /\ n.op = "draft" /\ n.rows = {} /\ n.log = <<>>
        /\ n.cached = None /\ \A v \in Workflow : n.moved[v] = None
    BY <2>2, RestingFields, RestingMore DEF Resting
  <2>4. Kept /\ lastId' = lastId /\ req[p].pc = "idle" /\ req' = [req EXCEPT ![p] = n]
    BY <2>1, <2>2 DEF BeginDraft, Begin, Kept
  <2>5. QED BY <2>3, <2>4, OneRequest DEF Began
<1>3. CASE \E op \in {"publish", "rollback"}, r \in versions : BeginMove(p, op, r)
  <2>1. PICK op \in {"publish", "rollback"}, r \in versions : BeginMove(p, op, r)
    BY <1>3
  <2>2. PICK n : n = [Resting("pointer") EXCEPT !.op = op, !.wf = r.wf, !.target = r.id]
    OBVIOUS
  <2>3. /\ n.pc = "pointer" /\ n.op = op /\ n.rows = {} /\ n.log = <<>>
        /\ n.cached = None /\ \A v \in Workflow : n.moved[v] = None
    BY <2>2, RestingFields, RestingMore DEF Resting
  <2>4. Kept /\ lastId' = lastId /\ req[p].pc = "idle" /\ req' = [req EXCEPT ![p] = n]
    BY <2>1, <2>2 DEF BeginMove, Begin, Kept
  <2>5. QED BY <2>1, <2>3, <2>4, OneRequest DEF Began
<1>4. CASE \E rel \in Releases : StartUp(p, rel)
  <2>1. PICK rel : StartUp(p, rel)
    BY <1>4
  <2>2. Kept /\ lastId' = lastId /\ req[p].pc = "down"
    BY <2>1 DEF StartUp, Kept
  <2>3. CASE Builtins = <<>>
    <3>1. PICK n : n = [Resting("commit") EXCEPT !.op = "sync"]
      OBVIOUS
    <3>2. /\ n.pc = "commit" /\ n.op = "sync" /\ n.rows = {} /\ n.log = <<>> /\ n.todo = <<>>
          /\ n.cached = None /\ \A v \in Workflow : n.moved[v] = None
      BY <3>1, RestingFields, RestingMore DEF Resting
    <3>3. req' = [req EXCEPT ![p] = n]
      BY <2>1, <2>3, <3>1 DEF StartUp
    <3>4. QED BY <2>2, <2>3, <3>2, <3>3, OneRequest DEF Began
  <2>4. CASE Builtins # <<>>
    <3>1. PICK n : n = [Resting("builtin") EXCEPT !.op = "sync", !.rel = rel,
                          !.wf = Head(Builtins), !.todo = Tail(Builtins)]
      OBVIOUS
    <3>2. /\ n.pc = "builtin" /\ n.op = "sync" /\ n.rows = {} /\ n.log = <<>>
          /\ n.wf = Head(Builtins) /\ n.todo = Tail(Builtins)
          /\ n.cached = None /\ \A v \in Workflow : n.moved[v] = None
      BY <3>1, RestingFields, RestingMore DEF Resting
    <3>3. req' = [req EXCEPT ![p] = n]
      BY <2>1, <2>4, <3>1 DEF StartUp
    <3>4. QED BY <2>2, <2>4, <3>2, <3>3, OneRequest DEF Began
  <2>5. QED BY <2>3, <2>4
<1>5. QED BY <1>1, <1>2, <1>3, <1>4

LEMMA NextBuiltinFields ==
  ASSUME NEW r \in Request
  PROVE  Onward(NextBuiltin(r), r)
<1>1. CASE r.todo = <<>>
  <2>1. PICK n : n = [r EXCEPT !.pc = "commit"]
    OBVIOUS
  <2>2. n = NextBuiltin(r)
    BY <1>1, <2>1 DEF NextBuiltin
  <2>3. QED BY <1>1, <2>1, <2>2 DEF Onward, SameWork, Request
<1>2. CASE r.todo # <<>>
  <2>1. PICK n : n = [r EXCEPT !.pc = "builtin", !.wf = Head(r.todo), !.todo = Tail(r.todo),
                               !.cached = None, !.loaded = None, !.parent = None]
    OBVIOUS
  <2>2. n = NextBuiltin(r)
    BY <1>2, <2>1 DEF NextBuiltin
  <2>3. /\ n.pc = "builtin" /\ n.wf = Head(r.todo) /\ n.todo = Tail(r.todo) /\ n.cached = None
        /\ n.rows = r.rows /\ n.moved = r.moved /\ n.log = r.log /\ n.op = r.op
    BY <2>1 DEF Request
  <2>4. QED BY <1>2, <2>2, <2>3 DEF Onward, SameWork
<1>3. QED BY <1>1, <1>2

\* A built-in is left alone, or its latest recorded text is another.
LEMMA ReadBuiltinStep ==
  ASSUME IInv, NEW p \in Process, ReadBuiltin(p)
  PROVE  /\ Kept /\ lastId' = lastId /\ Others(p)
         /\ req[p].op = "sync" /\ req[p].pc = "builtin"
         /\ \/ Onward(req'[p], req[p]) /\ BuiltinsOf(View(p), req[p].wf) # {}
            \/ /\ SameWork(req'[p], req[p]) /\ SameGoal(req'[p], req[p])
               /\ req'[p].pc = "pointer" /\ req'[p].cached = req[p].cached
               /\ \A b \in BuiltinsOf(View(p), req[p].wf) :
                    IsLatest(b, BuiltinsOf(View(p), req[p].wf)) => b.text # req'[p].text
<1>1. PICK r, shipped, builtins :
        r = req[p] /\ shipped = r.rel[r.wf] /\ builtins = BuiltinsOf(View(p), r.wf)
  OBVIOUS
<1>2. r \in Request /\ TypeOK /\ r.op = "sync" /\ r.pc = "builtin"
  BY <1>1 DEF IInv, TypeOK, ReqInv, ReadBuiltin
<1>3. ASSUME NEW parent, NEW n, n = [r EXCEPT !.pc = "pointer", !.text = shipped, !.parent = parent]
      PROVE  /\ SameWork(n, r) /\ SameGoal(n, r) /\ n.pc = "pointer" /\ n.cached = r.cached
             /\ n.text = shipped
  BY <1>2, <1>3 DEF SameWork, SameGoal, Request
<1>4. Kept /\ lastId' = lastId
  BY DEF ReadBuiltin, Kept
<1>5. CASE /\ builtins = {}
           /\ req' = [req EXCEPT ![p] = [r EXCEPT !.pc = "pointer", !.text = shipped, !.parent = None]]
  <2>1. PICK n : n = [r EXCEPT !.pc = "pointer", !.text = shipped, !.parent = None]
    OBVIOUS
  <2>2. req' = [req EXCEPT ![p] = n]
    BY <1>5, <2>1
  <2>3. req'[p] = n /\ Others(p)
    BY <1>2, <2>2, OneRequest
  <2>4. SameWork(n, r) /\ SameGoal(n, r) /\ n.pc = "pointer" /\ n.cached = r.cached
    BY <1>3, <2>1
  <2>5. QED BY <1>1, <1>2, <1>4, <1>5, <2>3, <2>4
<1>6. CASE \E b \in builtins :
             /\ IsLatest(b, builtins)
             /\ req' = [req EXCEPT ![p] = IF b.text = shipped THEN NextBuiltin(r)
                          ELSE [r EXCEPT !.pc = "pointer", !.text = shipped, !.parent = b.id]]
  <2>1. PICK b \in builtins :
             /\ IsLatest(b, builtins)
             /\ req' = [req EXCEPT ![p] = IF b.text = shipped THEN NextBuiltin(r)
                          ELSE [r EXCEPT !.pc = "pointer", !.text = shipped, !.parent = b.id]]
    BY <1>6
  <2>2. CASE b.text = shipped
    <3>1. req' = [req EXCEPT ![p] = NextBuiltin(r)]
      BY <2>1, <2>2
    <3>2. req'[p] = NextBuiltin(r) /\ Others(p)
      BY <1>2, <3>1, OneRequest
    <3>3. QED BY <1>1, <1>2, <1>4, <2>1, <3>2, NextBuiltinFields
  <2>3. CASE b.text # shipped
    <3>1. PICK n : n = [r EXCEPT !.pc = "pointer", !.text = shipped, !.parent = b.id]
      OBVIOUS
    <3>2. req' = [req EXCEPT ![p] = n]
      BY <2>1, <2>3, <3>1
    <3>3. req'[p] = n /\ Others(p)
      BY <1>2, <3>2, OneRequest
    <3>4. ASSUME NEW c \in builtins, IsLatest(c, builtins) PROVE c = b
      <4>1. /\ c \in View(p) /\ b \in View(p) /\ c.wf = b.wf
            /\ c.seq \in Nat /\ b.seq \in Nat
        BY <1>1, <2>1, <3>4, ViewSound DEF BuiltinsOf, RowsOf, Row
      <4>2. c.seq = b.seq
        BY <2>1, <3>4, <4>1 DEF IsLatest
      <4>3. QED BY <4>1, <4>2 DEF IInv, KeysInv
    <3>5. /\ SameWork(n, r) /\ SameGoal(n, r) /\ n.pc = "pointer" /\ n.cached = r.cached
          /\ n.text = shipped
      BY <1>3, <3>1
    <3>6. QED BY <1>1, <1>2, <1>4, <2>3, <3>3, <3>4, <3>5
  <2>4. QED BY <2>2, <2>3
<1>7. QED BY <1>1, <1>5, <1>6 DEF ReadBuiltin

LEMMA ReadPointerStep ==
  ASSUME IInv, NEW p \in Process, ReadPointer(p)
  PROVE  \/ Rested(p)
         \/ /\ Kept /\ lastId' = lastId /\ Others(p)
            /\ SameWork(req'[p], req[p]) /\ SameGoal(req'[p], req[p])
            /\ req'[p].text = req[p].text
            /\ req[p].pc = "pointer" /\ req'[p].cached = active[req[p].wf]
            /\ req[p].op \in {"draft", "sync", "publish", "rollback"}
            /\ req'[p].pc = IF req[p].op \in {"draft", "sync"} THEN "latest" ELSE "reload"
<1>1. CASE RollbackRefused(req[p])
  BY <1>1, RestSteps DEF IInv
<1>2. CASE ~RollbackRefused(req[p])
  <2>1. PICK r, n : r = req[p] /\
          n = [r EXCEPT !.pc = IF r.op \in {"draft", "sync"} THEN "latest" ELSE "reload",
                        !.cached = active[r.wf],
                        !.parent = IF r.op = "draft" THEN active[r.wf] ELSE r.parent]
    OBVIOUS
  <2>2. r \in Request /\ TypeOK /\ r.pc = "pointer" /\ req' = [req EXCEPT ![p] = n]
        /\ r.op \in {"draft", "sync", "publish", "rollback"}
    BY <1>2, <2>1 DEF ReadPointer, IInv, TypeOK, ReqInv
  <2>3. /\ SameWork(n, r) /\ SameGoal(n, r) /\ n.text = r.text /\ n.cached = active[r.wf]
        /\ n.pc = IF r.op \in {"draft", "sync"} THEN "latest" ELSE "reload"
    BY <2>1, <2>2 DEF SameWork, SameGoal, Request
  <2>4. Kept /\ lastId' = lastId
    BY DEF ReadPointer, Kept
  <2>5. QED BY <2>1, <2>2, <2>3, <2>4, OneRequest
<1>3. QED BY <1>1, <1>2

LEMMA ReadLatestStep ==
  ASSUME IInv, NEW p \in Process, ReadLatest(p)
  PROVE  /\ Kept /\ lastId' = lastId /\ Others(p)
         /\ SameWork(req'[p], req[p]) /\ SameGoal(req'[p], req[p])
         /\ req'[p].text = req[p].text /\ req'[p].cached = req[p].cached
         /\ req[p].pc = "latest" /\ req'[p].pc = "insert"
         /\ \A s \in RowsOf(View(p), req[p].wf) : s.seq <= req'[p].prevSeq
<1>1. PICK r : r = req[p]
  OBVIOUS
<1>2. r \in Request /\ TypeOK /\ r.pc = "latest"
  BY <1>1 DEF IInv, TypeOK, ReadLatest
<1>3. ASSUME NEW seq, NEW id, NEW n,
             n = [r EXCEPT !.pc = "insert", !.prevSeq = seq, !.prev = id],
             req' = [req EXCEPT ![p] = n]
      PROVE  /\ SameWork(req'[p], r) /\ SameGoal(req'[p], r) /\ Others(p)
             /\ req'[p].text = r.text /\ req'[p].cached = r.cached
             /\ req'[p].pc = "insert" /\ req'[p].prevSeq = seq
  <2>1. /\ SameWork(n, r) /\ SameGoal(n, r) /\ n.text = r.text /\ n.cached = r.cached
        /\ n.pc = "insert" /\ n.prevSeq = seq
    BY <1>2, <1>3 DEF SameWork, SameGoal, Request
  <2>2. QED BY <1>2, <1>3, <2>1, OneRequest
<1>4. Kept /\ lastId' = lastId
  BY DEF ReadLatest, Kept
<1>5. CASE /\ RowsOf(View(p), r.wf) = {}
           /\ req' = [req EXCEPT ![p] = [r EXCEPT !.pc = "insert", !.prevSeq = 0, !.prev = None]]
  BY <1>1, <1>2, <1>3, <1>4, <1>5
<1>6. CASE \E last \in RowsOf(View(p), r.wf) :
             /\ IsLatest(last, RowsOf(View(p), r.wf))
             /\ req' = [req EXCEPT ![p] = [r EXCEPT !.pc = "insert", !.prevSeq = last.seq,
                                                    !.prev = last.id]]
  <2>1. PICK last \in RowsOf(View(p), r.wf) :
             /\ IsLatest(last, RowsOf(View(p), r.wf))
             /\ req' = [req EXCEPT ![p] = [r EXCEPT !.pc = "insert", !.prevSeq = last.seq,
                                                    !.prev = last.id]]
    BY <1>6
  <2>2. \A s \in RowsOf(View(p), r.wf) : s.seq <= last.seq
    BY <2>1 DEF IsLatest
  <2>3. QED BY <1>1, <1>2, <1>3, <1>4, <2>1, <2>2
<1>7. QED BY <1>1, <1>5, <1>6 DEF ReadLatest

\* What a transaction is like once its row is inserted.
Inserted(s, r) ==
  /\ s.rows = r.rows \cup {NewRow(r)} /\ s.target = NewRow(r).id
  /\ s.moved = r.moved /\ s.op = r.op /\ s.cached = r.cached /\ SameGoal(s, r)

LEMMA InsertStep ==
  ASSUME IInv, NEW p \in Process, InsertVersion(p)
  PROVE  /\ Kept /\ lastId' = lastId + 1 /\ Others(p) /\ req[p].pc = "insert"
         /\ \A q \in Process : \A x \in View(q) : ~SameKey(p, x)
         /\ NewRow(req[p]) \in Row
         /\ \/ /\ req[p].op # "sync" /\ Inserted(req'[p], req[p]) /\ req'[p].pc = "commit"
               /\ req'[p].log = Append(req[p].log, SaveEntry(req[p], NewRow(req[p])))
            \/ /\ req[p].op = "sync" /\ PublishesBuiltin(req[p])
               /\ Inserted(req'[p], req[p]) /\ req'[p].pc = "reload"
               /\ req'[p].log = req[p].log
            \/ /\ req[p].op = "sync" /\ ~PublishesBuiltin(req[p])
               /\ \E s : Inserted(s, req[p]) /\ s.log = req[p].log /\ Onward(req'[p], s)
<1>1. PICK r, row, s : /\ r = req[p] /\ row = NewRow(r)
                       /\ s = [r EXCEPT !.rows = r.rows \cup {row}, !.target = row.id]
  OBVIOUS
<1>2. TypeOK /\ r \in Request /\ row \in Row
  BY <1>1, InsertType DEF IInv, TypeOK
<1>3. s \in Request
  <2>1. r.rows \cup {row} \in SUBSET Row /\ row.id \in Nat
    BY <1>2 DEF Request, Row
  <2>2. QED BY <1>1, <1>2, <2>1 DEF Request
<1>4. Inserted(s, r) /\ s.log = r.log
  BY <1>1, <1>2 DEF Inserted, SameGoal, Request
<1>5. /\ Kept /\ lastId' = lastId + 1 /\ r.pc = "insert"
      /\ \A q \in Process : \A x \in View(q) : ~SameKey(p, x)
      /\ req' = [req EXCEPT ![p] = AfterInsert(r, row)]
  BY <1>1 DEF InsertVersion, Kept
<1>6. req'[p] = AfterInsert(r, row) /\ Others(p)
  BY <1>2, <1>5, OneRequest
<1>7. CASE r.op # "sync"
  <2>1. PICK n : n = [s EXCEPT !.pc = "commit", !.log = Append(s.log, SaveEntry(r, row))]
    OBVIOUS
  <2>2. n = AfterInsert(r, row)
    BY <1>1, <1>3, <1>7, <2>1 DEF AfterInsert, Request
  <2>3. /\ Inserted(n, r) /\ n.pc = "commit" /\ n.log = Append(r.log, SaveEntry(r, row))
    BY <1>3, <1>4, <2>1 DEF Inserted, SameGoal, Request
  <2>4. QED BY <1>1, <1>2, <1>5, <1>6, <1>7, <2>2, <2>3
<1>8. CASE r.op = "sync" /\ PublishesBuiltin(r)
  <2>1. PICK n : n = [s EXCEPT !.pc = "reload"]
    OBVIOUS
  <2>2. n = AfterInsert(r, row)
    BY <1>1, <1>8, <2>1 DEF AfterInsert
  <2>3. Inserted(n, r) /\ n.pc = "reload" /\ n.log = r.log
    BY <1>3, <1>4, <2>1 DEF Inserted, SameGoal, Request
  <2>4. QED BY <1>1, <1>2, <1>5, <1>6, <1>8, <2>2, <2>3
<1>9. CASE r.op = "sync" /\ ~PublishesBuiltin(r)
  <2>1. AfterInsert(r, row) = NextBuiltin(s)
    BY <1>1, <1>9 DEF AfterInsert
  <2>2. Onward(req'[p], s)
    BY <1>3, <1>6, <2>1, NextBuiltinFields
  <2>3. QED BY <1>1, <1>2, <1>4, <1>5, <1>6, <1>9, <2>2
<1>10. QED BY <1>7, <1>8, <1>9

LEMMA ReloadStep ==
  ASSUME IInv, NEW p \in Process, ReloadPointer(p)
  PROVE  /\ Kept /\ lastId' = lastId /\ Others(p)
         /\ SameWork(req'[p], req[p]) /\ SameGoal(req'[p], req[p])
         /\ req'[p].cached = req[p].cached /\ req'[p].loaded = active[req[p].wf]
         /\ req[p].pc = "reload" /\ req'[p].pc = "move"
<1>1. PICK r, n : r = req[p] /\ n = [r EXCEPT !.pc = "move", !.loaded = active[r.wf]]
  OBVIOUS
<1>2. r \in Request /\ TypeOK /\ r.pc = "reload" /\ req' = [req EXCEPT ![p] = n]
  BY <1>1 DEF ReloadPointer, IInv, TypeOK
<1>3. /\ SameWork(n, r) /\ SameGoal(n, r) /\ n.cached = r.cached
      /\ n.loaded = active[r.wf] /\ n.pc = "move"
  BY <1>1, <1>2 DEF SameWork, SameGoal, Request
<1>4. Kept /\ lastId' = lastId
  BY DEF ReloadPointer, Kept
<1>5. QED BY <1>1, <1>2, <1>3, <1>4, OneRequest

\* What a transaction is like once it has moved the pointer.
MovedBy(m, r) ==
  /\ m.moved = [r.moved EXCEPT ![r.wf] = IF r.loaded = r.target THEN None ELSE r.target]
  /\ m.log = Append(r.log, MoveEntry(r))
  /\ m.rows = r.rows /\ m.op = r.op /\ m.cached = r.cached /\ SameGoal(m, r)

LEMMA MoveStep ==
  ASSUME IInv, NEW p \in Process, MovePointer(p)
  PROVE  /\ Kept /\ lastId' = lastId /\ Others(p) /\ req[p].pc = "move"
         /\ req[p] \in Request /\ MoveEntry(req[p]) \in Entry
         /\ \/ req[p].op # "sync" /\ MovedBy(req'[p], req[p]) /\ req'[p].pc = "commit"
            \/ /\ req[p].op = "sync"
               /\ \E m : MovedBy(m, req[p]) /\ Onward(req'[p], m)
<1>1. PICK r, entry, to, m :
        /\ r = req[p] /\ entry = MoveEntry(r)
        /\ to = [r.moved EXCEPT ![r.wf] =
                   IF r.loaded = r.target THEN None ELSE r.target]
        /\ m = [r EXCEPT !.moved = to, !.locked = r.locked \cup {r.wf},
                         !.log = Append(r.log, entry)]
  OBVIOUS
<1>2. TypeOK /\ r \in Request /\ r.pc = "move" /\ Kept /\ lastId' = lastId
  BY <1>1 DEF IInv, TypeOK, MovePointer, Kept
<1>3. entry \in Entry
  BY <1>1, <1>2 DEF MoveEntry, Entry, Request, MoveAction, Action
<1>4. m \in Request
  <2>1. Append(r.log, entry) \in Seq(Entry) /\ r.locked \cup {r.wf} \in SUBSET Workflow
    BY <1>2, <1>3 DEF Request
  <2>2. to \in [Workflow -> Nat]
    BY <1>1, <1>2 DEF Request, None
  <2>3. PICK one, two : one = [r EXCEPT !.moved = to] /\ two = [one EXCEPT !.locked = r.locked \cup {r.wf}]
    OBVIOUS
  <2>4. one \in Request
    BY <1>2, <2>2, <2>3 DEF Request
  <2>5. two \in Request
    BY <2>1, <2>3, <2>4 DEF Request
  <2>6. m = [two EXCEPT !.log = Append(r.log, entry)]
    BY <1>1, <1>2, <2>3 DEF Request
  <2>7. QED BY <2>1, <2>5, <2>6 DEF Request
<1>5. m.moved = to /\ m.log = Append(r.log, entry)
      /\ m.rows = r.rows /\ m.op = r.op /\ m.cached = r.cached /\ SameGoal(m, r)
  BY <1>1, <1>2 DEF Request, SameGoal
<1>6. MovedBy(m, r)
  BY <1>1, <1>5 DEF MovedBy
<1>7. req' = [req EXCEPT ![p] = IF r.op = "sync" THEN NextBuiltin(m)
                                ELSE [m EXCEPT !.pc = "commit"]]
  BY <1>1, <1>2 DEF MovePointer, Request
<1>8. CASE r.op = "sync"
  <2>1. req'[p] = NextBuiltin(m) /\ Others(p)
    BY <1>2, <1>7, <1>8, OneRequest
  <2>2. QED BY <1>1, <1>2, <1>3, <1>4, <1>6, <1>8, <2>1, NextBuiltinFields
<1>9. CASE r.op # "sync"
  <2>1. PICK n : n = [m EXCEPT !.pc = "commit"]
    OBVIOUS
  <2>2. req'[p] = n /\ Others(p)
    BY <1>2, <1>7, <1>9, <2>1, OneRequest
  <2>3. /\ n.pc = "commit" /\ n.moved = m.moved /\ n.log = m.log /\ n.rows = m.rows
        /\ n.op = m.op /\ n.cached = m.cached /\ n.wf = m.wf /\ n.todo = m.todo
    BY <1>4, <2>1 DEF Request
  <2>4. MovedBy(n, r)
    BY <1>6, <2>3 DEF MovedBy, SameGoal
  <2>5. QED BY <1>1, <1>2, <1>3, <1>9, <2>2, <2>3, <2>4
<1>10. QED BY <1>8, <1>9

LEMMA CommitStep ==
  ASSUME IInv, NEW p \in Process, Commit(p)
  PROVE  /\ Others(p) /\ req[p].pc = "commit" /\ req'[p] = Resting("idle")
         /\ lastId' = lastId /\ versions' = View(p) /\ audit' = audit \o req[p].log
         /\ \A w \in Workflow :
              active'[w] = IF req[p].moved[w] = None THEN active[w] ELSE req[p].moved[w]
         /\ audit \in Seq(Entry) /\ req[p].log \in Seq(Entry) /\ audit' \in Seq(Entry)
<1>1. TypeOK /\ audit \in Seq(Entry) /\ req[p].log \in Seq(Entry)
  BY DEF IInv, TypeOK, Request
<1>2. req' = [req EXCEPT ![p] = Resting("idle")]
  BY DEF Commit
<1>3. req'[p] = Resting("idle") /\ Others(p)
  BY <1>1, <1>2, OneRequest
<1>4. QED BY <1>1, <1>3 DEF Commit, View

\* The steps, for proofs by cases.
LEMMA TrailCases ==
  ASSUME IInv, [Next]_vars
  PROVE  \/ UNCHANGED vars
         \/ \E p \in Process :
              \/ Began(p) \/ Rested(p) \/ ReadBuiltin(p) \/ ReadPointer(p) \/ ReadLatest(p)
              \/ InsertVersion(p) \/ ReloadPointer(p) \/ MovePointer(p) \/ Commit(p)
<1>1. TypeOK
  BY DEF IInv
<1>2. ASSUME NEW p \in Process, Statement(p)
      PROVE  \/ Rested(p) \/ ReadBuiltin(p) \/ ReadPointer(p) \/ ReadLatest(p)
             \/ InsertVersion(p) \/ ReloadPointer(p) \/ MovePointer(p) \/ Commit(p)
  BY <1>1, <1>2, RestSteps DEF Statement
<1>3. ASSUME NEW p \in Process, Fail(p) \/ Crash(p) PROVE Rested(p)
  BY <1>1, <1>3, RestSteps
<1>4. ASSUME NEW p \in Process,
             \/ \E w \in Workflow, t \in AdminText : BeginCreate(p, w, t) \/ BeginDraft(p, w, t)
             \/ \E op \in {"publish", "rollback"}, r \in versions : BeginMove(p, op, r)
             \/ \E rel \in Releases : StartUp(p, rel)
      PROVE  Began(p)
  BY <1>1, <1>4, BeginSteps
<1>5. QED
  BY <1>2, <1>3, <1>4 DEF Next
--------------------------------------------------------------------------------
(* What a transaction has behind it and ahead of it. *)

\* The built-ins a sync has still to come to.
Ahead(r) == {r.todo[i] : i \in 1..Len(r.todo)}
EachOnce(s) == \A i, j \in 1..Len(s) : i # j => s[i] # s[j]

\* A sync has written nothing of the built-ins it has still to come to.
SyncShape(r) ==
  /\ EachOnce(r.todo)
  /\ r.pc = "commit" => r.todo = <<>>
  /\ r.pc # "commit" => r.wf \notin Ahead(r)
  /\ \A x \in r.rows :
       /\ x.wf \notin Ahead(r)
       /\ r.pc \notin {"reload", "move", "commit"} => x.wf # r.wf
  /\ \A i \in 1..Len(r.log) :
       /\ r.log[i].wf \notin Ahead(r)
       /\ r.pc # "commit" => r.log[i].wf # r.wf

\* Any other request writes with its last statement, and none writes two versions of
\* a workflow.
Shape(r) ==
  /\ r.op = "none" <=> r.pc \in {"down", "idle"}
  /\ r.op # "sync" /\ r.pc # "commit" => r.rows = {} /\ r.log = <<>>
  /\ \A x, y \in r.rows : x.wf = y.wf => x = y
  /\ \A x \in r.rows : x.source = "builtin" <=> r.op = "sync"
  /\ r.op = "sync" => SyncShape(r)

\* A pointer the transaction moves has an entry in its log.
Logged(r) ==
  \A w \in Workflow : r.moved[w] # None =>
    \E i \in 1..Len(r.log) : IsMoveOf(r.log[i], w) /\ r.log[i].new = r.moved[w]

ShapeInv == IInv /\ \A p \in Process : Shape(req[p]) /\ Logged(req[p])

LEMMA TailOnce ==
  ASSUME NEW s \in Seq(Workflow), s # <<>>, EachOnce(s)
  PROVE  /\ Tail(s) \in Seq(Workflow) /\ EachOnce(Tail(s))
         /\ \A i \in 1..Len(Tail(s)) : /\ Tail(s)[i] # Head(s)
                                       /\ \E j \in 1..Len(s) : Tail(s)[i] = s[j]
         /\ \E j \in 1..Len(s) : Head(s) = s[j]
         /\ \A j \in 1..Len(s) : \/ s[j] = Head(s)
                                 \/ \E i \in 1..Len(Tail(s)) : s[j] = Tail(s)[i]
<1>1. /\ Len(s) \in Nat \ {0} /\ Tail(s) \in Seq(Workflow) /\ Len(Tail(s)) = Len(s) - 1
      /\ Head(s) = s[1]
  OBVIOUS
<1>2. \A i \in 1..Len(Tail(s)) : Tail(s)[i] = s[i + 1]
  OBVIOUS
<1>3. EachOnce(Tail(s))
  BY <1>1, <1>2 DEF EachOnce
<1>4. \A i \in 1..Len(Tail(s)) : i + 1 \in 1..Len(s) /\ i + 1 # 1 /\ 1 \in 1..Len(s)
  BY <1>1
<1>5. \A i \in 1..Len(Tail(s)) : s[i + 1] # s[1]
  BY <1>4 DEF EachOnce
<1>6. ASSUME NEW j \in 1..Len(s)
      PROVE  s[j] = Head(s) \/ \E i \in 1..Len(Tail(s)) : s[j] = Tail(s)[i]
  <2>1. CASE j = 1
    BY <1>1, <2>1
  <2>2. CASE j # 1
    <3>1. j - 1 \in 1..Len(Tail(s)) /\ (j - 1) + 1 = j
      BY <1>1, <2>2
    <3>2. Tail(s)[j - 1] = s[j]
      BY <1>2, <3>1
    <3>3. QED BY <3>1, <3>2
  <2>3. QED BY <2>1, <2>2
<1>7. QED BY <1>1, <1>2, <1>3, <1>4, <1>5, <1>6

\* The next built-in is one the sync had still to come to.
LEMMA OnwardAhead ==
  ASSUME NEW s, NEW n, s.todo \in Seq(Workflow), EachOnce(s.todo), Onward(n, s)
  PROVE  /\ EachOnce(n.todo) /\ n.todo \in Seq(Workflow) /\ Ahead(n) \subseteq Ahead(s)
         /\ n.pc \in {"builtin", "commit"}
         /\ n.pc = "commit" => n.todo = <<>> /\ Ahead(s) = {} /\ Ahead(n) = {}
         /\ n.pc = "builtin" => /\ n.wf \in Ahead(s) /\ n.wf \notin Ahead(n)
                                /\ \A w \in Ahead(s) : w = n.wf \/ w \in Ahead(n)
<1>1. CASE s.todo = <<>>
  <2>1. n.pc = "commit" /\ n.todo = <<>>
    BY <1>1 DEF Onward
  <2>2. Len(<<>>) = 0 /\ <<>> \in Seq(Workflow)
    OBVIOUS
  <2>3. Ahead(s) = {} /\ Ahead(n) = {} /\ EachOnce(n.todo)
    BY <1>1, <2>1, <2>2 DEF Ahead, EachOnce
  <2>4. QED BY <2>1, <2>2, <2>3
<1>2. CASE s.todo # <<>>
  <2>1. PICK t : t = s.todo
    OBVIOUS
  <2>2. n.pc = "builtin" /\ n.wf = Head(t) /\ n.todo = Tail(t)
    BY <1>2, <2>1 DEF Onward
  <2>3. /\ Tail(t) \in Seq(Workflow) /\ EachOnce(Tail(t))
        /\ \A i \in 1..Len(Tail(t)) : /\ Tail(t)[i] # Head(t)
                                      /\ \E j \in 1..Len(t) : Tail(t)[i] = t[j]
        /\ \E j \in 1..Len(t) : Head(t) = t[j]
        /\ \A j \in 1..Len(t) : \/ t[j] = Head(t)
                                \/ \E i \in 1..Len(Tail(t)) : t[j] = Tail(t)[i]
    BY <1>2, <2>1, TailOnce
  <2>4. /\ \A w : w \in Ahead(s) <=> \E i \in 1..Len(t) : w = t[i]
        /\ \A w : w \in Ahead(n) <=> \E i \in 1..Len(Tail(t)) : w = Tail(t)[i]
    BY <2>1, <2>2 DEF Ahead
  <2>5. Head(t) \in Ahead(s) /\ Head(t) \notin Ahead(n) /\ Ahead(n) \subseteq Ahead(s)
    BY <2>3, <2>4
  <2>6. \A w \in Ahead(s) : w = Head(t) \/ w \in Ahead(n)
    BY <2>3, <2>4
  <2>7. QED BY <2>2, <2>3, <2>5, <2>6
<1>3. QED BY <1>1, <1>2

LEMMA OnwardShape ==
  ASSUME NEW s, NEW n, s.todo \in Seq(Workflow), EachOnce(s.todo), Onward(n, s),
         \A x \in s.rows : x.wf \notin Ahead(s),
         \A i \in 1..Len(s.log) : s.log[i].wf \notin Ahead(s)
  PROVE  SyncShape(n)
BY OnwardAhead DEF SyncShape, Onward, SameWork

LEMMA RestingShape ==
  ASSUME NEW phase \in {"down", "idle"}
  PROVE  Shape(Resting(phase)) /\ Logged(Resting(phase))
BY RestingFields, RestingMore DEF Shape, Logged

\* Steps that only read.
LEMMA SameShape ==
  ASSUME NEW r, NEW n, Shape(r), Logged(r), SameWork(n, r), SameGoal(n, r),
         r.pc \notin {"down", "idle", "move", "commit"},
         n.pc \notin {"down", "idle", "commit"}, r.pc = "reload" => n.pc = "move"
  PROVE  Shape(n) /\ Logged(n)
<1>1. Ahead(n) = Ahead(r)
  BY DEF Ahead, SameGoal
<1>2. Logged(n)
  BY DEF Logged, SameWork
<1>3. r.op = "sync" => SyncShape(n)
  BY <1>1 DEF Shape, SyncShape, SameWork, SameGoal
<1>4. QED BY <1>2, <1>3 DEF Shape, SameWork

LEMMA BeganShape ==
  ASSUME ShapeInv, NEW p \in Process, Began(p)
  PROVE  Shape(req'[p]) /\ Logged(req'[p])
<1>1. PICK n : n = req'[p]
  OBVIOUS
<1>2. /\ n.rows = {} /\ n.log = <<>> /\ n.op # "none" /\ n.pc \notin {"down", "idle"}
      /\ \A w \in Workflow : n.moved[w] = None
  BY <1>1 DEF Began
<1>3. n.op = "sync" => SyncShape(n)
  <2>1. CASE n.op = "sync" /\ Builtins = <<>>
    BY <1>1, <1>2, <2>1 DEF Began, SyncShape, EachOnce
  <2>2. CASE n.op = "sync" /\ Builtins # <<>>
    <3>1. EachOnce(Builtins)
      BY BuiltinsAssumption DEF EachOnce
    <3>2. n.pc = "builtin" /\ n.wf = Head(Builtins) /\ n.todo = Tail(Builtins)
      BY <1>1, <2>2 DEF Began
    <3>3. EachOnce(n.todo) /\ n.wf \notin Ahead(n)
      BY <2>2, <3>1, <3>2, TailOnce, BuiltinsAssumption DEF Ahead
    <3>4. QED BY <1>2, <3>2, <3>3 DEF SyncShape
  <2>3. QED BY <2>1, <2>2
<1>4. QED BY <1>1, <1>2, <1>3 DEF Shape, Logged

LEMMA ReadShape ==
  ASSUME ShapeInv, NEW p \in Process,
         ReadBuiltin(p) \/ ReadPointer(p) \/ ReadLatest(p) \/ ReloadPointer(p)
  PROVE  Shape(req'[p]) /\ Logged(req'[p])
<1>0. IInv /\ Shape(req[p]) /\ Logged(req[p]) /\ req[p] \in Request
  BY DEF ShapeInv, IInv, TypeOK
<1>1. CASE ReadBuiltin(p)
  <2>1. CASE Onward(req'[p], req[p])
    <3>1. req[p].op = "sync" /\ req[p].pc = "builtin" /\ req[p].todo \in Seq(Workflow)
      BY <1>0, <1>1, ReadBuiltinStep DEF Request
    <3>2. SyncShape(req'[p])
      BY <1>0, <2>1, <3>1, OnwardShape DEF Shape, SyncShape
    <3>3. Logged(req'[p])
      BY <1>0, <2>1 DEF Logged, Onward, SameWork
    <3>4. QED BY <1>0, <2>1, <3>1, <3>2, <3>3 DEF Shape, Onward, SameWork
  <2>2. CASE ~ Onward(req'[p], req[p])
    BY <1>0, <1>1, <2>2, ReadBuiltinStep, SameShape
  <2>3. QED BY <2>1, <2>2
<1>2. CASE ReadPointer(p)
  <2>1. CASE Rested(p)
    BY <2>1, RestingShape DEF Rested
  <2>2. CASE ~ Rested(p)
    <3>1. /\ SameWork(req'[p], req[p]) /\ SameGoal(req'[p], req[p])
          /\ req[p].pc = "pointer" /\ req'[p].pc \in {"latest", "reload"}
      BY <1>0, <1>2, <2>2, ReadPointerStep
    <3>2. QED BY <1>0, <3>1, SameShape
  <2>3. QED BY <2>1, <2>2
<1>3. CASE ReadLatest(p)
  BY <1>0, <1>3, ReadLatestStep, SameShape
<1>4. CASE ReloadPointer(p)
  BY <1>0, <1>4, ReloadStep, SameShape
<1>5. QED BY <1>1, <1>2, <1>3, <1>4

\* The version a sync inserts is of a workflow it has none of yet.
LEMMA InsertShape ==
  ASSUME ShapeInv, NEW p \in Process, InsertVersion(p)
  PROVE  Shape(req'[p]) /\ Logged(req'[p])
<1>0. IInv
  BY DEF ShapeInv
<1>1. PICK r, n, row : r = req[p] /\ n = req'[p] /\ row = NewRow(r)
  OBVIOUS
<1>2. /\ r.pc = "insert" /\ r \in Request /\ Shape(r) /\ Logged(r)
      /\ row.wf = r.wf /\ (row.source = "builtin" <=> r.op = "sync")
  BY <1>0, <1>1, InsertStep DEF ShapeInv, IInv, TypeOK, NewRow
<1>3. CASE r.op # "sync"
  <2>1. /\ Inserted(n, r) /\ n.pc = "commit" /\ r.rows = {} /\ r.log = <<>>
        /\ n.log = Append(r.log, SaveEntry(r, row))
    BY <1>0, <1>1, <1>2, <1>3, InsertStep DEF Shape
  <2>2. n.rows = {row} /\ n.moved = r.moved /\ n.op = r.op
    BY <1>1, <2>1 DEF Inserted
  <2>3. \A w \in Workflow : r.moved[w] = None
    BY <1>2, <2>1 DEF Logged
  <2>4. QED BY <1>1, <1>2, <1>3, <2>1, <2>2, <2>3 DEF Shape, Logged
<1>4. CASE r.op = "sync"
  <2>1. /\ SyncShape(r) /\ r.todo \in Seq(Workflow)
        /\ \A x \in r.rows : x.wf # r.wf
        /\ \A i \in 1..Len(r.log) : r.log[i].wf # r.wf
    BY <1>2, <1>4 DEF Shape, SyncShape, Request
  <2>2. ASSUME NEW s, Inserted(s, r), s.log = r.log
        PROVE  /\ s.rows = r.rows \cup {row} /\ s.moved = r.moved /\ s.op = r.op
               /\ s.wf = r.wf /\ s.todo = r.todo /\ Ahead(s) = Ahead(r)
               /\ \A x, y \in s.rows : x.wf = y.wf => x = y
               /\ \A x \in s.rows : x.source = "builtin" /\ x.wf \notin Ahead(s)
               /\ Logged(s)
    <3>1. /\ s.rows = r.rows \cup {row} /\ s.moved = r.moved /\ s.op = r.op
          /\ s.wf = r.wf /\ s.todo = r.todo /\ Ahead(s) = Ahead(r)
      BY <1>1, <2>2 DEF Inserted, SameGoal, Ahead
    <3>2. Logged(s)
      BY <1>2, <2>2, <3>1 DEF Logged
    <3>3. \A x, y \in s.rows : x.wf = y.wf => x = y
      BY <1>2, <2>1, <3>1 DEF Shape
    <3>4. \A x \in s.rows : x.source = "builtin" /\ x.wf \notin Ahead(s)
      BY <1>2, <1>4, <2>1, <3>1 DEF Shape, SyncShape
    <3>5. QED BY <3>1, <3>2, <3>3, <3>4
  <2>3. CASE Inserted(n, r) /\ n.pc = "reload" /\ n.log = r.log
    <3>1. SyncShape(n)
      BY <1>2, <2>1, <2>2, <2>3 DEF SyncShape
    <3>2. QED BY <1>1, <1>4, <2>2, <2>3, <3>1 DEF Shape
  <2>4. CASE \E s : Inserted(s, r) /\ s.log = r.log /\ Onward(n, s)
    <3>1. PICK s : Inserted(s, r) /\ s.log = r.log /\ Onward(n, s)
      BY <2>4
    <3>2. /\ s.op = "sync" /\ s.todo \in Seq(Workflow) /\ EachOnce(s.todo)
          /\ \A i \in 1..Len(s.log) : s.log[i].wf \notin Ahead(s)
      BY <1>4, <2>1, <2>2, <3>1 DEF SyncShape
    <3>3. SyncShape(n)
      BY <2>2, <3>1, <3>2, OnwardShape
    <3>4. n.rows = s.rows /\ n.moved = s.moved /\ n.log = s.log /\ n.op = s.op
          /\ n.pc \in {"builtin", "commit"}
      BY <3>1 DEF Onward, SameWork
    <3>5. Logged(n)
      BY <2>2, <3>1, <3>4 DEF Logged
    <3>6. QED BY <1>1, <2>2, <3>1, <3>2, <3>3, <3>4, <3>5 DEF Shape
  <2>5. QED BY <1>0, <1>1, <1>4, <2>3, <2>4, InsertStep
<1>5. QED BY <1>3, <1>4

\* A pointer's move is logged with it.
LEMMA MovedLog ==
  ASSUME NEW r \in Request, Logged(r), NEW m, MovedBy(m, r), MoveEntry(r) \in Entry,
         r.pc = "move"
  PROVE  /\ Logged(m) /\ m.log \in Seq(Entry) /\ Len(m.log) = Len(r.log) + 1
         /\ \A i \in 1..Len(r.log) : m.log[i] = r.log[i]
         /\ m.log[Len(r.log) + 1] = MoveEntry(r) /\ Len(r.log) \in Nat
         /\ IsMoveOf(MoveEntry(r), r.wf)
<1>1. PICK e : e = MoveEntry(r)
  OBVIOUS
<1>2. m.log = Append(r.log, e) /\ r.log \in Seq(Entry) /\ e \in Entry
  BY <1>1 DEF MovedBy, Request
<1>3. /\ m.log \in Seq(Entry) /\ Len(m.log) = Len(r.log) + 1 /\ Len(r.log) \in Nat
      /\ \A i \in 1..Len(r.log) : m.log[i] = r.log[i]
      /\ m.log[Len(r.log) + 1] = e
  BY <1>2
<1>4. IsMoveOf(e, r.wf) /\ e.new = r.target
  BY <1>1 DEF MoveEntry, MoveAction, IsMoveOf, PointerAction, Action
<1>5. ASSUME NEW w \in Workflow, m.moved[w] # None
      PROVE  \E i \in 1..Len(m.log) : IsMoveOf(m.log[i], w) /\ m.log[i].new = m.moved[w]
  <2>1. CASE w = r.wf
    <3>1. m.moved[w] = r.target
      BY <1>5, <2>1 DEF MovedBy, Request
    <3>2. Len(r.log) + 1 \in 1..Len(m.log)
      BY <1>3
    <3>3. QED BY <1>3, <1>4, <2>1, <3>1, <3>2
  <2>2. CASE w # r.wf
    <3>1. m.moved[w] = r.moved[w]
      BY <2>2 DEF MovedBy, Request
    <3>2. PICK i \in 1..Len(r.log) : IsMoveOf(r.log[i], w) /\ r.log[i].new = r.moved[w]
      BY <1>5, <3>1 DEF Logged
    <3>3. i \in 1..Len(m.log)
      BY <1>3
    <3>4. QED BY <1>3, <3>1, <3>2, <3>3
  <2>3. QED BY <2>1, <2>2
<1>6. QED BY <1>1, <1>3, <1>4, <1>5 DEF Logged

LEMMA MoveShape ==
  ASSUME ShapeInv, NEW p \in Process, MovePointer(p)
  PROVE  Shape(req'[p]) /\ Logged(req'[p])
<1>0. IInv
  BY DEF ShapeInv
<1>1. PICK r, n : r = req[p] /\ n = req'[p]
  OBVIOUS
<1>2. /\ r.pc = "move" /\ r \in Request /\ Shape(r) /\ Logged(r) /\ MoveEntry(r) \in Entry
      /\ r.op # "none" /\ MoveEntry(r).wf = r.wf
  BY <1>0, <1>1, MoveStep DEF ShapeInv, Shape, MoveEntry
<1>3. CASE r.op # "sync"
  <2>1. MovedBy(n, r) /\ n.pc = "commit"
    BY <1>0, <1>1, <1>3, MoveStep
  <2>2. n.rows = {} /\ n.op = r.op
    BY <1>2, <1>3, <2>1 DEF MovedBy, Shape
  <2>3. QED BY <1>1, <1>2, <1>3, <2>1, <2>2, MovedLog DEF Shape
<1>4. CASE r.op = "sync"
  <2>1. PICK m : MovedBy(m, r) /\ Onward(n, m)
    BY <1>0, <1>1, <1>4, MoveStep
  <2>2. /\ m.rows = r.rows /\ m.op = "sync" /\ m.todo = r.todo /\ Ahead(m) = Ahead(r)
        /\ r.todo \in Seq(Workflow) /\ SyncShape(r) /\ r.wf \notin Ahead(m)
    <3>1. m.rows = r.rows /\ m.op = "sync" /\ m.todo = r.todo
      BY <1>4, <2>1 DEF MovedBy, SameGoal
    <3>2. r.todo \in Seq(Workflow) /\ SyncShape(r) /\ r.wf \notin Ahead(r)
      BY <1>2, <1>4 DEF Shape, SyncShape, Request
    <3>3. QED BY <3>1, <3>2 DEF Ahead
  <2>3. /\ Logged(m) /\ Len(m.log) = Len(r.log) + 1 /\ Len(r.log) \in Nat
        /\ \A i \in 1..Len(r.log) : m.log[i] = r.log[i]
        /\ m.log[Len(r.log) + 1].wf = r.wf
    BY <1>2, <2>1, MovedLog
  <2>4. ASSUME NEW i \in 1..Len(m.log) PROVE m.log[i].wf \notin Ahead(m)
    <3>1. CASE i \in 1..Len(r.log)
      BY <2>2, <2>3, <3>1 DEF SyncShape
    <3>2. CASE i \notin 1..Len(r.log)
      <4>1. i = Len(r.log) + 1
        BY <2>3, <3>2
      <4>2. QED BY <2>2, <2>3, <4>1
    <3>3. QED BY <3>1, <3>2
  <2>5. EachOnce(m.todo) /\ \A x \in m.rows : x.wf \notin Ahead(m)
    BY <2>2 DEF SyncShape
  <2>6. SyncShape(n)
    BY <2>1, <2>2, <2>4, <2>5, OnwardShape
  <2>7. n.rows = m.rows /\ n.moved = m.moved /\ n.log = m.log /\ n.op = m.op
        /\ n.pc \in {"builtin", "commit"}
    BY <2>1 DEF Onward, SameWork
  <2>8. Logged(n)
    BY <2>3, <2>7 DEF Logged
  <2>9. QED BY <1>1, <1>2, <1>4, <2>2, <2>6, <2>7, <2>8 DEF Shape
<1>5. QED BY <1>3, <1>4

LEMMA NextShape ==
  ASSUME ShapeInv, [Next]_vars
  PROVE  ShapeInv'
<1>1. IInv /\ IInv'
  BY NextIInv DEF ShapeInv
<1>2. ASSUME NEW p \in Process, Others(p), Shape(req'[p]), Logged(req'[p])
      PROVE  \A q \in Process : Shape(req'[q]) /\ Logged(req'[q])
  BY <1>2 DEF ShapeInv, Others
<1>3. ASSUME NEW p \in Process,
             \/ Began(p) \/ Rested(p) \/ ReadBuiltin(p) \/ ReadPointer(p) \/ ReadLatest(p)
             \/ InsertVersion(p) \/ ReloadPointer(p) \/ MovePointer(p) \/ Commit(p)
      PROVE  Others(p) /\ Shape(req'[p]) /\ Logged(req'[p])
  <2>1. CASE Began(p)
    BY <2>1, BeganShape DEF Began
  <2>2. CASE Rested(p)
    BY <2>2, RestingShape DEF Rested
  <2>3. CASE ReadBuiltin(p) \/ ReadLatest(p) \/ ReloadPointer(p)
    BY <1>1, <2>3, ReadShape, ReadBuiltinStep, ReadLatestStep, ReloadStep
  <2>4. CASE ReadPointer(p)
    BY <1>1, <2>4, ReadShape, ReadPointerStep DEF Rested
  <2>5. CASE InsertVersion(p) \/ MovePointer(p)
    BY <1>1, <2>5, InsertShape, InsertStep, MoveShape, MoveStep
  <2>6. CASE Commit(p)
    BY <1>1, <2>6, CommitStep, RestingShape
  <2>7. QED BY <1>3, <2>1, <2>2, <2>3, <2>4, <2>5, <2>6
<1>4. CASE UNCHANGED vars
  BY <1>1, <1>4 DEF ShapeInv, vars
<1>5. \A q \in Process : Shape(req'[q]) /\ Logged(req'[q])
  BY <1>1, <1>2, <1>3, <1>4, TrailCases DEF ShapeInv, vars
<1>6. QED BY <1>1, <1>5 DEF ShapeInv, Shape, SyncShape, Logged

LEMMA InitShape == Init => ShapeInv
BY InitIInv, RestingShape DEF Init, ShapeInv

LEMMA ShapeHolds == Spec => []ShapeInv
BY InitShape, NextShape, PTL DEF Spec

\* A pointer changes only with the commit that logs its move.
LEMMA OnlyCommitMoves ==
  ASSUME IInv, [Next]_vars
  PROVE  \/ Kept
         \/ \E p \in Process : Commit(p)
BY TrailCases, ReadBuiltinStep, ReadPointerStep, ReadLatestStep, InsertStep, ReloadStep,
   MoveStep DEF Began, Rested, Kept, vars

LEMMA StepMovesAudited ==
  ASSUME ShapeInv, [Next]_vars
  PROVE  \A w \in Workflow : active'[w] # active[w] =>
           \E i \in Len(audit) + 1 .. Len(audit') :
             IsMoveOf(audit'[i], w) /\ audit'[i].new = active'[w]
<1>0. IInv
  BY DEF ShapeInv
<1>1. SUFFICES ASSUME NEW p \in Process, Commit(p), NEW w \in Workflow, active'[w] # active[w]
               PROVE  \E i \in Len(audit) + 1 .. Len(audit') :
                        IsMoveOf(audit'[i], w) /\ audit'[i].new = active'[w]
  BY <1>0, OnlyCommitMoves DEF Kept
<1>2. PICK log : log = req[p].log
  OBVIOUS
<1>3. /\ audit' = audit \o log /\ audit \in Seq(Entry) /\ log \in Seq(Entry)
      /\ active'[w] = req[p].moved[w] /\ req[p].moved[w] # None
  BY <1>0, <1>1, <1>2, CommitStep
<1>4. PICK i \in 1..Len(log) : IsMoveOf(log[i], w) /\ log[i].new = req[p].moved[w]
  BY <1>2, <1>3 DEF ShapeInv, Logged
<1>5. Len(audit) + i \in Len(audit) + 1 .. Len(audit')
  BY <1>3
<1>6. audit'[Len(audit) + i] = log[i]
  BY <1>3, ConcatProperties
<1>7. QED BY <1>3, <1>4, <1>5, <1>6

\* The pointer never moves without an audit entry of the same commit that names where
\* it now points, whatever other requests and startups run beside it.
THEOREM MovesCorrect == Spec => MovesAudited
<1>1. ShapeInv /\ [Next]_vars =>
        [\A w \in Workflow : active'[w] # active[w] =>
           \E i \in Len(audit) + 1 .. Len(audit') :
             IsMoveOf(audit'[i], w) /\ audit'[i].new = active'[w]]_vars
  BY StepMovesAudited
<1>2. QED BY <1>1, ShapeHolds, PTL DEF Spec, MovesAudited
--------------------------------------------------------------------------------
(* Rows and their ids. *)

\* An open transaction's rows are its own.
Unshared ==
  \A p \in Process : \A x \in req[p].rows :
    x \notin versions /\ \A q \in Process \ {p} : x \notin req[q].rows

IdsApart ==
  \A p, q \in Process : \A r \in View(p), s \in View(q) :
    r.id <= lastId /\ (r.id = s.id => r = s)

\* The committed versions of a workflow are numbered from 1 without a gap.
Numbered(rows) == \E n \in Nat : {r.seq : r \in rows} = 1..n

StoredInv ==
  /\ ShapeInv
  /\ Unshared
  /\ IdsApart
  /\ \A w \in Workflow : Numbered(RowsOf(versions, w))

\* Rows appear with an insertion and are stored by a commit.
LEMMA RowsCases ==
  ASSUME IInv, [Next]_vars
  PROVE  \/ /\ UNCHANGED <<versions, lastId>>
            /\ \A p \in Process : req'[p].rows \subseteq req[p].rows
         \/ \E p \in Process : InsertVersion(p) \/ Commit(p)
<1>1. ASSUME NEW p \in Process, Others(p), Kept, lastId' = lastId,
             req'[p].rows \subseteq req[p].rows
      PROVE  /\ UNCHANGED <<versions, lastId>>
             /\ \A q \in Process : req'[q].rows \subseteq req[q].rows
  BY <1>1 DEF Others, Kept
<1>2. ASSUME NEW p \in Process, Began(p) \/ Rested(p)
      PROVE  Others(p) /\ Kept /\ lastId' = lastId /\ req'[p].rows \subseteq req[p].rows
  BY <1>2, RestingFields DEF Began, Rested
<1>3. ASSUME NEW p \in Process,
             \/ ReadBuiltin(p) \/ ReadPointer(p) \/ ReadLatest(p)
             \/ ReloadPointer(p) \/ MovePointer(p)
      PROVE  Others(p) /\ Kept /\ lastId' = lastId /\ req'[p].rows \subseteq req[p].rows
  <2>1. CASE ReadBuiltin(p)
    BY <2>1, ReadBuiltinStep DEF SameWork, Onward
  <2>2. CASE ReadPointer(p)
    BY <1>2, <2>2, ReadPointerStep DEF SameWork
  <2>3. CASE ReadLatest(p)
    BY <2>3, ReadLatestStep DEF SameWork
  <2>4. CASE MovePointer(p)
    <3>1. req'[p].rows = req[p].rows
      BY <2>4, MoveStep DEF MovedBy, Onward, SameWork
    <3>2. QED BY <2>4, <3>1, MoveStep
  <2>5. CASE ReloadPointer(p)
    BY <2>5, ReloadStep DEF SameWork
  <2>6. QED BY <1>3, <2>1, <2>2, <2>3, <2>4, <2>5
<1>4. CASE UNCHANGED vars
  BY <1>4 DEF vars
<1>5. QED BY <1>1, <1>2, <1>3, <1>4, TrailCases

\* The row inserted is nobody's yet, and neither is its id.
LEMMA InsertedRow ==
  ASSUME IInv, IdsApart, NEW p \in Process, InsertVersion(p)
  PROVE  \E row \in Row :
           /\ row.id = lastId + 1 /\ row.id = lastId' /\ lastId \in Nat
           /\ \A q \in Process : row \notin View(q) /\ \A x \in View(q) : x.id < row.id
           /\ req'[p].rows = req[p].rows \cup {row}
           /\ versions' = versions /\ Others(p)
<1>1. PICK row : row = NewRow(req[p])
  OBVIOUS
<1>2. /\ row \in Row /\ lastId' = lastId + 1 /\ versions' = versions /\ Others(p)
      /\ \A q \in Process : \A x \in View(q) : ~SameKey(p, x)
  BY <1>1, InsertStep DEF Kept
<1>3. row.id = lastId + 1 /\ SameKey(p, row)
  BY <1>1 DEF NewRow, SameKey
<1>4. lastId \in Nat
  BY DEF IInv, TypeOK
<1>5. \A q \in Process : row \notin View(q) /\ \A x \in View(q) : x.id < row.id
  <2> SUFFICES ASSUME NEW q \in Process
               PROVE  row \notin View(q) /\ \A x \in View(q) : x.id < row.id
    OBVIOUS
  <2>1. row \notin View(q)
    BY <1>2, <1>3
  <2>2. ASSUME NEW x \in View(q) PROVE x.id < row.id
    <3>1. x.id \in Nat /\ x.id <= lastId
      BY ViewSound DEF IdsApart, Row
    <3>2. QED BY <1>3, <1>4, <3>1
  <2>3. QED BY <2>1, <2>2
<1>6. req'[p].rows = req[p].rows \cup {row}
  <2>1. CASE Inserted(req'[p], req[p])
    BY <1>1, <2>1 DEF Inserted
  <2>2. CASE \E s : Inserted(s, req[p]) /\ Onward(req'[p], s)
    BY <1>1, <2>2 DEF Inserted, Onward, SameWork
  <2>3. QED BY <2>1, <2>2, InsertStep
<1>7. QED BY <1>2, <1>3, <1>4, <1>5, <1>6

\* A commit adds to a workflow's versions at most the next one.
LEMMA CommitGrows ==
  ASSUME StoredInv, NEW p \in Process, NEW w \in Workflow, NEW n \in Nat,
         {r.seq : r \in RowsOf(versions, w)} = 1..n
  PROVE  \/ RowsOf(View(p), w) = RowsOf(versions, w)
         \/ \E x \in req[p].rows :
              /\ x \in Row /\ x.wf = w /\ x.seq = n + 1 /\ x \in View(p)
              /\ RowsOf(View(p), w) = RowsOf(versions, w) \cup {x}
<1>1. CASE \A x \in req[p].rows : x.wf # w
  BY <1>1 DEF RowsOf, View
<1>2. CASE \E x \in req[p].rows : x.wf = w
  <2>1. PICK x \in req[p].rows : x.wf = w
    BY <1>2
  <2>2. IInv /\ \A y \in req[p].rows : y.wf = w => y = x
    BY <2>1 DEF StoredInv, ShapeInv, Shape
  <2>3. x \in View(p) /\ x \in Row /\ RowInv(x, View(p)) /\ x \notin versions
    <3>1. x \in View(p) /\ x \notin versions
      BY <2>1 DEF View, StoredInv, Unshared
    <3>2. QED BY <2>2, <3>1, ViewSound
  <2>4. RowsOf(View(p), w) = RowsOf(versions, w) \cup {x}
    BY <2>1, <2>2 DEF RowsOf, View
  <2>5. x.seq \notin 1..n
    <3>1. SUFFICES ASSUME x.seq \in 1..n PROVE FALSE
      OBVIOUS
    <3>2. PICK s \in RowsOf(versions, w) : s.seq = x.seq
      BY <3>1
    <3>3. s \in View(p) /\ s.wf = x.wf /\ s \in versions
      BY <2>1 DEF RowsOf, View
    <3>4. QED BY <2>2, <2>3, <3>2, <3>3 DEF IInv, KeysInv
  <2>6. x.seq = 1 \/ x.seq - 1 \in 1..n
    <3>1. SUFFICES ASSUME x.seq # 1 PROVE x.seq - 1 \in 1..n
      OBVIOUS
    <3>2. PICK s \in View(p) : s.wf = w /\ s.seq = x.seq - 1
      BY <2>1, <2>3, <3>1 DEF RowInv, Chained
    <3>3. s # x
      BY <2>3, <3>2 DEF Row
    <3>4. s \in RowsOf(versions, w)
      BY <2>4, <3>2, <3>3 DEF RowsOf
    <3>5. QED BY <3>2, <3>4
  <2>7. x.seq \in Nat /\ x.seq # 0
    BY <2>3 DEF RowInv, Row
  <2>8. x.seq = n + 1
    BY <2>5, <2>6, <2>7
  <2>9. QED BY <2>1, <2>3, <2>4, <2>8
<1>3. QED BY <1>1, <1>2

LEMMA NextStored ==
  ASSUME StoredInv, [Next]_vars
  PROVE  StoredInv'
<1>0. IInv /\ IInv' /\ ShapeInv' /\ lastId \in Nat
  BY NextShape, NextIInv DEF StoredInv, ShapeInv, IInv, TypeOK
<1>1. CASE /\ UNCHANGED <<versions, lastId>>
           /\ \A p \in Process : req'[p].rows \subseteq req[p].rows
  <2>1. \A p \in Process : View(p)' \subseteq View(p)
    BY <1>1 DEF View
  <2>2. IdsApart'
    BY <1>1, <2>1 DEF StoredInv, IdsApart
  <2>3. Unshared'
    BY <1>1 DEF StoredInv, Unshared
  <2>4. QED BY <1>0, <1>1, <2>2, <2>3 DEF StoredInv
<1>2. ASSUME NEW p \in Process, InsertVersion(p) PROVE StoredInv'
  <2>1. PICK row \in Row :
           /\ row.id = lastId + 1 /\ row.id = lastId'
           /\ \A q \in Process : row \notin View(q) /\ \A x \in View(q) : x.id < row.id
           /\ req'[p].rows = req[p].rows \cup {row}
           /\ versions' = versions /\ Others(p)
    BY <1>0, <1>2, InsertedRow DEF StoredInv
  <2>2. \A q \in Process : \A x \in View(q)' : x = row \/ x \in View(q)
    BY <2>1 DEF View, Others
  <2>3. \A q \in Process : \A x \in View(q) : x.id <= lastId /\ x.id \in Nat
    BY <1>0, ViewSound DEF StoredInv, IdsApart, Row
  <2>4. \A q \in Process : \A x \in View(q)' : x.id <= lastId'
    BY <1>0, <2>1, <2>2, <2>3
  <2>5. IdsApart'
    <3> SUFFICES ASSUME NEW a \in Process, NEW b \in Process, NEW r \in View(a)',
                        NEW s \in View(b)', r.id = s.id
                 PROVE  r = s
      BY <2>4 DEF IdsApart
    <3>1. (r = row \/ r \in View(a)) /\ (s = row \/ s \in View(b))
      BY <2>2
    <3>2. CASE r = row \/ s = row
      BY <2>1, <2>3, <3>1, <3>2, <1>0
    <3>3. CASE r \in View(a) /\ s \in View(b)
      BY <3>3 DEF StoredInv, IdsApart
    <3>4. QED BY <3>1, <3>2, <3>3
  <2>6. Unshared'
    BY <2>1 DEF StoredInv, Unshared, Others, View
  <2>7. QED BY <1>0, <2>1, <2>5, <2>6 DEF StoredInv
<1>3. ASSUME NEW p \in Process, Commit(p) PROVE StoredInv'
  <2>1. /\ Others(p) /\ req'[p].rows = {} /\ versions' = View(p) /\ lastId' = lastId
    BY <1>0, <1>3, CommitStep, RestingFields
  <2>2. \A q \in Process : \A x \in View(q)' : x \in View(p) \/ x \in View(q)
    BY <2>1 DEF View, Others
  <2>3. IdsApart'
    BY <2>1, <2>2 DEF StoredInv, IdsApart
  <2>4. Unshared'
    BY <2>1 DEF StoredInv, Unshared, Others, View
  <2>5. ASSUME NEW w \in Workflow PROVE Numbered(RowsOf(versions', w))
    <3>1. PICK n \in Nat : {r.seq : r \in RowsOf(versions, w)} = 1..n
      BY DEF StoredInv, Numbered
    <3>2. CASE RowsOf(View(p), w) = RowsOf(versions, w)
      BY <2>1, <3>1, <3>2 DEF Numbered
    <3>3. CASE \E x \in req[p].rows :
                 /\ x.seq = n + 1 /\ RowsOf(View(p), w) = RowsOf(versions, w) \cup {x}
      <4>1. {r.seq : r \in RowsOf(versions', w)} = 1..n \cup {n + 1}
        BY <2>1, <3>1, <3>3
      <4>2. 1..n \cup {n + 1} = 1..(n + 1) /\ n + 1 \in Nat
        OBVIOUS
      <4>3. QED BY <4>1, <4>2 DEF Numbered
    <3>4. QED BY <3>1, <3>2, <3>3, CommitGrows
  <2>6. QED BY <1>0, <2>3, <2>4, <2>5 DEF StoredInv, Numbered, RowsOf
<1>4. QED BY <1>0, <1>1, <1>2, <1>3, RowsCases

LEMMA StoredHolds == Spec => []StoredInv
<1>1. Init => StoredInv
  <2> SUFFICES ASSUME Init PROVE StoredInv
    OBVIOUS
  <2>1. versions = {} /\ \A p \in Process : req[p].rows = {}
    BY RestingFields DEF Init
  <2>2. \A w \in Workflow : Numbered(RowsOf(versions, w))
    <3>1. \A w \in Workflow : {r.seq : r \in RowsOf(versions, w)} = 1..0
      BY <2>1 DEF RowsOf
    <3>2. QED BY <3>1 DEF Numbered
  <2>3. Unshared /\ IdsApart
    BY <2>1 DEF Unshared, IdsApart, View
  <2>4. QED BY <2>2, <2>3, InitShape DEF StoredInv
<1>2. StoredInv /\ [Next]_vars => StoredInv'
  BY NextStored
<1>3. QED BY <1>1, <1>2, PTL DEF Spec
--------------------------------------------------------------------------------
(* The store implements the append-only history. *)

IdsOf(rows) == [n \in {r.seq : r \in rows} |-> (CHOOSE r \in rows : r.seq = n).id]

LEMMA IdsOfRows ==
  ASSUME NEW rows \in SUBSET Row, NEW n \in Nat, {r.seq : r \in rows} = 1..n,
         \A r, s \in rows : r.seq = s.seq => r = s
  PROVE  /\ IdsOf(rows) \in Seq(Nat) /\ Len(IdsOf(rows)) = n
         /\ \A r \in rows : r.seq \in 1..n /\ IdsOf(rows)[r.seq] = r.id
         /\ \A i \in 1..n : \E r \in rows : r.seq = i /\ IdsOf(rows)[i] = r.id
<1>1. IdsOf(rows) = [i \in 1..n |-> (CHOOSE r \in rows : r.seq = i).id]
  BY DEF IdsOf
<1>2. \A i \in 1..n : \E r \in rows : r.seq = i
  BY Zenon
<1>3. ASSUME NEW i \in 1..n
      PROVE  /\ (CHOOSE r \in rows : r.seq = i) \in rows
             /\ (CHOOSE r \in rows : r.seq = i).seq = i
  BY <1>2
<1>4. \A i \in 1..n : (CHOOSE r \in rows : r.seq = i).id \in Nat
  BY <1>3 DEF Row
<1>5. PICK h : h = IdsOf(rows)
  OBVIOUS
<1>6. h \in [1..n -> Nat] /\ DOMAIN h = 1..n
  BY <1>1, <1>4, <1>5
<1>7. h \in Seq(Nat) /\ Len(h) = n
  BY <1>6
<1>8. \A r \in rows : r.seq \in 1..n
  OBVIOUS
<1>9. ASSUME NEW r \in rows PROVE h[r.seq] = r.id
  <2>1. (CHOOSE s \in rows : s.seq = r.seq) = r
    BY <1>3, <1>8
  <2>2. QED BY <1>1, <1>5, <1>8, <2>1
<1>10. \A i \in 1..n : \E r \in rows : r.seq = i /\ h[i] = r.id
  BY <1>2, <1>9
<1>11. QED BY <1>5, <1>7, <1>8, <1>9, <1>10

\* What a commit does to a workflow's history.
LEMMA CommitHistory ==
  ASSUME StoredInv, NEW p \in Process, NEW w \in Workflow
  PROVE  LET old == IdsOf(RowsOf(versions, w))
             new == IdsOf(RowsOf(View(p), w))
         IN  \/ new = old
             \/ /\ Len(new) = Len(old) + 1
                /\ \A i \in 1..Len(old) : new[i] = old[i]
                /\ \E x \in req[p].rows : x \in View(p) /\ new[Len(new)] = x.id
<1>0. IInv
  BY DEF StoredInv, ShapeInv
<1>1. PICK n \in Nat : {r.seq : r \in RowsOf(versions, w)} = 1..n
  BY DEF StoredInv, Numbered
<1>2. PICK A, B, old, new : /\ A = RowsOf(versions, w) /\ B = RowsOf(View(p), w)
                            /\ old = IdsOf(A) /\ new = IdsOf(B)
  OBVIOUS
<1>3. /\ B \in SUBSET Row /\ A \subseteq B
      /\ \A r, s \in B : r.seq = s.seq => r = s
  <2>1. B \subseteq View(p) /\ A \subseteq B /\ \A r \in B : r.wf = w
    BY <1>2 DEF RowsOf, View
  <2>2. \A r \in View(p) : r \in Row
    BY <1>0, ViewSound
  <2>3. QED BY <1>0, <2>1, <2>2 DEF IInv, KeysInv
<1>4. /\ old \in Seq(Nat) /\ Len(old) = n
      /\ \A i \in 1..n : \E r \in A : r.seq = i /\ old[i] = r.id
  <2>1. A \in SUBSET Row /\ {r.seq : r \in A} = 1..n
        /\ \A r, s \in A : r.seq = s.seq => r = s
    BY <1>1, <1>2, <1>3
  <2>2. QED BY <1>2, <2>1, IdsOfRows
<1>5. B = A => new = old
  BY <1>2
<1>6. ASSUME \E x \in req[p].rows : x.seq = n + 1 /\ x \in View(p) /\ B = A \cup {x}
      PROVE  /\ Len(new) = Len(old) + 1
             /\ \A i \in 1..Len(old) : new[i] = old[i]
             /\ \E x \in req[p].rows : x \in View(p) /\ new[Len(new)] = x.id
  <2>1. PICK x \in req[p].rows : x.seq = n + 1 /\ x \in View(p) /\ B = A \cup {x}
    BY <1>6
  <2>2. {r.seq : r \in B} = 1..(n + 1)
    <3>1. {r.seq : r \in B} = {r.seq : r \in A} \cup {n + 1}
      BY <2>1
    <3>2. 1..n \cup {n + 1} = 1..(n + 1)
      OBVIOUS
    <3>3. QED BY <1>1, <1>2, <3>1, <3>2
  <2>3. PICK k \in Nat : k = n + 1
    OBVIOUS
  <2>4. {r.seq : r \in B} = 1..k
    BY <2>2, <2>3
  <2>5. /\ new \in Seq(Nat) /\ Len(new) = k
        /\ \A r \in B : r.seq \in 1..k /\ new[r.seq] = r.id
    BY <1>2, <1>3, <2>4, IdsOfRows
  <2>6. \A i \in 1..n : new[i] = old[i]
    BY <1>3, <1>4, <2>5
  <2>7. new[k] = x.id
    BY <2>1, <2>3, <2>5
  <2>8. QED BY <1>4, <2>1, <2>3, <2>5, <2>6, <2>7
<1>7. B = A \/ \E x \in req[p].rows : x.seq = n + 1 /\ x \in View(p) /\ B = A \cup {x}
  BY <1>1, <1>2, CommitGrows
<1>8. QED BY <1>2, <1>5, <1>6, <1>7, Zenon

\* What the histories of the stored rows, and of a transaction's view, hold.
LEMMA StoredIds ==
  ASSUME StoredInv, NEW w \in Workflow, NEW i \in 1..Len(IdsOf(RowsOf(versions, w)))
  PROVE  \E r \in RowsOf(versions, w) : IdsOf(RowsOf(versions, w))[i] = r.id
<1>1. PICK A : A = RowsOf(versions, w)
  OBVIOUS
<1>2. PICK n \in Nat : {r.seq : r \in A} = 1..n
  BY <1>1 DEF StoredInv, Numbered
<1>3. A \in SUBSET Row /\ \A r, s \in A : r.seq = s.seq => r = s
  <2>1. PICK p \in Process : TRUE
    BY NamesAssumption
  <2>2. A \subseteq View(p) /\ A \subseteq versions /\ \A r \in A : r.wf = w
    BY <1>1 DEF RowsOf, View
  <2>3. QED BY <2>2 DEF StoredInv, ShapeInv, IInv, KeysInv, TypeOK
<1>4. Len(IdsOf(A)) = n /\ \A j \in 1..n : \E r \in A : r.seq = j /\ IdsOf(A)[j] = r.id
  BY <1>2, <1>3, IdsOfRows
<1>5. QED BY <1>1, <1>4

LEMMA ViewIds ==
  ASSUME StoredInv, NEW p \in Process, NEW w \in Workflow, NEW s \in RowsOf(View(p), w)
  PROVE  \E i \in 1..Len(IdsOf(RowsOf(View(p), w))) : IdsOf(RowsOf(View(p), w))[i] = s.id
<1>1. PICK B : B = RowsOf(View(p), w)
  OBVIOUS
<1>2. PICK n \in Nat : {r.seq : r \in RowsOf(versions, w)} = 1..n
  BY DEF StoredInv, Numbered
<1>3. B \in SUBSET Row /\ \A r, t \in B : r.seq = t.seq => r = t
  <2>1. IInv /\ B \subseteq View(p) /\ \A r \in B : r.wf = w
    BY <1>1 DEF RowsOf, StoredInv, ShapeInv
  <2>2. \A r \in View(p) : r \in Row
    BY <2>1, ViewSound
  <2>3. QED BY <2>1, <2>2 DEF IInv, KeysInv
<1>4. \E k \in Nat : {r.seq : r \in B} = 1..k
  <2>1. CASE B = RowsOf(versions, w)
    BY <1>2, <2>1
  <2>2. CASE \E x \in req[p].rows : x.seq = n + 1 /\ B = RowsOf(versions, w) \cup {x}
    <3>1. {r.seq : r \in B} = 1..n \cup {n + 1}
      BY <1>2, <2>2
    <3>2. 1..n \cup {n + 1} = 1..(n + 1) /\ n + 1 \in Nat
      OBVIOUS
    <3>3. QED BY <3>1, <3>2
  <2>3. QED BY <1>1, <1>2, <2>1, <2>2, CommitGrows
<1>5. PICK k \in Nat : {r.seq : r \in B} = 1..k
  BY <1>4
<1>6. Len(IdsOf(B)) = k /\ \A r \in B : r.seq \in 1..k /\ IdsOf(B)[r.seq] = r.id
  BY <1>3, <1>5, IdsOfRows
<1>7. QED BY <1>1, <1>6

LEMMA StepHistory ==
  ASSUME StoredInv, [Next]_vars
  PROVE  [History!Commit]_<<[w \in Workflow |-> HistoryOf(w)], active>>
<1>0. IInv /\ IInv'
  BY NextIInv DEF StoredInv, ShapeInv
<1>1. \A w : /\ HistoryOf(w) = IdsOf(RowsOf(versions, w))
             /\ HistoryOf(w)' = IdsOf(RowsOf(versions', w))
  BY DEF HistoryOf, IdsOf, RowsOf
<1>2. CASE Kept
  <2>1. UNCHANGED <<[w \in Workflow |-> HistoryOf(w)], active>>
    BY <1>1, <1>2 DEF Kept
  <2>2. QED BY <2>1
<1>3. ASSUME NEW p \in Process, Commit(p) PROVE History!Commit
  <2>1. versions' = View(p)
    BY <1>0, <1>3, CommitStep
  <2>2. PICK h, g : /\ h = [w \in Workflow |-> HistoryOf(w)]
                    /\ g = [w \in Workflow |-> HistoryOf(w)']
    OBVIOUS
  <2>3. \A w \in Workflow : /\ h[w] = IdsOf(RowsOf(versions, w))
                            /\ g[w] = IdsOf(RowsOf(View(p), w))
    BY <1>1, <2>1, <2>2
  <2>4. ASSUME NEW w \in Workflow
        PROVE  \/ g[w] = h[w]
               \/ /\ Len(g[w]) = Len(h[w]) + 1
                  /\ \A i \in 1..Len(h[w]) : g[w][i] = h[w][i]
                  /\ \A v \in Workflow : g[w][Len(g[w])] \notin {h[v][i] : i \in 1..Len(h[v])}
    <3>1. CASE g[w] = h[w]
      BY <3>1
    <3>2. CASE /\ Len(g[w]) = Len(h[w]) + 1
               /\ \A i \in 1..Len(h[w]) : g[w][i] = h[w][i]
               /\ \E x \in req[p].rows : x \in View(p) /\ g[w][Len(g[w])] = x.id
      <4>1. PICK x \in req[p].rows : x \in View(p) /\ g[w][Len(g[w])] = x.id
        BY <3>2
      <4>2. ASSUME NEW v \in Workflow, NEW i \in 1..Len(h[v]) PROVE h[v][i] # x.id
        <5>1. PICK r \in RowsOf(versions, v) : h[v][i] = r.id
          BY <2>3, StoredIds
        <5>2. r \in View(p) /\ r \in versions /\ x \notin versions
          BY DEF RowsOf, View, StoredInv, Unshared
        <5>3. QED BY <4>1, <5>1, <5>2 DEF StoredInv, IdsApart
      <4>3. QED BY <3>2, <4>1, <4>2
    <3>3. QED BY <2>3, <3>1, <3>2, CommitHistory
  <2>5. ASSUME NEW w \in Workflow
        PROVE  active'[w] = active[w] \/ active'[w] \in {g[w][i] : i \in 1..Len(g[w])}
    <3>1. CASE req[p].moved[w] = None
      BY <1>0, <1>3, <3>1, CommitStep
    <3>2. CASE req[p].moved[w] # None
      <4>1. active'[w] = req[p].moved[w]
        BY <1>0, <1>3, <3>2, CommitStep
      <4>2. PICK s \in View(p) : s.id = active'[w] /\ s.wf = w
        BY <1>0, <3>2, <4>1 DEF IInv, ReqInv, Stored
      <4>3. s \in RowsOf(View(p), w)
        BY <4>2 DEF RowsOf
      <4>4. \E i \in 1..Len(g[w]) : g[w][i] = s.id
        BY <2>3, <4>3, ViewIds
      <4>5. QED BY <4>2, <4>4
    <3>3. QED BY <3>1, <3>2
  <2>6. ASSUME NEW w \in Workflow
        PROVE  History!KeepsOrGrows(w) /\ History!KeepsOrPublishes(w)
    BY <2>2, <2>4, <2>5 DEF History!KeepsOrGrows, History!KeepsOrPublishes, History!Ids
  <2>7. QED BY <2>6 DEF History!Commit
<1>4. QED BY <1>0, <1>2, <1>3, OnlyCommitMoves

\* The store implements the append-only history: no commit of any interleaving
\* rewrites, drops or reorders a stored version or publishes an unstored one.
THEOREM HistoryImplemented == Spec => ImplementsHistory
<1>1. Init => History!Init
  <2> SUFFICES ASSUME Init PROVE History!Init
    OBVIOUS
  <2>1. ASSUME NEW w \in Workflow PROVE HistoryOf(w) = <<>>
    <3>1. RowsOf(versions, w) = {}
      BY DEF Init, RowsOf
    <3>2. QED BY <3>1 DEF HistoryOf
  <2>2. active = [w \in Workflow |-> None]
    BY DEF Init, NoMoves
  <2>3. QED BY <2>1, <2>2 DEF History!Init
<1>2. StoredInv /\ [Next]_vars => [History!Commit]_<<[w \in Workflow |-> HistoryOf(w)], active>>
  BY StepHistory
<1>3. QED BY <1>1, <1>2, StoredHolds, PTL DEF Spec, ImplementsHistory, History!Spec
--------------------------------------------------------------------------------
(* A process serves once its startup sync has committed. *)

\* What r holds of the pointers: none it saw or recorded a built-in for is absent
\* (or r is about to move it), and no built-in of a serving process is unpublished.
Serving(r) ==
  /\ r.cached # None => active[r.wf] # None
  /\ r.pc = "move" /\ r.loaded # None => active[r.wf] # None
  /\ \A x \in r.rows : x.source = "builtin" =>
       \/ active[x.wf] # None \/ r.moved[x.wf] # None
       \/ r.pc \in {"reload", "move"} /\ x.wf = r.wf
  /\ r.pc # "down" => \A i \in 1..Len(Builtins) :
       \/ active[Builtins[i]] # None
       \/ /\ r.op = "sync"
          /\ \/ r.moved[Builtins[i]] # None
             \/ Builtins[i] \in Ahead(r)
             \/ r.pc # "commit" /\ Builtins[i] = r.wf

ServingInv ==
  /\ ShapeInv
  /\ \A x \in versions : x.source = "builtin" => active[x.wf] # None
  /\ \A p \in Process : Serving(req[p])

LEMMA OnwardServing ==
  ASSUME NEW s, NEW n, s.todo \in Seq(Workflow), EachOnce(s.todo), Onward(n, s),
         s.op = "sync", s.cached # None => active[s.wf] # None,
         \A x \in s.rows : x.source = "builtin" => active[x.wf] # None \/ s.moved[x.wf] # None,
         \A i \in 1..Len(Builtins) : \/ active[Builtins[i]] # None
                                     \/ s.moved[Builtins[i]] # None
                                     \/ Builtins[i] \in Ahead(s)
  PROVE  Serving(n)
<1>1. /\ n.rows = s.rows /\ n.moved = s.moved /\ n.op = "sync"
      /\ n.pc = "commit" => n.wf = s.wf /\ n.cached = s.cached
      /\ n.pc = "builtin" => n.cached = None
  BY DEF Onward, SameWork
<1>2. /\ n.pc \in {"builtin", "commit"}
      /\ n.pc = "commit" => Ahead(s) = {}
      /\ n.pc = "builtin" => \A w \in Ahead(s) : w = n.wf \/ w \in Ahead(n)
  BY OnwardAhead
<1>3. n.cached # None => active[n.wf] # None
  BY <1>1, <1>2
<1>4. QED BY <1>1, <1>2, <1>3 DEF Serving

LEMMA BeganServing ==
  ASSUME ServingInv, NEW p \in Process, Began(p)
  PROVE  Serving(req'[p])
<1>1. PICK r, n : r = req[p] /\ n = req'[p]
  OBVIOUS
<1>2. n.rows = {} /\ n.cached = None /\ n.pc # "move"
  BY <1>1 DEF Began
<1>3. CASE n.op # "sync"
  <2>1. r.pc = "idle" /\ r.op # "sync"
    BY <1>1, <1>3 DEF Began, ServingInv, ShapeInv, Shape
  <2>2. \A i \in 1..Len(Builtins) : active[Builtins[i]] # None
    BY <1>1, <2>1 DEF ServingInv, Serving
  <2>3. QED BY <1>1, <1>2, <2>2 DEF Serving
<1>4. CASE n.op = "sync" /\ Builtins = <<>>
  BY <1>1, <1>2, <1>4 DEF Serving
<1>5. CASE n.op = "sync" /\ Builtins # <<>>
  <2>1. n.pc = "builtin" /\ n.wf = Head(Builtins) /\ n.todo = Tail(Builtins)
    BY <1>1, <1>5 DEF Began
  <2>2. EachOnce(Builtins) /\ Builtins \in Seq(Workflow)
    BY BuiltinsAssumption DEF EachOnce
  <2>3. \A j \in 1..Len(Builtins) : \/ Builtins[j] = n.wf
                                    \/ \E i \in 1..Len(n.todo) : Builtins[j] = n.todo[i]
    BY <1>5, <2>1, <2>2, TailOnce
  <2>4. \A j \in 1..Len(Builtins) : Builtins[j] = n.wf \/ Builtins[j] \in Ahead(n)
    BY <2>3 DEF Ahead
  <2>5. QED BY <1>1, <1>2, <1>5, <2>1, <2>4 DEF Serving
<1>6. QED BY <1>3, <1>4, <1>5

LEMMA RestedServing ==
  ASSUME ServingInv, NEW p \in Process, Rested(p)
  PROVE  Serving(req'[p])
<1>1. PICK phase \in {"down", "idle"} : req'[p] = Resting(phase)
  BY DEF Rested
<1>2. PICK n : n = req'[p]
  OBVIOUS
<1>3. n.rows = {} /\ n.cached = None /\ n.pc = phase
  BY <1>1, <1>2, RestingFields, RestingMore
<1>4. n.pc # "down" => \A i \in 1..Len(Builtins) : active[Builtins[i]] # None
  <2>1. n.pc # "down" => req[p].op # "sync" /\ req[p].pc # "down"
    BY <1>2, <1>3 DEF Rested
  <2>2. QED BY <2>1 DEF ServingInv, Serving
<1>5. QED BY <1>2, <1>3, <1>4 DEF Serving

LEMMA ReadServing ==
  ASSUME ServingInv, NEW p \in Process,
         ReadBuiltin(p) \/ ReadPointer(p) \/ ReadLatest(p) \/ ReloadPointer(p)
  PROVE  Serving(req'[p])
<1>0. IInv /\ ShapeInv
  BY DEF ServingInv, ShapeInv
<1>1. PICK r, n : r = req[p] /\ n = req'[p]
  OBVIOUS
<1>2. r \in Request /\ Shape(r) /\ Serving(r)
  BY <1>1 DEF ServingInv, ShapeInv, IInv, TypeOK
<1>3. ASSUME SameWork(n, r), SameGoal(n, r), r.pc \notin {"down", "commit", "move"},
             n.pc # "commit", n.cached # None => active[r.wf] # None,
             r.pc = "reload" \/ n.pc = "move" =>
               r.pc = "reload" /\ n.pc = "move" /\ n.loaded = active[r.wf]
      PROVE  Serving(n)
  BY <1>2, <1>3 DEF Serving, SameWork, SameGoal, Ahead
<1>4. CASE ReadBuiltin(p)
  <2>1. CASE Onward(n, r)
    <3>1. r.pc = "builtin" /\ r.op = "sync" /\ BuiltinsOf(View(p), r.wf) # {}
      <4>1. r.pc = "builtin" /\ r.op = "sync"
        BY <1>0, <1>1, <1>4, ReadBuiltinStep
      <4>2. n.pc # "pointer"
        BY <2>1 DEF Onward
      <4>3. QED BY <1>0, <1>1, <1>4, <4>1, <4>2, ReadBuiltinStep
    <3>2. SyncShape(r) /\ r.todo \in Seq(Workflow)
      BY <1>2, <3>1 DEF Shape, Request
    <3>3. active[r.wf] # None
      <4>1. PICK b \in View(p) : b.wf = r.wf /\ b.source = "builtin"
        BY <3>1 DEF BuiltinsOf, RowsOf
      <4>2. b \in versions
        BY <1>1, <3>1, <3>2, <4>1 DEF View, SyncShape
      <4>3. QED BY <4>1, <4>2 DEF ServingInv
    <3>4. \A x \in r.rows : x.source = "builtin" => active[x.wf] # None \/ r.moved[x.wf] # None
      BY <1>2, <3>1 DEF Serving
    <3>5. \A i \in 1..Len(Builtins) : \/ active[Builtins[i]] # None
                                      \/ r.moved[Builtins[i]] # None
                                      \/ Builtins[i] \in Ahead(r)
      BY <1>2, <3>1, <3>3 DEF Serving
    <3>6. QED BY <1>1, <2>1, <3>1, <3>2, <3>3, <3>4, <3>5, OnwardServing DEF SyncShape
  <2>2. CASE ~ Onward(n, r)
    <3>1. /\ SameWork(n, r) /\ SameGoal(n, r) /\ r.pc = "builtin" /\ n.pc = "pointer"
          /\ n.cached = r.cached
      BY <1>0, <1>1, <1>4, <2>2, ReadBuiltinStep
    <3>2. QED BY <1>1, <1>2, <1>3, <3>1 DEF Serving
  <2>3. QED BY <2>1, <2>2
<1>5. CASE ReadPointer(p)
  <2>1. CASE Rested(p)
    BY <2>1, RestedServing
  <2>2. CASE ~ Rested(p)
    <3>1. /\ SameWork(n, r) /\ SameGoal(n, r) /\ r.pc = "pointer" /\ n.pc \in {"latest", "reload"}
          /\ n.cached = active[r.wf]
      BY <1>0, <1>1, <1>5, <2>2, ReadPointerStep
    <3>2. QED BY <1>1, <1>3, <3>1
  <2>3. QED BY <2>1, <2>2
<1>6. CASE ReadLatest(p)
  <2>1. /\ SameWork(n, r) /\ SameGoal(n, r) /\ r.pc = "latest" /\ n.pc = "insert"
        /\ n.cached = r.cached
    BY <1>0, <1>1, <1>6, ReadLatestStep
  <2>2. QED BY <1>1, <1>2, <1>3, <2>1 DEF Serving
<1>7. CASE ReloadPointer(p)
  <2>1. /\ SameWork(n, r) /\ SameGoal(n, r) /\ r.pc = "reload" /\ n.pc = "move"
        /\ n.cached = r.cached /\ n.loaded = active[r.wf]
    BY <1>0, <1>1, <1>7, ReloadStep
  <2>2. QED BY <1>1, <1>2, <1>3, <2>1 DEF Serving
<1>8. QED BY <1>4, <1>5, <1>6, <1>7

\* A built-in that is only recorded has an admin's version published over it.
LEMMA InsertServing ==
  ASSUME ServingInv, NEW p \in Process, InsertVersion(p)
  PROVE  Serving(req'[p])
<1>0. IInv
  BY DEF ServingInv, ShapeInv
<1>1. PICK r, n, row : r = req[p] /\ n = req'[p] /\ row = NewRow(r)
  OBVIOUS
<1>2. /\ r \in Request /\ Shape(r) /\ Serving(r) /\ r.pc = "insert" /\ row.wf = r.wf
      /\ (row.source = "builtin" <=> r.op = "sync")
  BY <1>0, <1>1, InsertStep DEF ServingInv, ShapeInv, IInv, TypeOK, NewRow
<1>3. ASSUME NEW s, Inserted(s, r)
      PROVE  /\ s.rows = r.rows \cup {row} /\ s.moved = r.moved /\ s.op = r.op
             /\ s.cached = r.cached /\ s.wf = r.wf /\ s.todo = r.todo /\ Ahead(s) = Ahead(r)
  BY <1>1, <1>3 DEF Inserted, SameGoal, Ahead
<1>4. CASE r.op # "sync"
  <2>1. Inserted(n, r) /\ n.pc = "commit"
    BY <1>0, <1>1, <1>4, InsertStep
  <2>2. QED BY <1>1, <1>2, <1>3, <1>4, <2>1 DEF Serving
<1>5. CASE r.op = "sync" /\ Inserted(n, r) /\ n.pc = "reload"
  BY <1>1, <1>2, <1>3, <1>5 DEF Serving
<1>6. CASE r.op = "sync" /\ ~PublishesBuiltin(r) /\ \E s : Inserted(s, r) /\ Onward(n, s)
  <2>1. PICK s : Inserted(s, r) /\ Onward(n, s)
    BY <1>6
  <2>2. /\ s.rows = r.rows \cup {row} /\ s.moved = r.moved /\ s.op = "sync"
        /\ s.cached = r.cached /\ s.wf = r.wf /\ s.todo = r.todo /\ Ahead(s) = Ahead(r)
    BY <1>3, <1>6, <2>1
  <2>3. active[r.wf] # None
    BY <1>2, <1>6 DEF PublishesBuiltin, Serving
  <2>4. s.todo \in Seq(Workflow) /\ EachOnce(s.todo)
    BY <1>2, <1>6, <2>2 DEF Shape, SyncShape, Request
  <2>5. \A x \in s.rows : x.source = "builtin" => active[x.wf] # None \/ s.moved[x.wf] # None
    BY <1>2, <2>2, <2>3 DEF Serving
  <2>6. \A i \in 1..Len(Builtins) : \/ active[Builtins[i]] # None
                                    \/ s.moved[Builtins[i]] # None
                                    \/ Builtins[i] \in Ahead(s)
    BY <1>2, <2>2, <2>3 DEF Serving
  <2>7. QED BY <1>1, <2>1, <2>2, <2>3, <2>4, <2>5, <2>6, OnwardServing
<1>7. QED BY <1>0, <1>1, <1>4, <1>5, <1>6, InsertStep

LEMMA MoveServing ==
  ASSUME ServingInv, NEW p \in Process, MovePointer(p)
  PROVE  Serving(req'[p])
<1>0. IInv
  BY DEF ServingInv, ShapeInv
<1>1. PICK r, n : r = req[p] /\ n = req'[p]
  OBVIOUS
<1>2. /\ r \in Request /\ Shape(r) /\ Serving(r) /\ r.pc = "move" /\ r.target # None
      /\ r.wf \in Workflow
  BY <1>0, <1>1, MoveStep DEF ServingInv, ShapeInv, IInv, ReqInv, Request
<1>3. ASSUME NEW m, MovedBy(m, r)
      PROVE  /\ m.rows = r.rows /\ m.op = r.op /\ m.cached = r.cached /\ m.wf = r.wf
             /\ m.todo = r.todo /\ Ahead(m) = Ahead(r)
             /\ \A w : w # r.wf => m.moved[w] = r.moved[w]
             /\ active[r.wf] # None \/ m.moved[r.wf] # None
  <2>1. /\ m.rows = r.rows /\ m.op = r.op /\ m.cached = r.cached /\ m.wf = r.wf
        /\ m.todo = r.todo
    BY <1>3 DEF MovedBy, SameGoal
  <2>2. PICK to : /\ to = (IF r.loaded = r.target THEN None ELSE r.target)
                  /\ m.moved = [r.moved EXCEPT ![r.wf] = to]
    BY <1>3 DEF MovedBy
  <2>3. r.moved \in [Workflow -> Nat]
    BY <1>2 DEF Request
  <2>4. m.moved[r.wf] = to /\ \A w : w # r.wf => m.moved[w] = r.moved[w]
    BY <1>2, <2>2, <2>3
  <2>5. to # None \/ active[r.wf] # None
    BY <1>2, <2>2 DEF Serving
  <2>6. QED BY <2>1, <2>4, <2>5 DEF Ahead
<1>4. CASE r.op # "sync"
  <2>1. MovedBy(n, r) /\ n.pc = "commit"
    BY <1>0, <1>1, <1>4, MoveStep
  <2>2. n.rows = {} /\ n.op = r.op /\ n.cached = r.cached /\ n.wf = r.wf
    BY <1>2, <1>3, <1>4, <2>1 DEF Shape
  <2>3. QED BY <1>1, <1>2, <1>4, <2>1, <2>2 DEF Serving
<1>5. CASE r.op = "sync"
  <2>1. PICK m : MovedBy(m, r) /\ Onward(n, m)
    BY <1>0, <1>1, <1>5, MoveStep
  <2>2. /\ m.rows = r.rows /\ m.op = "sync" /\ m.cached = r.cached /\ m.wf = r.wf
        /\ m.todo = r.todo /\ Ahead(m) = Ahead(r)
        /\ \A w : w # r.wf => m.moved[w] = r.moved[w]
        /\ active[r.wf] # None \/ m.moved[r.wf] # None
    BY <1>3, <1>5, <2>1
  <2>3. m.todo \in Seq(Workflow) /\ EachOnce(m.todo)
    BY <1>2, <1>5, <2>2 DEF Shape, SyncShape, Request
  <2>4. \A x \in m.rows : x.source = "builtin" => active[x.wf] # None \/ m.moved[x.wf] # None
    BY <1>2, <2>2 DEF Serving
  <2>5. \A i \in 1..Len(Builtins) : \/ active[Builtins[i]] # None
                                    \/ m.moved[Builtins[i]] # None
                                    \/ Builtins[i] \in Ahead(m)
    BY <1>2, <2>2 DEF Serving
  <2>6. m.cached # None => active[m.wf] # None
    BY <1>2, <2>2 DEF Serving
  <2>7. QED BY <1>1, <2>1, <2>2, <2>3, <2>4, <2>5, <2>6, OnwardServing
<1>6. QED BY <1>4, <1>5

LEMMA NextServing ==
  ASSUME ServingInv, [Next]_vars
  PROVE  ServingInv'
<1>0. IInv /\ ShapeInv /\ ShapeInv'
  BY NextShape DEF ServingInv, ShapeInv
<1>1. ASSUME NEW p \in Process, Kept, Others(p), Serving(req'[p]) PROVE ServingInv'
  BY <1>0, <1>1 DEF ServingInv, Serving, Ahead, Kept, Others
<1>2. ASSUME NEW p \in Process, Began(p) \/ Rested(p) PROVE ServingInv'
  BY <1>1, <1>2, BeganServing, RestedServing DEF Began, Rested
<1>3. ASSUME NEW p \in Process,
             ReadBuiltin(p) \/ ReadPointer(p) \/ ReadLatest(p) \/ ReloadPointer(p)
      PROVE  ServingInv'
  <2>1. CASE Rested(p)
    BY <1>2, <2>1
  <2>2. CASE ~ Rested(p)
    BY <1>0, <1>1, <1>3, <2>2, ReadServing, ReadBuiltinStep, ReadPointerStep, ReadLatestStep,
       ReloadStep
  <2>3. QED BY <2>1, <2>2
<1>4. ASSUME NEW p \in Process, InsertVersion(p) \/ MovePointer(p) PROVE ServingInv'
  BY <1>0, <1>1, <1>4, InsertServing, InsertStep, MoveServing, MoveStep
<1>5. ASSUME NEW p \in Process, Commit(p) PROVE ServingInv'
  <2>1. PICK r : r = req[p]
    OBVIOUS
  <2>2. /\ Others(p) /\ r.pc = "commit" /\ req'[p] = Resting("idle") /\ versions' = View(p)
        /\ \A w \in Workflow : active'[w] = IF r.moved[w] = None THEN active[w] ELSE r.moved[w]
    BY <1>0, <1>5, <2>1, CommitStep
  <2>3. /\ Shape(r) /\ Serving(r) /\ r \in Request
        /\ \A q \in Process : req[q] \in Request /\ Serving(req[q])
    BY <1>0, <2>1 DEF ServingInv, ShapeInv, IInv, TypeOK
  <2>4. \A w \in Workflow : active[w] # None \/ r.moved[w] # None => active'[w] # None
    BY <2>2
  <2>5. \A i \in 1..Len(Builtins) : Builtins[i] \in Workflow
    BY BuiltinsAssumption
  <2>6. \A i \in 1..Len(Builtins) : active'[Builtins[i]] # None
    <3>1. r.op = "sync" => Ahead(r) = {}
      BY <2>2, <2>3 DEF Shape, SyncShape, Ahead
    <3>2. QED BY <2>2, <2>3, <2>4, <2>5, <3>1 DEF Serving
  <2>7. \A x \in versions' : x.source = "builtin" => active'[x.wf] # None
    <3>1. ASSUME NEW x \in View(p), x.source = "builtin" PROVE active'[x.wf] # None
      <4>1. x.wf \in Workflow
        BY <1>0, ViewSound DEF Row
      <4>2. active[x.wf] # None \/ r.moved[x.wf] # None
        BY <2>1, <2>2, <2>3, <3>1 DEF View, ServingInv, Serving
      <4>3. QED BY <2>4, <4>1, <4>2
    <3>2. QED BY <2>2, <3>1
  <2>8. ASSUME NEW q \in Process PROVE Serving(req[q])'
    <3>1. CASE q = p
      <4>1. PICK n : n = req'[p]
        OBVIOUS
      <4>2. n.rows = {} /\ n.cached = None /\ n.pc # "move"
        BY <2>2, <4>1, RestingFields, RestingMore
      <4>3. QED BY <2>6, <3>1, <4>1, <4>2 DEF Serving
    <3>2. CASE q # p
      <4>1. req'[q] = req[q] /\ Serving(req[q]) /\ req[q].wf \in Workflow
            /\ \A x \in req[q].rows : x.wf \in Workflow
        BY <2>2, <2>3, <3>2 DEF Others, Request, Row
      <4>2. QED BY <2>4, <2>6, <4>1 DEF Serving
    <3>3. QED BY <3>1, <3>2
  <2>9. QED BY <1>0, <2>7, <2>8 DEF ServingInv
<1>6. CASE UNCHANGED vars
  BY <1>0, <1>6 DEF ServingInv, Serving, Ahead, vars
<1>7. QED BY <1>0, <1>2, <1>3, <1>4, <1>5, <1>6, TrailCases

\* A process that serves requests has a published version for every built-in it
\* ships: the sync leaves one alone only where a pointer was already set.
THEOREM ServingCorrect == Spec => []ServingIsPublished
<1>1. Init => ServingInv
  <2> SUFFICES ASSUME Init PROVE ServingInv
    OBVIOUS
  <2>1. versions = {} /\ \A p \in Process : req[p] = Resting("down")
    BY DEF Init
  <2>2. Serving(Resting("down"))
    BY RestingFields, RestingMore DEF Serving
  <2>3. QED BY <2>1, <2>2, InitShape DEF ServingInv
<1>2. ServingInv /\ [Next]_vars => ServingInv'
  BY NextServing
<1>3. ServingInv => ServingIsPublished
  BY DEF ServingInv, Serving, ServingIsPublished
<1>4. QED BY <1>1, <1>2, <1>3, PTL DEF Spec
--------------------------------------------------------------------------------
(* A single backend process: nothing changes between a request's statements. *)

Alone == \A p, q \in Process : p = q

\* The pointer a request read is still the committed one; a creation reads none.
Fresh(r) ==
  /\ r.pc \in {"latest", "insert", "reload", "move"} /\ r.op # "create" =>
       r.cached = active[r.wf]
  /\ r.pc = "move" => r.loaded = active[r.wf]
  /\ r.op = "create" => r.pc \notin {"reload", "move"}

\* A sync moves pointers off nothing or off a built-in.
OffBuiltin(r) ==
  r.op = "sync" =>
    /\ r.pc \in {"reload", "move"} => PublishesBuiltin(r)
    /\ \A w \in Workflow : r.moved[w] # None /\ active[w] # None =>
         RowAt(versions, active[w]).source = "builtin"

\* The log of a transaction tells how its pointers go from the committed ones.
LogTells(r) ==
  \A w \in Workflow :
    /\ \A i \in 1..Len(r.log) :
         IsMoveOf(r.log[i], w) => Tells(r.log, w, i - 1, active[w], r.log[i].old)
    /\ Tells(r.log, w, Len(r.log), active[w],
             IF r.moved[w] = None THEN active[w] ELSE r.moved[w])

\* NoBuiltinTwice of any set of rows.
Changed(rows) ==
  \A r, s \in rows :
    (/\ r.wf = s.wf /\ r.seq < s.seq
     /\ r.source = "builtin" /\ s.source = "builtin"
     /\ \A t \in rows : ~ /\ t.wf = r.wf /\ t.source = "builtin"
                          /\ r.seq < t.seq /\ t.seq < s.seq)
       => r.text # s.text

\* A sync has a text to record that the latest built-in has not, and the row it is
\* about to insert comes after all.
Differs(r) ==
  LET rows == versions \cup r.rows
      builtins == BuiltinsOf(rows, r.wf)
  IN  /\ Changed(rows)
      /\ r.op = "sync" /\ r.pc \in {"pointer", "latest", "insert"} =>
           \A b \in builtins : IsLatest(b, builtins) => b.text # r.text
      /\ r.pc = "insert" => \A s \in RowsOf(rows, r.wf) : s.seq <= r.prevSeq

Single(r) == Fresh(r) /\ OffBuiltin(r) /\ LogTells(r) /\ Differs(r)

AloneInv ==
  /\ Alone
  /\ ShapeInv
  /\ AuditLineage
  /\ Changed(versions)
  /\ \A p \in Process : Single(req[p])

\* Only the entries a trail has matter to what it tells.
LEMMA TellsSame ==
  ASSUME NEW s, NEW t, NEW w, NEW n \in Nat, NEW base, NEW v,
         \A i \in 1..n : s[i] = t[i], Tells(s, w, n, base, v)
  PROVE  Tells(t, w, n, base, v)
<1>1. CASE v = base /\ \A i \in 1..n : ~IsMoveOf(s[i], w)
  BY <1>1 DEF Tells, IsMoveOf
<1>2. CASE \E i \in 1..n : /\ IsMoveOf(s[i], w) /\ s[i].new = v
                          /\ \A j \in i + 1 .. n : ~IsMoveOf(s[j], w)
  <2>1. PICK i \in 1..n : /\ IsMoveOf(s[i], w) /\ s[i].new = v
                          /\ \A j \in i + 1 .. n : ~IsMoveOf(s[j], w)
    BY <1>2
  <2>2. \A j \in i + 1 .. n : j \in 1..n
    OBVIOUS
  <2>3. IsMoveOf(t[i], w) /\ t[i].new = v /\ \A j \in i + 1 .. n : ~IsMoveOf(t[j], w)
    BY <2>1, <2>2
  <2>4. QED BY <2>3 DEF Tells
<1>3. QED BY <1>1, <1>2 DEF Tells

\* An entry that is no move of the pointer changes nothing.
LEMMA TellsSkip ==
  ASSUME NEW s, NEW w, NEW n \in Nat, NEW base, NEW v,
         ~IsMoveOf(s[n + 1], w), Tells(s, w, n, base, v)
  PROVE  Tells(s, w, n + 1, base, v)
<1>1. \A j \in 1 .. n + 1 : j \in 1..n \/ j = n + 1
  OBVIOUS
<1>2. CASE v = base /\ \A i \in 1..n : ~IsMoveOf(s[i], w)
  <2>1. \A i \in 1 .. n + 1 : ~IsMoveOf(s[i], w)
    BY <1>1, <1>2
  <2>2. QED BY <1>2, <2>1 DEF Tells
<1>3. CASE \E i \in 1..n : /\ IsMoveOf(s[i], w) /\ s[i].new = v
                          /\ \A j \in i + 1 .. n : ~IsMoveOf(s[j], w)
  <2>1. PICK i \in 1..n : /\ IsMoveOf(s[i], w) /\ s[i].new = v
                          /\ \A j \in i + 1 .. n : ~IsMoveOf(s[j], w)
    BY <1>3
  <2>2. i \in 1 .. n + 1 /\ \A j \in i + 1 .. n + 1 : j \in i + 1 .. n \/ j = n + 1
    OBVIOUS
  <2>3. \A j \in i + 1 .. n + 1 : ~IsMoveOf(s[j], w)
    BY <2>1, <2>2
  <2>4. QED BY <2>1, <2>2, <2>3 DEF Tells
<1>4. QED BY <1>2, <1>3 DEF Tells

\* A log that takes up where the trail ends goes on with what it tells.
LEMMA TellsChain ==
  ASSUME NEW s \in Seq(Entry), NEW t \in Seq(Entry), NEW w, NEW k \in 0..Len(t),
         NEW base, NEW mid, NEW v,
         Tells(s, w, Len(s), base, mid), Tells(t, w, k, mid, v)
  PROVE  Tells(s \o t, w, Len(s) + k, base, v)
<1>0. Len(s) \in Nat
  OBVIOUS
<1>1. PICK u, n : u = s \o t /\ n = Len(s) /\ n \in Nat
  BY <1>0
<1>2. /\ \A i \in 1..n : u[i] = s[i]
      /\ \A i \in 1..k : u[n + i] = t[i]
  BY <1>1, ConcatProperties
<1>3. \A j \in n + 1 .. n + k : j - n \in 1..k /\ u[j] = t[j - n]
  <2> SUFFICES ASSUME NEW j \in n + 1 .. n + k PROVE j - n \in 1..k /\ u[j] = t[j - n]
    OBVIOUS
  <2>1. j - n \in 1..k /\ n + (j - n) = j
    BY <1>1
  <2>2. QED BY <1>2, <2>1
<1>4. CASE mid = v /\ \A i \in 1..k : ~IsMoveOf(t[i], w)
  <2>1. \A j \in n + 1 .. n + k : ~IsMoveOf(u[j], w)
    BY <1>3, <1>4
  <2>2. CASE v = base /\ \A i \in 1..n : ~IsMoveOf(s[i], w)
    <3>1. \A i \in 1 .. n + k : i \in 1..n \/ i \in n + 1 .. n + k
      BY <1>1
    <3>2. \A i \in 1 .. n + k : ~IsMoveOf(u[i], w)
      BY <1>2, <2>1, <2>2, <3>1
    <3>3. QED BY <1>1, <2>2, <3>2 DEF Tells
  <2>3. CASE \E i \in 1..n : /\ IsMoveOf(s[i], w) /\ s[i].new = v
                            /\ \A j \in i + 1 .. n : ~IsMoveOf(s[j], w)
    <3>1. PICK i \in 1..n : /\ IsMoveOf(s[i], w) /\ s[i].new = v
                            /\ \A j \in i + 1 .. n : ~IsMoveOf(s[j], w)
      BY <2>3
    <3>2. /\ i \in 1 .. n + k
          /\ \A j \in i + 1 .. n + k : \/ j \in 1..n /\ j \in i + 1 .. n
                                       \/ j \in n + 1 .. n + k
      BY <1>1
    <3>3. \A j \in i + 1 .. n + k : ~IsMoveOf(u[j], w)
      BY <1>2, <2>1, <3>1, <3>2
    <3>4. IsMoveOf(u[i], w) /\ u[i].new = v
      BY <1>2, <3>1
    <3>5. QED BY <1>1, <3>2, <3>3, <3>4 DEF Tells
  <2>4. QED BY <1>1, <1>4, <2>2, <2>3 DEF Tells
<1>5. CASE \E i \in 1..k : /\ IsMoveOf(t[i], w) /\ t[i].new = v
                          /\ \A j \in i + 1 .. k : ~IsMoveOf(t[j], w)
  <2>1. PICK i \in 1..k : /\ IsMoveOf(t[i], w) /\ t[i].new = v
                          /\ \A j \in i + 1 .. k : ~IsMoveOf(t[j], w)
    BY <1>5
  <2>2. /\ n + i \in 1 .. n + k
        /\ \A j \in (n + i) + 1 .. n + k : j \in n + 1 .. n + k /\ j - n \in i + 1 .. k
    BY <1>1
  <2>3. \A j \in (n + i) + 1 .. n + k : ~IsMoveOf(u[j], w)
    BY <1>3, <2>1, <2>2
  <2>4. IsMoveOf(u[n + i], w) /\ u[n + i].new = v
    BY <1>2, <2>1
  <2>5. QED BY <1>1, <2>2, <2>3, <2>4 DEF Tells
<1>6. QED BY <1>4, <1>5 DEF Tells
\* Steps that keep what the transaction has written.
LEMMA SameDiffers ==
  ASSUME NEW r, NEW n, Differs(r), n.rows = r.rows,
         n.pc \notin {"pointer", "latest", "insert"}
  PROVE  Differs(n)
BY DEF Differs

LEMMA SameTells ==
  ASSUME NEW r, NEW n, LogTells(r), n.log = r.log, n.moved = r.moved
  PROVE  LogTells(n)
BY DEF LogTells

LEMMA SameOff ==
  ASSUME NEW r, NEW n, OffBuiltin(r), n.op = r.op, n.moved = r.moved,
         n.pc \in {"reload", "move"} /\ r.op = "sync" => PublishesBuiltin(n)
  PROVE  OffBuiltin(n)
BY DEF OffBuiltin

\* A transaction that has written nothing yet.
LEMMA EmptySingle ==
  ASSUME AloneInv, NEW n, n.rows = {}, n.log = <<>>, \A w \in Workflow : n.moved[w] = None,
         n.pc \notin {"insert", "reload", "move"}, n.pc = "latest" => n.op = "create",
         n.pc = "pointer" => n.op # "sync"
  PROVE  Single(n)
<1>1. Fresh(n) /\ OffBuiltin(n)
  BY DEF Fresh, OffBuiltin
<1>2. LogTells(n)
  <2>1. Len(n.log) = 0
    OBVIOUS
  <2>2. QED BY <2>1 DEF LogTells, Tells
<1>3. Differs(n)
  BY DEF Differs, AloneInv
<1>4. QED BY <1>1, <1>2, <1>3 DEF Single

LEMMA BeganSingle ==
  ASSUME AloneInv, NEW p \in Process, Began(p) \/ Rested(p)
  PROVE  Single(req'[p])
<1>1. CASE Began(p)
  BY <1>1, EmptySingle DEF Began
<1>2. CASE Rested(p)
  BY <1>2, EmptySingle, RestingFields, RestingMore DEF Rested
<1>3. QED BY <1>1, <1>2

LEMMA ReadSingle ==
  ASSUME AloneInv, NEW p \in Process,
         ReadBuiltin(p) \/ ReadPointer(p) \/ ReadLatest(p) \/ ReloadPointer(p)
  PROVE  Single(req'[p])
<1>0. IInv
  BY DEF AloneInv, ShapeInv
<1>1. PICK r, n : r = req[p] /\ n = req'[p]
  OBVIOUS
<1>2. Single(r) /\ View(p) = versions \cup r.rows
  BY <1>1 DEF AloneInv, View
<1>3. CASE ReadBuiltin(p)
  <2>1. CASE Onward(n, r)
    <3>1. n.pc \in {"builtin", "commit"} /\ SameWork(n, r)
      BY <2>1 DEF Onward
    <3>2. QED BY <1>1, <1>2, <3>1, SameDiffers, SameTells, SameOff
              DEF Single, Fresh, SameWork
  <2>2. CASE ~ Onward(n, r)
    <3>1. /\ SameWork(n, r) /\ SameGoal(n, r) /\ n.pc = "pointer"
          /\ \A b \in BuiltinsOf(View(p), r.wf) :
               IsLatest(b, BuiltinsOf(View(p), r.wf)) => b.text # n.text
      BY <1>0, <1>1, <1>3, <2>2, ReadBuiltinStep
    <3>2. Differs(n)
      BY <1>2, <3>1 DEF Differs, SameWork, SameGoal, Single
    <3>3. QED BY <1>1, <1>2, <3>1, <3>2, SameTells, SameOff DEF Single, Fresh, SameWork
  <2>3. QED BY <2>1, <2>2
<1>4. CASE ReadPointer(p)
  <2>1. CASE Rested(p)
    BY <2>1, BeganSingle
  <2>2. CASE ~ Rested(p)
    <3>1. /\ SameWork(n, r) /\ SameGoal(n, r) /\ n.text = r.text /\ r.pc = "pointer"
          /\ n.cached = active[r.wf]
          /\ n.pc = IF r.op \in {"draft", "sync"} THEN "latest" ELSE "reload"
          /\ r.op # "create"
      BY <1>0, <1>1, <1>4, <2>2, ReadPointerStep
    <3>2. Differs(n)
      BY <1>2, <3>1 DEF Differs, SameWork, SameGoal, Single
    <3>3. Fresh(n)
      BY <3>1 DEF Fresh, SameGoal, SameWork
    <3>4. OffBuiltin(n)
      BY <1>2, <3>1, SameOff DEF Single, SameWork
    <3>5. QED BY <1>1, <1>2, <3>1, <3>2, <3>3, <3>4, SameTells DEF Single, SameWork
  <2>3. QED BY <2>1, <2>2
<1>5. CASE ReadLatest(p)
  <2>1. /\ SameWork(n, r) /\ SameGoal(n, r) /\ n.text = r.text /\ n.cached = r.cached
        /\ r.pc = "latest" /\ n.pc = "insert"
        /\ \A s \in RowsOf(View(p), r.wf) : s.seq <= n.prevSeq
    BY <1>0, <1>1, <1>5, ReadLatestStep
  <2>2. Differs(n)
    BY <1>2, <2>1 DEF Differs, SameWork, SameGoal, Single
  <2>3. Fresh(n)
    BY <1>2, <2>1 DEF Fresh, SameWork, SameGoal, Single
  <2>4. OffBuiltin(n)
    BY <1>2, <2>1, SameOff DEF Single, SameWork
  <2>5. QED BY <1>1, <1>2, <2>1, <2>2, <2>3, <2>4, SameTells DEF Single, SameWork
<1>6. CASE ReloadPointer(p)
  <2>1. /\ SameWork(n, r) /\ SameGoal(n, r) /\ n.cached = r.cached
        /\ n.loaded = active[r.wf] /\ r.pc = "reload" /\ n.pc = "move"
    BY <1>0, <1>1, <1>6, ReloadStep
  <2>2. Differs(n)
    BY <1>2, <2>1, SameDiffers DEF SameWork, Single
  <2>3. Fresh(n)
    BY <1>2, <2>1 DEF Fresh, SameWork, SameGoal, Single
  <2>4. OffBuiltin(n)
    BY <1>2, <2>1, SameOff DEF Single, SameWork, OffBuiltin, PublishesBuiltin
  <2>5. QED BY <1>1, <1>2, <2>1, <2>2, <2>3, <2>4, SameTells DEF Single, SameWork
<1>7. QED BY <1>3, <1>4, <1>5, <1>6

\* A row after all others of its workflow, whose text the latest built-in has not.
LEMMA ChangedGrows ==
  ASSUME NEW rows \in SUBSET Row, NEW row \in Row, Changed(rows),
         \A s \in RowsOf(rows, row.wf) : s.seq < row.seq,
         row.source = "builtin" =>
           \A b \in BuiltinsOf(rows, row.wf) :
             IsLatest(b, BuiltinsOf(rows, row.wf)) => b.text # row.text
  PROVE  Changed(rows \cup {row})
<1>1. SUFFICES ASSUME NEW r \in rows \cup {row}, NEW s \in rows \cup {row},
                      r.wf = s.wf, r.seq < s.seq, r.source = "builtin", s.source = "builtin",
                      \A t \in rows \cup {row} : ~ /\ t.wf = r.wf /\ t.source = "builtin"
                                                   /\ r.seq < t.seq /\ t.seq < s.seq
               PROVE  r.text # s.text
  BY DEF Changed
<1>2. /\ r.seq \in Nat /\ s.seq \in Nat /\ row.seq \in Nat
      /\ \A t \in rows : t.seq \in Nat
  BY DEF Row
<1>3. CASE r \in rows /\ s \in rows
  BY <1>1, <1>3 DEF Changed
<1>4. CASE r \in rows /\ s = row
  <2>1. r \in BuiltinsOf(rows, row.wf)
    BY <1>1, <1>4 DEF BuiltinsOf, RowsOf
  <2>2. \A t \in BuiltinsOf(rows, row.wf) : t.seq <= r.seq
    <3>1. SUFFICES ASSUME NEW t \in rows, t.wf = row.wf, t.source = "builtin", r.seq < t.seq
                   PROVE  FALSE
      BY <1>2 DEF BuiltinsOf, RowsOf
    <3>2. t.seq < row.seq
      BY <3>1 DEF RowsOf
    <3>3. QED BY <1>1, <1>4, <3>1, <3>2
  <2>3. QED BY <1>1, <1>4, <2>1, <2>2 DEF IsLatest
<1>5. CASE r = row
  <2>1. s \in RowsOf(rows, row.wf)
    BY <1>1, <1>2, <1>5 DEF RowsOf
  <2>2. s.seq < row.seq
    BY <2>1
  <2>3. QED BY <1>1, <1>2, <1>5, <2>2
<1>6. QED BY <1>3, <1>4, <1>5

LEMMA InsertSingle ==
  ASSUME AloneInv, NEW p \in Process, InsertVersion(p)
  PROVE  Single(req'[p])
<1>0. IInv
  BY DEF AloneInv, ShapeInv
<1>1. PICK r, n, row, rows :
        r = req[p] /\ n = req'[p] /\ row = NewRow(r) /\ rows = versions \cup r.rows
  OBVIOUS
<1>2. /\ Single(r) /\ Shape(r) /\ Logged(r) /\ r \in Request /\ r.pc = "insert"
      /\ row \in Row /\ row.wf = r.wf /\ row.seq = r.prevSeq + 1 /\ row.text = r.text
      /\ (row.source = "builtin" <=> r.op = "sync") /\ rows \in SUBSET Row
  <2>1. r \in Request /\ rows \in SUBSET Row /\ Single(r) /\ Shape(r) /\ Logged(r)
    BY <1>0, <1>1 DEF AloneInv, ShapeInv, IInv, TypeOK, Request
  <2>2. row \in Row /\ r.pc = "insert"
    BY <1>0, <1>1, InsertStep
  <2>3. QED BY <1>1, <2>1, <2>2 DEF NewRow
<1>3. Changed(rows \cup {row})
  <2>1. /\ Changed(rows) /\ \A s \in RowsOf(rows, r.wf) : s.seq <= r.prevSeq
        /\ r.op = "sync" => \A b \in BuiltinsOf(rows, r.wf) :
                              IsLatest(b, BuiltinsOf(rows, r.wf)) => b.text # r.text
    BY <1>1, <1>2 DEF Single, Differs
  <2>2. r.prevSeq \in Nat /\ \A s \in RowsOf(rows, r.wf) : s.seq \in Nat
    BY <1>2 DEF Request, Row, RowsOf
  <2>3. \A s \in RowsOf(rows, row.wf) : s.seq < row.seq
    BY <1>2, <2>1, <2>2
  <2>4. QED BY <1>2, <2>1, <2>3, ChangedGrows
<1>4. ASSUME n.rows = r.rows \cup {row}, n.pc \notin {"pointer", "latest", "insert"}
      PROVE  Differs(n)
  <2>1. versions \cup n.rows = rows \cup {row}
    BY <1>1, <1>4
  <2>2. QED BY <1>3, <1>4, <2>1 DEF Differs
<1>5. CASE r.op # "sync"
  <2>1. PICK e : e = SaveEntry(r, row)
    OBVIOUS
  <2>2. /\ n.rows = r.rows \cup {row} /\ n.moved = r.moved /\ n.op = r.op
        /\ n.pc = "commit" /\ n.log = Append(r.log, e) /\ r.log = <<>>
    BY <1>0, <1>1, <1>2, <1>5, <2>1, InsertStep DEF Shape, Inserted
  <2>3. Len(n.log) = 1 /\ n.log[1] = e
    BY <2>2
  <2>4. \A w \in Workflow : n.moved[w] = None
    BY <1>2, <2>2 DEF Logged
  <2>5. \A w \in Workflow : ~IsMoveOf(e, w)
    BY <2>1 DEF SaveEntry, IsMoveOf, PointerAction
  <2>6. LogTells(n)
    BY <2>3, <2>4, <2>5 DEF LogTells, Tells
  <2>7. Fresh(n) /\ OffBuiltin(n)
    BY <1>5, <2>2 DEF Fresh, OffBuiltin
  <2>8. QED BY <1>1, <1>4, <2>2, <2>6, <2>7 DEF Single
<1>6. CASE r.op = "sync"
  <2>1. /\ n.rows = r.rows \cup {row} /\ n.moved = r.moved /\ n.op = r.op /\ n.log = r.log
        /\ \/ n.pc = "reload" /\ n.cached = r.cached /\ n.wf = r.wf /\ PublishesBuiltin(r)
           \/ n.pc \in {"builtin", "commit"}
    <3>1. CASE Inserted(n, r) /\ n.pc = "reload" /\ n.log = r.log /\ PublishesBuiltin(r)
      BY <1>1, <3>1 DEF Inserted, SameGoal
    <3>2. CASE \E s : Inserted(s, r) /\ s.log = r.log /\ Onward(n, s)
      BY <1>1, <3>2 DEF Inserted, Onward, SameWork
    <3>3. QED BY <1>0, <1>1, <1>6, <3>1, <3>2, InsertStep
  <2>2. Differs(n)
    BY <1>4, <2>1
  <2>3. Fresh(n)
    BY <1>2, <1>6, <2>1 DEF Fresh, Single
  <2>4. OffBuiltin(n)
    BY <1>2, <2>1, SameOff DEF Single, PublishesBuiltin
  <2>5. QED BY <1>1, <1>2, <2>1, <2>2, <2>3, <2>4, SameTells DEF Single
<1>7. QED BY <1>5, <1>6

\* A move starts where the committed pointer is: the transaction has no other of that
\* workflow.
LEMMA MovedTells ==
  ASSUME NEW r \in Request, Shape(r), Logged(r), LogTells(r), NEW m, MovedBy(m, r),
         MoveEntry(r) \in Entry, r.pc = "move", r.target # None, r.cached = active[r.wf],
         r.loaded = active[r.wf]
  PROVE  LogTells(m)
<1>1. PICK e, log, n : e = MoveEntry(r) /\ log = m.log /\ n = Len(r.log)
  OBVIOUS
<1>2. /\ log \in Seq(Entry) /\ Len(log) = n + 1 /\ n \in Nat
      /\ \A i \in 1..n : log[i] = r.log[i]
      /\ log[n + 1] = e /\ IsMoveOf(e, r.wf)
  BY <1>1, MovedLog
<1>3. /\ e.old = active[r.wf] /\ e.new = r.target /\ e.wf = r.wf
      /\ m.moved = [r.moved EXCEPT ![r.wf] = IF active[r.wf] = r.target THEN None ELSE r.target]
  BY <1>1 DEF MoveEntry, MovedBy
<1>4. r.moved \in [Workflow -> Nat] /\ r.wf \in Workflow
  BY DEF Request
<1>5. ASSUME NEW w \in Workflow, NEW i \in 1..n, IsMoveOf(log[i], w)
      PROVE  Tells(log, w, i - 1, active[w], log[i].old)
  <2>1. log[i] = r.log[i] /\ Tells(r.log, w, i - 1, active[w], r.log[i].old)
    BY <1>1, <1>2, <1>5 DEF LogTells
  <2>2. i - 1 \in Nat /\ \A j \in 1 .. i - 1 : j \in 1..n
    BY <1>2
  <2>3. \A j \in 1 .. i - 1 : r.log[j] = log[j]
    BY <1>2, <2>2
  <2>4. QED BY <2>1, <2>2, <2>3, TellsSame
<1>6. ASSUME NEW w \in Workflow, w # r.wf
      PROVE  /\ ~IsMoveOf(log[n + 1], w)
             /\ Tells(log, w, n + 1, active[w],
                      IF m.moved[w] = None THEN active[w] ELSE m.moved[w])
  <2>1. ~IsMoveOf(log[n + 1], w)
    BY <1>2, <1>3, <1>6 DEF IsMoveOf
  <2>2. m.moved[w] = r.moved[w]
    BY <1>3, <1>4, <1>6
  <2>3. PICK v : v = IF m.moved[w] = None THEN active[w] ELSE m.moved[w]
    OBVIOUS
  <2>4. Tells(r.log, w, n, active[w], v)
    BY <1>1, <2>2, <2>3 DEF LogTells
  <2>5. Tells(log, w, n, active[w], v)
    BY <1>2, <2>4, TellsSame
  <2>6. Tells(log, w, n + 1, active[w], v)
    BY <1>2, <2>1, <2>5, TellsSkip
  <2>7. QED BY <2>1, <2>3, <2>6
<1>7. /\ Tells(log, r.wf, n, active[r.wf], e.old)
      /\ Tells(log, r.wf, n + 1, active[r.wf],
               IF m.moved[r.wf] = None THEN active[r.wf] ELSE m.moved[r.wf])
  <2>1. \A i \in 1..n : ~IsMoveOf(log[i], r.wf)
    BY <1>1, <1>2 DEF Shape, SyncShape, IsMoveOf
  <2>2. Tells(log, r.wf, n, active[r.wf], e.old)
    BY <1>3, <2>1 DEF Tells
  <2>3. (IF m.moved[r.wf] = None THEN active[r.wf] ELSE m.moved[r.wf]) = e.new
    BY <1>3, <1>4
  <2>4. n + 1 \in 1 .. n + 1 /\ \A j \in (n + 1) + 1 .. n + 1 : FALSE
    BY <1>2
  <2>5. Tells(log, r.wf, n + 1, active[r.wf], e.new)
    BY <1>2, <2>4 DEF Tells
  <2>6. QED BY <2>2, <2>3, <2>5
<1>8. ASSUME NEW w \in Workflow, NEW i \in 1..Len(log), IsMoveOf(log[i], w)
      PROVE  Tells(log, w, i - 1, active[w], log[i].old)
  <2>1. CASE i \in 1..n
    BY <1>5, <1>8, <2>1
  <2>2. CASE i = n + 1
    <3>1. w = r.wf /\ i - 1 = n /\ log[i] = e
      BY <1>2, <1>6, <1>8, <2>2
    <3>2. QED BY <1>7, <3>1
  <2>3. QED BY <1>2, <2>1, <2>2
<1>9. \A w \in Workflow : Tells(log, w, Len(log), active[w],
                                IF m.moved[w] = None THEN active[w] ELSE m.moved[w])
  BY <1>2, <1>6, <1>7
<1>10. QED BY <1>1, <1>8, <1>9 DEF LogTells
LEMMA MoveSingle ==
  ASSUME AloneInv, NEW p \in Process, MovePointer(p)
  PROVE  Single(req'[p])
<1>0. IInv
  BY DEF AloneInv, ShapeInv
<1>1. PICK r, n : r = req[p] /\ n = req'[p]
  OBVIOUS
<1>2. /\ Single(r) /\ Shape(r) /\ Logged(r) /\ r \in Request /\ r.pc = "move"
      /\ MoveEntry(r) \in Entry /\ r.target # None
  BY <1>0, <1>1, MoveStep DEF AloneInv, ShapeInv, IInv, ReqInv
<1>3. r.cached = active[r.wf] /\ r.loaded = active[r.wf]
  BY <1>2 DEF Single, Fresh
<1>4. PICK m : /\ MovedBy(m, r)
               /\ \/ r.op # "sync" /\ n = m /\ n.pc = "commit"
                  \/ r.op = "sync" /\ Onward(n, m)
  BY <1>0, <1>1, MoveStep
<1>5. LogTells(m)
  <2>1. MovedBy(m, r) /\ LogTells(r)
    BY <1>2, <1>4 DEF Single
  <2>2. QED BY <1>2, <1>3, <2>1, MovedTells
<1>6. /\ m.rows = r.rows /\ m.op = r.op /\ n.rows = m.rows /\ n.log = m.log
      /\ n.moved = m.moved /\ n.op = m.op /\ n.pc \in {"builtin", "commit"}
  BY <1>4 DEF MovedBy, Onward, SameWork
<1>7. LogTells(n)
  BY <1>5, <1>6, SameTells
<1>8. Differs(n)
  BY <1>2, <1>6, SameDiffers DEF Single
<1>9. Fresh(n)
  BY <1>6 DEF Fresh
<1>10. OffBuiltin(n)
  <2>1. SUFFICES ASSUME r.op = "sync", NEW w \in Workflow, m.moved[w] # None, active[w] # None
                 PROVE  RowAt(versions, active[w]).source = "builtin"
    BY <1>6 DEF OffBuiltin
  <2>2. CASE w = r.wf
    BY <1>2, <1>3, <2>1, <2>2 DEF Single, OffBuiltin, PublishesBuiltin
  <2>3. CASE w # r.wf
    <3>1. m.moved[w] = r.moved[w]
      BY <1>2, <1>4, <2>3 DEF MovedBy, Request
    <3>2. QED BY <1>2, <2>1, <3>1 DEF Single, OffBuiltin
  <2>4. QED BY <2>2, <2>3
<1>11. QED BY <1>1, <1>7, <1>8, <1>9, <1>10 DEF Single

\* The committed trail goes on with the transaction's log.
LEMMA CommitLineage ==
  ASSUME AloneInv, NEW p \in Process, Commit(p)
  PROVE  AuditLineage'
<1>0. IInv
  BY DEF AloneInv, ShapeInv
<1>1. PICK r, log, n, k :
        r = req[p] /\ log = r.log /\ n = Len(audit) /\ k = Len(log)
  OBVIOUS
<1>2. /\ audit' = audit \o log /\ audit \in Seq(Entry) /\ log \in Seq(Entry)
      /\ \A w \in Workflow : active'[w] = IF r.moved[w] = None THEN active[w] ELSE r.moved[w]
  BY <1>0, <1>1, CommitStep
<1>3. /\ n \in Nat /\ k \in Nat /\ Len(audit') = n + k
      /\ \A i \in 1..n : audit'[i] = audit[i]
      /\ \A i \in 1..k : audit'[n + i] = log[i]
  BY <1>1, <1>2, ConcatProperties
<1>4. SUFFICES ASSUME NEW w \in Workflow
               PROVE  /\ \A i \in 1 .. n + k : IsMoveOf(audit'[i], w) =>
                           Tells(audit', w, i - 1, None, audit'[i].old)
                      /\ Tells(audit', w, n + k, None, active'[w])
  BY <1>3 DEF AuditLineage, Tells, IsMoveOf
<1>5. /\ \A i \in 1..n : IsMoveOf(audit[i], w) => Tells(audit, w, i - 1, None, audit[i].old)
      /\ Tells(audit, w, n, None, active[w])
  BY <1>1 DEF AloneInv, AuditLineage
<1>6. /\ \A i \in 1..k : IsMoveOf(log[i], w) => Tells(log, w, i - 1, active[w], log[i].old)
      /\ Tells(log, w, k, active[w], active'[w])
  BY <1>1, <1>2 DEF AloneInv, Single, LogTells
<1>7. ASSUME NEW i \in 1..n, IsMoveOf(audit'[i], w)
      PROVE  Tells(audit', w, i - 1, None, audit'[i].old)
  <2>1. audit'[i] = audit[i] /\ Tells(audit, w, i - 1, None, audit[i].old)
    BY <1>3, <1>5, <1>7
  <2>2. i - 1 \in Nat /\ \A j \in 1 .. i - 1 : j \in 1..n
    BY <1>3
  <2>3. \A j \in 1 .. i - 1 : audit[j] = audit'[j]
    BY <1>3, <2>2
  <2>4. QED BY <2>1, <2>2, <2>3, TellsSame
<1>8. ASSUME NEW i \in 1..k, IsMoveOf(audit'[n + i], w)
      PROVE  Tells(audit', w, (n + i) - 1, None, audit'[n + i].old)
  <2>1. audit'[n + i] = log[i] /\ Tells(log, w, i - 1, active[w], log[i].old)
    BY <1>3, <1>6, <1>8
  <2>2. i - 1 \in 0..k /\ n + (i - 1) = (n + i) - 1
    BY <1>3
  <2>3. Tells(audit', w, n + (i - 1), None, log[i].old)
    BY <1>1, <1>2, <1>5, <2>1, <2>2, TellsChain
  <2>4. QED BY <2>1, <2>2, <2>3
<1>9. Tells(audit', w, n + k, None, active'[w])
  <2>1. k \in 0..k
    BY <1>3
  <2>2. QED BY <1>1, <1>2, <1>5, <1>6, <2>1, TellsChain
<1>10. ASSUME NEW i \in 1 .. n + k, IsMoveOf(audit'[i], w)
       PROVE  Tells(audit', w, i - 1, None, audit'[i].old)
  <2>1. CASE i \in 1..n
    BY <1>7, <1>10, <2>1
  <2>2. CASE i \notin 1..n
    <3>1. PICK j \in 1..k : i = n + j
      <4>1. i - n \in 1..k /\ i = n + (i - n)
        BY <1>3, <2>2
      <4>2. QED BY <4>1
    <3>2. QED BY <1>8, <1>10, <3>1
  <2>3. QED BY <2>1, <2>2
<1>11. QED BY <1>9, <1>10

LEMMA NextAlone ==
  ASSUME AloneInv, [Next]_vars
  PROVE  AloneInv'
<1>0. IInv /\ Alone /\ Alone' /\ ShapeInv'
  BY NextShape DEF AloneInv, ShapeInv, Alone
<1>1. ASSUME NEW p \in Process, Kept, Single(req'[p]) PROVE AloneInv'
  <2>1. \A q \in Process : q = p
    BY <1>0 DEF Alone
  <2>2. \A q \in Process : Single(req[q])'
    BY <1>1, <2>1
       DEF Single, Fresh, OffBuiltin, LogTells, Differs, Kept, PublishesBuiltin
  <2>3. AuditLineage' /\ Changed(versions)'
    BY <1>1 DEF AloneInv, AuditLineage, Kept, Tells
  <2>4. QED BY <1>0, <2>2, <2>3 DEF AloneInv
<1>2. ASSUME NEW p \in Process,
             \/ Began(p) \/ Rested(p) \/ ReadBuiltin(p) \/ ReadPointer(p) \/ ReadLatest(p)
             \/ InsertVersion(p) \/ ReloadPointer(p) \/ MovePointer(p)
      PROVE  AloneInv'
  <2>1. Kept
    BY <1>0, <1>2, ReadBuiltinStep, ReadPointerStep, ReadLatestStep, InsertStep, ReloadStep,
       MoveStep DEF Began, Rested
  <2>2. QED BY <1>1, <1>2, <2>1, BeganSingle, ReadSingle, InsertSingle, MoveSingle
<1>3. ASSUME NEW p \in Process, Commit(p) PROVE AloneInv'
  <2>1. \A q \in Process : q = p
    BY <1>0 DEF Alone
  <2>2. versions' = View(p) /\ req'[p] = Resting("idle")
    BY <1>0, <1>3, CommitStep
  <2>3. Changed(versions)'
    <3>1. Changed(View(p))
      BY DEF AloneInv, Single, Differs, View
    <3>2. QED BY <2>2, <3>1 DEF Changed
  <2>4. Single(req[p])'
    <3>1. PICK n : n = req'[p]
      OBVIOUS
    <3>2. /\ n.rows = {} /\ n.log = <<>> /\ n.pc = "idle" /\ n.op = "none"
          /\ \A w \in Workflow : n.moved[w] = None
      BY <2>2, <3>1, RestingFields, RestingMore
    <3>3. Fresh(n)' /\ OffBuiltin(n)' /\ Differs(n)'
      BY <2>3, <3>2 DEF Fresh, OffBuiltin, Differs
    <3>4. LogTells(n)'
      <4>1. Len(n.log) = 0
        BY <3>2
      <4>2. QED BY <3>2, <4>1 DEF LogTells, Tells
    <3>5. QED BY <3>1, <3>3, <3>4 DEF Single, Fresh, OffBuiltin, Differs, LogTells
  <2>5. QED BY <1>0, <1>3, <2>1, <2>3, <2>4, CommitLineage DEF AloneInv
<1>4. CASE UNCHANGED vars
  <2>1. Kept /\ req' = req
    BY <1>4 DEF vars, Kept
  <2>2. CASE \E p \in Process : TRUE
    BY <1>1, <2>1, <2>2 DEF AloneInv
  <2>3. QED BY <2>2, NamesAssumption
<1>5. QED BY <1>0, <1>2, <1>3, <1>4, TrailCases

LEMMA InitAlone == Alone /\ Init => AloneInv
<1> SUFFICES ASSUME Alone, Init PROVE AloneInv
  OBVIOUS
<1>1. versions = {} /\ audit = <<>> /\ active = NoMoves /\ \A p \in Process : req[p] = Resting("down")
  BY DEF Init
<1>2. AuditLineage
  <2>1. Len(audit) = 0 /\ \A w \in Workflow : active[w] = None
    BY <1>1 DEF NoMoves
  <2>2. QED BY <2>1 DEF AuditLineage, Tells
<1>3. Changed(versions)
  BY <1>1 DEF Changed
<1>4. Single(Resting("down"))
  <2>1. PICK n : n = Resting("down")
    OBVIOUS
  <2>2. /\ n.rows = {} /\ n.log = <<>> /\ n.pc = "down" /\ n.op = "none"
        /\ \A w \in Workflow : n.moved[w] = None
    BY <2>1, RestingFields, RestingMore
  <2>3. Fresh(n) /\ OffBuiltin(n) /\ Differs(n)
    BY <1>3, <2>2 DEF Fresh, OffBuiltin, Differs
  <2>4. LogTells(n)
    <3>1. Len(n.log) = 0
      BY <2>2
    <3>2. QED BY <2>2, <3>1 DEF LogTells, Tells
  <2>5. QED BY <2>1, <2>3, <2>4 DEF Single
<1>5. QED BY <1>1, <1>2, <1>3, <1>4, InitShape DEF AloneInv

LEMMA AloneHolds == Alone /\ Spec => []AloneInv
BY InitAlone, NextAlone, PTL DEF Spec

\* With one backend process the audit trail is a complete history of the pointer: each
\* move starts where the previous one ended.  (Two processes break it: each logs the
\* pointer it read.)
THEOREM LineageCorrect == Alone /\ Spec => []AuditLineage
<1>1. AloneInv => AuditLineage
  BY DEF AloneInv
<1>2. QED BY <1>1, AloneHolds, PTL

\* With one backend process a restart with the same build records nothing: a sync
\* inserts a built-in only when the latest one has another text.
THEOREM RestartRecordsNothing == Alone /\ Spec => []NoBuiltinTwice
<1>1. AloneInv => NoBuiltinTwice
  BY DEF AloneInv, Changed, NoBuiltinTwice
<1>2. QED BY <1>1, AloneHolds, PTL

\* With one backend process a shipped update never replaces an admin's published
\* version.
THEOREM AdminChoiceCorrect == Alone /\ Spec => AdminChoiceKept
<1>1. ASSUME AloneInv, [Next]_vars
      PROVE  \A p \in Process, w \in Workflow :
               (req[p].op = "sync" /\ active'[w] # active[w] /\ active[w] # None
                /\ req'[p].op # "sync")
                  => RowAt(versions, active[w]).source = "builtin"
  <2>0. IInv
    BY <1>1 DEF AloneInv, ShapeInv
  <2>1. SUFFICES ASSUME NEW p \in Process, NEW w \in Workflow, req[p].op = "sync",
                        active'[w] # active[w], active[w] # None
                 PROVE  RowAt(versions, active[w]).source = "builtin"
    OBVIOUS
  <2>2. PICK q \in Process : Commit(q)
    BY <1>1, <2>0, <2>1, OnlyCommitMoves DEF Kept
  <2>3. q = p
    BY <1>1 DEF AloneInv, Alone
  <2>4. req[p].moved[w] # None
    BY <2>0, <2>1, <2>2, <2>3, CommitStep
  <2>5. QED BY <1>1, <2>1, <2>4 DEF AloneInv, Single, OffBuiltin
<1>2. AloneInv /\ [Next]_vars =>
        [\A p \in Process, w \in Workflow :
           (req[p].op = "sync" /\ active'[w] # active[w] /\ active[w] # None
            /\ req'[p].op # "sync")
              => RowAt(versions, active[w]).source = "builtin"]_vars
  BY <1>1
<1>3. QED BY <1>2, AloneHolds, PTL DEF Spec, AdminChoiceKept
=================================================================================
