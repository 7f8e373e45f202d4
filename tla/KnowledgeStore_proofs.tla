------------------------ MODULE KnowledgeStore_proofs --------------------------
(***************************************************************************)
(* Theorems about KnowledgeStore for any number of backend processes,       *)
(* requests, documents, contents and faults.                                *)
(***************************************************************************)
EXTENDS KnowledgeStore, FiniteSetTheorems, TLAPS

Holding == [pc : {"put", "stored", "cleanup", "drop", "read"}, proc : Process, doc : Docs]
Updating == [pc : {"update"}, proc : Process, doc : Docs,
             content : Contents, was : Contents, key : BOOLEAN]
Deleting == [pc : {"delete"}, proc : Process, doc : Docs, seen : SUBSET BatchRow]

\* The fields of a handler, by the statement it is at.
LEMMA HandlerFields ==
  ASSUME NEW h \in Handler
  PROVE  /\ h.pc \in {"put", "stored", "cleanup", "drop", "read"} => h \in Holding
         /\ h.pc = "update" => h \in Updating
         /\ h.pc = "delete" => h \in Deleting
         /\ h.pc # "idle" => h.doc \in Docs /\ h.proc \in Process
         /\ h.pc \in {"idle", "put", "stored", "cleanup", "drop", "read", "update", "delete"}
BY DEF Handler, Holding, Updating, Deleting

\* And the other way round.
LEMMA HandlerKinds ==
  /\ Resting \in Handler
  /\ Holding \subseteq Handler
  /\ Updating \subseteq Handler
  /\ Deleting \subseteq Handler
BY DEF Handler, Holding, Updating, Deleting, Resting

\* What an INSERT or UPDATE of a row, and the purge, leave the table as.
LEMMA WriteType ==
  ASSUME TypeOK, NEW d \in Docs, NEW row \in Row, Write(d, row)
  PROVE  /\ rows' \in [DOMAIN rows' -> Row] /\ DOMAIN rows' \subseteq Docs
         /\ DOMAIN rows' = DOMAIN rows \cup {d}
         /\ rows'[d] = row
         /\ \A e \in DOMAIN rows \ {d} : rows'[e] = rows[e]
BY DEF Write, TypeOK

LEMMA RemovedType ==
  ASSUME TypeOK, NEW ds, rows' = Removed(ds)
  PROVE  /\ rows' \in [DOMAIN rows' -> Row] /\ DOMAIN rows' \subseteq Docs
         /\ DOMAIN rows' = DOMAIN rows \ ds
         /\ \A e \in DOMAIN rows' : rows'[e] = rows[e]
BY DEF Removed, TypeOK

\* One handler of type Handler in the place of another keeps the whole state well typed.
LEMMA SetHandler ==
  ASSUME req \in [Request -> Handler], NEW q \in Request, NEW h \in Handler,
         req' = [req EXCEPT ![q] = h]
  PROVE  req' \in [Request -> Handler]
OBVIOUS

LEMMA InitType == Init => TypeOK
BY BoundAssumption DEF Init, TypeOK, Resting, NoSweep, Handler, Process


\* The actions keep types: those that commit rows, those of the sweep, the rest.
LEMMA WritersType ==
  ASSUME TypeOK,
         \/ \E p \in Process, d \in Docs : CreateText(p, d)
         \/ \E q \in Request : UploadCommits(q) \/ CommitUpdate(q) \/ CommitDelete(q)
         \/ \E d \in Docs : Expire(d)
  PROVE  TypeOK'
<1>1. ASSUME NEW d \in Docs, NEW content \in Contents, NEW key \in BOOLEAN,
             Insert(d, content, key), batches < MaxBatches
      PROVE  /\ rows' \in [DOMAIN rows' -> Row] /\ DOMAIN rows' \subseteq Docs
             /\ chunks' \subseteq BatchRow /\ batches' \in 0 .. MaxBatches
  <2>1. [state |-> "live", content |-> content, key |-> key] \in Row
    BY DEF Row, State
  <2>2. Batch(d, content) \in BatchRow
    BY BoundAssumption DEF TypeOK, Batch, BatchRow
  <2>3. batches' \in 0 .. MaxBatches
    BY <1>1, BoundAssumption DEF Insert, TypeOK
  <2>4. rows' \in [DOMAIN rows' -> Row] /\ DOMAIN rows' \subseteq Docs
    BY <1>1, <2>1, WriteType DEF Insert
  <2>5. chunks' \subseteq BatchRow
    BY <1>1, <2>2 DEF Insert, TypeOK
  <2>6. QED
    BY <2>3, <2>4, <2>5
<1>2. ASSUME NEW p \in Process, NEW d \in Docs, CreateText(p, d) PROVE TypeOK'
  <2>1. PICK content \in Contents : Insert(d, content, FALSE)
    BY <1>2 DEF CreateText
  <2>2. QED
    BY <1>1, <1>2, <2>1 DEF CreateText, TypeOK
<1>3. ASSUME NEW q \in Request, UploadCommits(q) PROVE TypeOK'
  <2>1. req[q].doc \in Docs
    BY <1>3, HandlerFields DEF UploadCommits, TypeOK
  <2>2. PICK content \in Contents : Insert(req[q].doc, content, TRUE)
    BY <1>3 DEF UploadCommits
  <2>3. req' \in [Request -> Handler]
    BY <1>3, HandlerKinds, SetHandler DEF UploadCommits, Respond, TypeOK
  <2>4. QED
    BY <1>1, <1>3, <2>1, <2>2, <2>3 DEF UploadCommits, TypeOK
<1>4. ASSUME NEW q \in Request, CommitUpdate(q) PROVE TypeOK'
  <2> DEFINE d == req[q].doc
             row == [rows[d] EXCEPT
                 !.content = IF req[q].content # req[q].was THEN req[q].content ELSE @,
                 !.key = KeyAfterUpdate(d)]
             next == IF req[q].key
                     THEN [pc |-> "drop", proc |-> req[q].proc, doc |-> d] ELSE Resting
  <2>1. /\ d \in Docs /\ d \in DOMAIN rows
        /\ req[q].content \in Contents /\ req[q].proc \in Process
    BY <1>4, HandlerFields DEF CommitUpdate, TypeOK, Stored, Updating
  <2>2. row \in Row
    BY <2>1 DEF TypeOK, Row, KeyAfterUpdate
  <2>3. Write(d, row) /\ req' = [req EXCEPT ![q] = next] /\ chunks' = Replaced(d, req[q].content)
    BY <1>4 DEF CommitUpdate
  <2>4. next \in Handler
    BY <2>1, HandlerKinds DEF Holding
  <2>5. req' \in [Request -> Handler]
    BY <2>3, <2>4, SetHandler DEF TypeOK
  <2>6. chunks' \subseteq BatchRow
    <3>1. Batch(d, req[q].content) \in BatchRow
      BY <2>1, BoundAssumption DEF TypeOK, Batch, BatchRow
    <3>2. QED
      BY <2>3, <3>1 DEF Replaced, TypeOK
  <2>7. rows' \in [DOMAIN rows' -> Row] /\ DOMAIN rows' \subseteq Docs
    BY <2>1, <2>2, <2>3, WriteType
  <2>8. batches' \in 0 .. MaxBatches
    <3>1. batches' = batches + 1 /\ batches < MaxBatches
      BY <1>4 DEF CommitUpdate
    <3>2. QED
      BY <3>1, BoundAssumption DEF TypeOK
  <2>9. QED
    BY <1>4, <2>5, <2>6, <2>7, <2>8 DEF CommitUpdate, TypeOK
<1>5. ASSUME NEW q \in Request, CommitDelete(q) PROVE TypeOK'
  <2> DEFINE d == req[q].doc
             row == [rows[d] EXCEPT !.state = "deleted"]
  <2>1. d \in Docs /\ d \in DOMAIN rows
    BY <1>5, HandlerFields DEF CommitDelete, TypeOK, Stored
  <2>2. row \in Row /\ Write(d, row)
    BY <1>5, <2>1 DEF CommitDelete, TypeOK, Row, State
  <2>3. rows' \in [DOMAIN rows' -> Row] /\ DOMAIN rows' \subseteq Docs
    BY <2>1, <2>2, WriteType
  <2>4. req' \in [Request -> Handler]
    BY <1>5, HandlerKinds, SetHandler DEF CommitDelete, Respond, TypeOK
  <2>5. chunks' \subseteq BatchRow
    BY <1>5 DEF CommitDelete, Marked, TypeOK
  <2>6. QED
    BY <1>5, <2>3, <2>4, <2>5 DEF CommitDelete, TypeOK
<1>6. ASSUME NEW d \in Docs, Expire(d) PROVE TypeOK'
  <2> DEFINE row == [rows[d] EXCEPT !.state = "expired"]
  <2>1. row \in Row /\ Write(d, row)
    BY <1>6 DEF Expire, TypeOK, Stored, Row, State
  <2>2. QED
    BY <1>6, <2>1, WriteType DEF Expire, TypeOK
<1>7. QED
  BY <1>2, <1>3, <1>4, <1>5, <1>6

\* The actions of a request that leave the rows alone.
RowlessStep(q) ==
  \/ Put(q) \/ PutFails(q) \/ UploadFails(q) \/ DropObject(q) \/ Rollback(q) \/ ReadChunks(q)
  \/ \E p \in Process, d \in Docs : BeginUpload(q, p, d) \/ BeginUpdate(q, p, d) \/ BeginDelete(q, p, d)

LEMMA RowlessType ==
  ASSUME TypeOK, NEW q \in Request, RowlessStep(q)
  PROVE  TypeOK'
<1> USE HandlerKinds DEF TypeOK
<1>1. CASE Put(q) \/ UploadFails(q)
  <2>1. req[q] \in Holding
    BY <1>1, HandlerFields DEF Put, UploadFails
  <2>2. \A c \in {"stored", "cleanup"} : [req[q] EXCEPT !.pc = c] \in Holding
    BY <2>1 DEF Holding
  <2>3. req' \in [Request -> Handler]
    BY <1>1, <2>2 DEF Put, UploadFails
  <2>4. req[q].doc \in Docs
    BY <2>1 DEF Holding
  <2>5. QED
    BY <1>1, <2>3, <2>4 DEF Put, UploadFails
<1>2. CASE PutFails(q) \/ DropObject(q)
  <2>1. req[q].doc \in Docs
    BY <1>2, HandlerFields DEF PutFails, DropObject
  <2>2. req' \in [Request -> Handler]
    BY <1>2, SetHandler DEF PutFails, DropObject, Respond
  <2>3. faults' \in 0 .. MaxFaults
    BY <1>2, BoundAssumption DEF PutFails, DropObject, Fault
  <2>4. objects' \subseteq Docs /\ leaked' \subseteq Docs
    BY <1>2, <2>1 DEF PutFails, DropObject
  <2>5. QED
    BY <1>2, <2>2, <2>3, <2>4 DEF PutFails, DropObject
<1>3. CASE Rollback(q)
  BY <1>3, SetHandler DEF Rollback, Respond
<1>4. CASE ReadChunks(q)
  <2>1. [pc |-> "delete", proc |-> req[q].proc, doc |-> req[q].doc,
         seen |-> BatchesOf(req[q].doc)] \in Deleting
    BY <1>4, HandlerFields DEF ReadChunks, Deleting, BatchesOf
  <2>2. QED
    BY <1>4, <2>1, SetHandler DEF ReadChunks
<1>5. ASSUME NEW p \in Process, NEW d \in Docs,
             BeginUpload(q, p, d) \/ BeginUpdate(q, p, d) \/ BeginDelete(q, p, d)
      PROVE  TypeOK'
  <2>1. CASE BeginUpload(q, p, d)
    <3>1. [pc |-> "put", proc |-> p, doc |-> d] \in Holding
      BY DEF Holding
    <3>2. QED
      BY <2>1, <3>1, SetHandler DEF BeginUpload, Accept
  <2>2. CASE BeginUpdate(q, p, d)
    <3>1. PICK content \in Contents :
            Accept(q, p, [pc |-> "update", proc |-> p, doc |-> d, content |-> content,
                          was |-> rows[d].content, key |-> rows[d].key])
      BY <2>2 DEF BeginUpdate
    <3>2. [pc |-> "update", proc |-> p, doc |-> d, content |-> content,
           was |-> rows[d].content, key |-> rows[d].key] \in Updating
      BY <2>2 DEF BeginUpdate, Found, Stored, Row, Updating
    <3>3. QED
      BY <2>2, <3>1, <3>2, SetHandler DEF BeginUpdate, Accept
  <2>3. CASE BeginDelete(q, p, d)
    <3>1. [pc |-> "read", proc |-> p, doc |-> d] \in Holding
      BY DEF Holding
    <3>2. QED
      BY <2>3, <3>1, SetHandler DEF BeginDelete, Accept
  <2>4. QED
    BY <1>5, <2>1, <2>2, <2>3
<1>6. QED
  BY <1>1, <1>2, <1>3, <1>4, <1>5 DEF RowlessStep

\* The sweep, the trimming of chunks and crashes.
LEMMA OthersType ==
  ASSUME TypeOK, Sweep \/ SweepFails \/ \E p \in Process : TrimChunks(p) \/ Crash(p)
  PROVE  TypeOK'
<1> USE DEF TypeOK
<1>1. CASE SweepSelect
  BY <1>1 DEF SweepSelect, Purgeable
<1>2. CASE SweepRows \/ SweepObjects
  BY <1>2 DEF SweepRows, SweepObjects
<1>3. CASE SweepCommits
  BY <1>3, RemovedType DEF SweepCommits, NoSweep
<1>4. CASE SweepFails
  BY <1>4, BoundAssumption DEF SweepFails, Fault, NoSweep
<1>5. ASSUME NEW p \in Process, TrimChunks(p) PROVE TypeOK'
  BY <1>5 DEF TrimChunks, BatchRow
<1>6. ASSUME NEW p \in Process, Crash(p) PROVE TypeOK'
  <2>1. req' \in [Request -> Handler]
    BY <1>6, HandlerKinds DEF Crash
  <2>2. \A q \in Request : req[q].pc \in {"put", "stored", "cleanup", "drop"} => req[q].doc \in Docs
    BY HandlerFields
  <2>3. objects' \subseteq Docs /\ leaked' \subseteq Docs
    BY <1>6, <2>2 DEF Crash
  <2>4. faults' \in 0 .. MaxFaults
    BY <1>6, BoundAssumption DEF Crash, Fault
  <2>5. QED
    BY <1>6, <2>1, <2>3, <2>4 DEF Crash
<1>7. QED
  BY <1>1, <1>2, <1>3, <1>4, <1>5, <1>6 DEF Sweep

LEMMA StutterType == ASSUME TypeOK, UNCHANGED vars PROVE TypeOK'
BY DEF TypeOK, vars

\* Next, split the way the lemmas above are.
LEMMA NextSplit ==
  ASSUME Next
  PROVE  \/ \E p \in Process, d \in Docs : CreateText(p, d)
         \/ \E q \in Request : UploadCommits(q) \/ CommitUpdate(q) \/ CommitDelete(q)
         \/ \E d \in Docs : Expire(d)
         \/ \E q \in Request : RowlessStep(q)
         \/ Sweep \/ SweepFails
         \/ \E p \in Process : TrimChunks(p) \/ Crash(p)
BY DEF Next, Statement, RowlessStep

\* Every variable keeps its type, for every instance.
THEOREM TypeCorrect == Spec => []TypeOK
<1>1. TypeOK /\ [Next]_vars => TypeOK'
  BY NextSplit, WritersType, RowlessType, OthersType, StutterType
<1>2. QED
  BY InitType, <1>1, PTL DEF Spec
--------------------------------------------------------------------------------
(* Why rows and objects agree.  An upload is alone with its document until it has   *)
(* inserted the row; a handler that is about to delete an object has committed that *)
(* the row no longer names it; what the sweep found was deleted, and still is.      *)

Uploading(q) == req[q].pc \in {"put", "stored", "cleanup"}

UploadsAlone ==
  \A q \in Request :
    Uploading(q) =>
      /\ req[q].doc \notin DOMAIN rows
      /\ req[q].pc = "stored" => req[q].doc \in objects
      /\ \A u \in Request \ {q} : req[u].pc # "idle" => req[u].doc # req[q].doc

FreshUnused ==
  /\ fresh \cap (DOMAIN rows \cup objects) = {}
  /\ \A q \in Request : req[q].pc # "idle" => req[q].doc \notin fresh

\* No row goes back to naming an object, so what such a handler knows stays true.
Unkeyed ==
  \A q \in Request :
    /\ (req[q].pc = "drop" \/ (req[q].pc = "update" /\ ~ req[q].key))
    /\ req[q].doc \in DOMAIN rows
    => ~ rows[req[q].doc].key

SweptDead ==
  /\ sweep.keys \subseteq sweep.docs /\ sweep.docs \subseteq DOMAIN rows
  /\ \A d \in sweep.docs : rows[d].state # "live" /\ (rows[d].key => d \in sweep.keys)
  /\ sweep.pc = "commit" => sweep.keys \cap objects = {}

Agreement == UploadsAlone /\ FreshUnused /\ Unkeyed /\ SweptDead /\ ObjectsAgree

ObjectsInv == TypeOK /\ Agreement

LEMMA InitObjects == Init => ObjectsInv
BY InitType DEF Init, ObjectsInv, Agreement, UploadsAlone, FreshUnused, Unkeyed, SweptDead,
   ObjectsAgree, FileKept, ObjectsNamed, NoSweep, Resting, Uploading

LEMMA CreateTextAgrees ==
  ASSUME ObjectsInv, NEW p \in Process, NEW d \in Docs, CreateText(p, d)
  PROVE  Agreement'
<1> USE DEF ObjectsInv, Agreement
<1>1. PICK content \in Contents : Insert(d, content, FALSE)
  BY DEF CreateText
<1>2. [state |-> "live", content |-> content, key |-> FALSE] \in Row
  BY DEF Row, State
<1>3. /\ DOMAIN rows' = DOMAIN rows \cup {d}
      /\ rows'[d] = [state |-> "live", content |-> content, key |-> FALSE]
      /\ \A e \in DOMAIN rows \ {d} : rows'[e] = rows[e]
  BY <1>1, <1>2, WriteType DEF Insert
<1>4. d \in fresh /\ d \notin DOMAIN rows /\ d \notin objects /\ fresh' = fresh \ {d}
  BY DEF CreateText, FreshUnused
<1>5. UNCHANGED <<objects, req, sweep, leaked>>
  BY DEF CreateText
<1>6. UploadsAlone'
  BY <1>3, <1>4, <1>5 DEF UploadsAlone, Uploading, FreshUnused
<1>7. FreshUnused'
  BY <1>3, <1>4, <1>5 DEF FreshUnused
<1>8. Unkeyed'
  BY <1>3, <1>5 DEF Unkeyed
<1>9. SweptDead'
  BY <1>3, <1>4, <1>5 DEF SweptDead
<1>10. ObjectsAgree'
  BY <1>3, <1>4, <1>5 DEF ObjectsAgree, FileKept, ObjectsNamed, Found, Stored, InHand
<1>11. QED
  BY <1>6, <1>7, <1>8, <1>9, <1>10

LEMMA UploadCommitsAgrees ==
  ASSUME ObjectsInv, NEW q \in Request, UploadCommits(q)
  PROVE  Agreement'
<1> USE DEF ObjectsInv, Agreement
<1> DEFINE d == req[q].doc
<1>1. PICK content \in Contents : Insert(d, content, TRUE)
  BY DEF UploadCommits
<1>2. [state |-> "live", content |-> content, key |-> TRUE] \in Row
  BY DEF Row, State
<1>3. d \in Docs /\ d \notin fresh /\ d \notin DOMAIN rows /\ d \in objects
      /\ \A u \in Request \ {q} : req[u].pc # "idle" => req[u].doc # d
  BY HandlerFields DEF UploadCommits, TypeOK, FreshUnused, UploadsAlone, Uploading
<1>4. /\ DOMAIN rows' = DOMAIN rows \cup {d}
      /\ rows'[d] = [state |-> "live", content |-> content, key |-> TRUE]
      /\ \A e \in DOMAIN rows \ {d} : rows'[e] = rows[e]
  BY <1>1, <1>2, <1>3, WriteType DEF Insert
<1>5. /\ UNCHANGED <<objects, sweep, leaked, fresh>>
      /\ req' \in [Request -> Handler] /\ req'[q].pc = "idle"
      /\ \A u \in Request \ {q} : req'[u] = req[u]
  BY HandlerKinds DEF UploadCommits, Respond, Resting, TypeOK
<1>6. UploadsAlone'
  BY <1>3, <1>4, <1>5 DEF UploadsAlone, Uploading
<1>7. FreshUnused'
  BY <1>3, <1>4, <1>5 DEF FreshUnused
<1>8. Unkeyed'
  BY <1>3, <1>4, <1>5 DEF Unkeyed
<1>9. SweptDead'
  BY <1>3, <1>4, <1>5 DEF SweptDead
<1>10. ObjectsAgree'
  BY <1>3, <1>4, <1>5 DEF ObjectsAgree, FileKept, ObjectsNamed, Found, Stored, InHand
<1>11. QED
  BY <1>6, <1>7, <1>8, <1>9, <1>10

LEMMA CommitUpdateAgrees ==
  ASSUME ObjectsInv, NEW q \in Request, CommitUpdate(q)
  PROVE  Agreement'
<1> USE DEF ObjectsInv, Agreement
<1> DEFINE d == req[q].doc
           row == [rows[d] EXCEPT
               !.content = IF req[q].content # req[q].was THEN req[q].content ELSE @,
               !.key = KeyAfterUpdate(d)]
           next == IF req[q].key
                   THEN [pc |-> "drop", proc |-> req[q].proc, doc |-> d] ELSE Resting
<1>1. /\ req[q].pc = "update" /\ d \in DOMAIN rows /\ Write(d, row)
      /\ req' = [req EXCEPT ![q] = next]
      /\ UNCHANGED <<objects, fresh, sweep, leaked>>
  BY DEF CommitUpdate, Stored
<1>2. d \in Docs /\ req[q].content \in Contents /\ rows[d] \in Row
  BY <1>1, HandlerFields DEF Updating, TypeOK
<1>3. row \in Row /\ row.key = FALSE /\ row.state = rows[d].state
  BY <1>2 DEF Row, KeyAfterUpdate
<1>4. /\ DOMAIN rows' = DOMAIN rows
      /\ rows'[d].key = FALSE /\ rows'[d].state = rows[d].state
      /\ \A e \in DOMAIN rows \ {d} : rows'[e] = rows[e]
  BY <1>1, <1>2, <1>3, WriteType
<1>5. /\ \A u \in Request \ {q} : req'[u] = req[u]
      /\ req'[q].pc # "idle" => req'[q].pc = "drop" /\ req'[q].doc = d
      /\ req[q].key => req'[q].pc = "drop" /\ req'[q].doc = d
  BY <1>1 DEF TypeOK, Resting
<1> HIDE DEF row, next
<1>6. UploadsAlone'
  BY <1>1, <1>4, <1>5 DEF UploadsAlone, Uploading
<1>7. FreshUnused'
  BY <1>1, <1>4, <1>5 DEF FreshUnused
<1>8. Unkeyed'
  BY <1>1, <1>4, <1>5 DEF Unkeyed
<1>9. SweptDead'
  BY <1>1, <1>4 DEF SweptDead
<1>10. FileKept'
  BY <1>1, <1>4 DEF ObjectsAgree, FileKept, Found, Stored
<1>11. ObjectsNamed'
  <2>1. rows[d].key => req[q].key
    BY <1>1 DEF Unkeyed
  <2>2. \A u \in Request : req[u].pc \in {"stored", "cleanup", "drop"} => u # q
    BY <1>1
  <2>3. \A e \in Docs : InHand(e) => InHand(e)'
    BY <1>5, <2>2 DEF InHand
  <2>4. rows[d].key => req'[q].pc = "drop" /\ req'[q].doc = d
    BY <1>5, <2>1
  <2>5. ASSUME NEW e \in objects
        PROVE  (e \in DOMAIN rows' /\ rows'[e].key) \/ InHand(e)' \/ e \in leaked
    <3>1. (e \in DOMAIN rows /\ rows[e].key) \/ InHand(e)' \/ e \in leaked
      BY <2>3 DEF ObjectsAgree, ObjectsNamed, Stored, TypeOK
    <3>2. CASE e = d
      BY <2>4, <3>1, <3>2 DEF InHand
    <3>3. CASE e # d
      BY <1>4, <3>1, <3>3
    <3>4. QED
      BY <3>2, <3>3
  <2>6. QED
    BY <1>1, <2>5 DEF ObjectsNamed, Stored
<1>12. QED
  BY <1>6, <1>7, <1>8, <1>9, <1>10, <1>11 DEF ObjectsAgree

LEMMA CommitDeleteAgrees ==
  ASSUME ObjectsInv, NEW q \in Request, CommitDelete(q)
  PROVE  Agreement'
<1> USE DEF ObjectsInv, Agreement
<1> DEFINE d == req[q].doc
           row == [rows[d] EXCEPT !.state = "deleted"]
<1>1. /\ req[q].pc = "delete" /\ d \in DOMAIN rows /\ Write(d, row)
      /\ req' = [req EXCEPT ![q] = Resting]
      /\ UNCHANGED <<objects, fresh, sweep, leaked>>
  BY DEF CommitDelete, Stored, Respond
<1>2. d \in Docs /\ row \in Row /\ row.key = rows[d].key /\ row.state = "deleted"
  BY <1>1 DEF Row, State, TypeOK
<1>3. /\ DOMAIN rows' = DOMAIN rows
      /\ rows'[d] = row /\ \A e \in DOMAIN rows \ {d} : rows'[e] = rows[e]
  BY <1>1, <1>2, WriteType
<1>4. req'[q].pc = "idle" /\ \A u \in Request \ {q} : req'[u] = req[u]
  BY <1>1 DEF TypeOK, Resting
<1>5. rows'[d].key = rows[d].key /\ rows'[d].state = "deleted"
  BY <1>2, <1>3
<1> HIDE DEF row
<1>6. UploadsAlone' /\ FreshUnused'
  BY <1>1, <1>3, <1>4 DEF UploadsAlone, Uploading, FreshUnused
<1>7. Unkeyed'
  BY <1>1, <1>3, <1>4, <1>5 DEF Unkeyed
<1>8. SweptDead'
  BY <1>1, <1>3, <1>5 DEF SweptDead
<1>9. ObjectsAgree'
  BY <1>1, <1>3, <1>4, <1>5 DEF ObjectsAgree, FileKept, ObjectsNamed, Found, Stored, InHand
<1>10. QED
  BY <1>6, <1>7, <1>8, <1>9

LEMMA ExpireAgrees ==
  ASSUME ObjectsInv, NEW d \in Docs, Expire(d)
  PROVE  Agreement'
<1> USE DEF ObjectsInv, Agreement
<1> DEFINE row == [rows[d] EXCEPT !.state = "expired"]
<1>1. /\ d \in DOMAIN rows /\ rows[d].state = "deleted" /\ Write(d, row)
      /\ UNCHANGED <<objects, fresh, req, sweep, leaked>>
  BY DEF Expire, Stored
<1>2. row \in Row /\ row.key = rows[d].key /\ row.state = "expired"
  BY <1>1 DEF Row, State, TypeOK
<1>3. /\ DOMAIN rows' = DOMAIN rows
      /\ rows'[d] = row /\ \A e \in DOMAIN rows \ {d} : rows'[e] = rows[e]
  BY <1>1, <1>2, WriteType
<1>4. UploadsAlone' /\ FreshUnused' /\ Unkeyed' /\ SweptDead'
  BY <1>1, <1>2, <1>3 DEF UploadsAlone, Uploading, FreshUnused, Unkeyed, SweptDead
<1>5. ObjectsAgree'
  BY <1>1, <1>2, <1>3 DEF ObjectsAgree, FileKept, ObjectsNamed, Found, Stored, InHand
<1>6. QED
  BY <1>4, <1>5

LEMMA RowlessAgrees ==
  ASSUME ObjectsInv, NEW q \in Request, RowlessStep(q)
  PROVE  Agreement'
<1> USE DEF ObjectsInv, Agreement
<1> DEFINE d == req[q].doc
<1>0. req[q].pc # "idle" => d \in Docs
  BY HandlerFields DEF TypeOK
<1>1. CASE Put(q)
  <2>1. /\ req[q].pc = "put" /\ objects' = objects \cup {d}
        /\ UNCHANGED <<rows, fresh, sweep, leaked>>
        /\ req'[q].pc = "stored" /\ req'[q].doc = d
        /\ \A u \in Request \ {q} : req'[u] = req[u]
    BY <1>1, HandlerFields DEF Put, TypeOK, Holding
  <2>2. UploadsAlone' /\ FreshUnused' /\ Unkeyed' /\ SweptDead'
    BY <2>1 DEF UploadsAlone, Uploading, FreshUnused, Unkeyed, SweptDead
  <2>3. ObjectsAgree'
    BY <2>1 DEF ObjectsAgree, FileKept, ObjectsNamed, Found, Stored, InHand
  <2>4. QED
    BY <2>2, <2>3
<1>2. CASE PutFails(q)
  <2>1. PICK kept \in {{}, {d}} : objects' = objects \cup kept /\ leaked' = leaked \cup kept
    BY <1>2 DEF PutFails
  <2>2. /\ req[q].pc = "put" /\ UNCHANGED <<rows, fresh, sweep>>
        /\ req'[q].pc = "idle" /\ \A u \in Request \ {q} : req'[u] = req[u]
    BY <1>2 DEF PutFails, Respond, Resting, TypeOK
  <2>3. UploadsAlone' /\ FreshUnused' /\ Unkeyed' /\ SweptDead'
    BY <2>1, <2>2 DEF UploadsAlone, Uploading, FreshUnused, Unkeyed, SweptDead
  <2>4. ObjectsAgree'
    BY <2>1, <2>2 DEF ObjectsAgree, FileKept, ObjectsNamed, Found, Stored, InHand
  <2>5. QED
    BY <2>3, <2>4
<1>3. CASE UploadFails(q)
  <2>1. /\ req[q].pc = "stored" /\ UNCHANGED <<rows, objects, fresh, sweep, leaked>>
        /\ req'[q].pc = "cleanup" /\ req'[q].doc = d
        /\ \A u \in Request \ {q} : req'[u] = req[u]
    BY <1>3, HandlerFields DEF UploadFails, TypeOK, Holding
  <2>2. UploadsAlone' /\ FreshUnused' /\ Unkeyed' /\ SweptDead'
    BY <2>1 DEF UploadsAlone, Uploading, FreshUnused, Unkeyed, SweptDead
  <2>3. ObjectsAgree'
    BY <2>1 DEF ObjectsAgree, FileKept, ObjectsNamed, Found, Stored, InHand
  <2>4. QED
    BY <2>2, <2>3
<1>4. CASE DropObject(q)
  <2>1. /\ req[q].pc \in {"cleanup", "drop"} /\ UNCHANGED <<rows, fresh, sweep>>
        /\ req'[q].pc = "idle" /\ \A u \in Request \ {q} : req'[u] = req[u]
        /\ \/ objects' = objects \ {d} /\ leaked' = leaked
           \/ objects' = objects /\ leaked' = leaked \cup ({d} \cap objects)
    BY <1>4 DEF DropObject, Respond, Resting, TypeOK
  <2>2. ~ (d \in DOMAIN rows /\ rows[d].key)
    BY <2>1 DEF UploadsAlone, Uploading, Unkeyed
  <2>3. UploadsAlone'
    BY <2>1 DEF UploadsAlone, Uploading
  <2>4. FreshUnused' /\ Unkeyed' /\ SweptDead'
    BY <2>1 DEF FreshUnused, Unkeyed, SweptDead
  <2>5. ObjectsAgree'
    BY <2>1, <2>2 DEF ObjectsAgree, FileKept, ObjectsNamed, Found, Stored, InHand
  <2>6. QED
    BY <2>3, <2>4, <2>5
<1>5. CASE Rollback(q) \/ ReadChunks(q)
  <2>1. /\ req[q].pc \in {"update", "delete", "read"}
        /\ UNCHANGED <<rows, objects, fresh, sweep, leaked>>
        /\ \/ req'[q].pc = "idle"
           \/ req'[q].pc = "delete" /\ req'[q].doc = d
        /\ \A u \in Request \ {q} : req'[u] = req[u]
    BY <1>5 DEF Rollback, ReadChunks, Respond, Resting, TypeOK
  <2>2. UploadsAlone' /\ FreshUnused' /\ Unkeyed' /\ SweptDead'
    BY <2>1 DEF UploadsAlone, Uploading, FreshUnused, Unkeyed, SweptDead
  <2>3. ObjectsAgree'
    BY <2>1 DEF ObjectsAgree, FileKept, ObjectsNamed, Found, Stored, InHand
  <2>4. QED
    BY <2>2, <2>3
<1>6. ASSUME NEW p \in Process, NEW e \in Docs,
             BeginUpload(q, p, e) \/ BeginUpdate(q, p, e) \/ BeginDelete(q, p, e)
      PROVE  Agreement'
  <2>1. /\ req[q].pc = "idle" /\ UNCHANGED <<rows, objects, sweep, leaked>>
        /\ req'[q].doc = e /\ \A u \in Request \ {q} : req'[u] = req[u]
        /\ \/ req'[q].pc = "put" /\ e \in fresh /\ fresh' = fresh \ {e}
           \/ /\ req'[q].pc = "update" /\ req'[q].key = rows[e].key
              /\ Found(e) /\ fresh' = fresh
           \/ req'[q].pc = "read" /\ Found(e) /\ fresh' = fresh
    BY <1>6 DEF BeginUpload, BeginUpdate, BeginDelete, Accept, TypeOK
  <2>2. UploadsAlone'
    BY <2>1 DEF UploadsAlone, Uploading, FreshUnused, Found, Stored
  <2>3. FreshUnused'
    BY <2>1 DEF FreshUnused, Found, Stored
  <2>4. Unkeyed' /\ SweptDead'
    BY <2>1 DEF Unkeyed, SweptDead
  <2>5. ObjectsAgree'
    BY <2>1 DEF ObjectsAgree, FileKept, ObjectsNamed, Found, Stored, InHand
  <2>6. QED
    BY <2>2, <2>3, <2>4, <2>5
<1>7. QED
  BY <1>1, <1>2, <1>3, <1>4, <1>5, <1>6 DEF RowlessStep

LEMMA SweepAgrees ==
  ASSUME ObjectsInv, Sweep \/ SweepFails
  PROVE  Agreement'
<1> USE DEF ObjectsInv, Agreement
<1>1. UNCHANGED <<fresh, req, leaked>>
  BY DEF Sweep, SweepSelect, SweepRows, SweepObjects, SweepCommits, SweepFails
<1>2. CASE SweepSelect
  <2>1. UNCHANGED <<rows, objects>>
    BY <1>2 DEF SweepSelect
  <2>2. SweptDead'
    BY <1>2 DEF SweepSelect, Purgeable, SweptDead
  <2>3. QED
    BY <1>1, <2>1, <2>2 DEF UploadsAlone, Uploading, FreshUnused, Unkeyed,
       ObjectsAgree, FileKept, ObjectsNamed, Found, Stored, InHand
<1>3. CASE SweepRows
  <2>1. UNCHANGED <<rows, objects>> /\ sweep' = [sweep EXCEPT !.pc = "objects"]
    BY <1>3 DEF SweepRows
  <2>2. SweptDead'
    BY <2>1 DEF SweptDead, TypeOK
  <2>3. QED
    BY <1>1, <2>1, <2>2 DEF UploadsAlone, Uploading, FreshUnused, Unkeyed,
       ObjectsAgree, FileKept, ObjectsNamed, Found, Stored, InHand
<1>4. CASE SweepObjects
  <2>1. /\ rows' = rows /\ objects' = objects \ sweep.keys
        /\ sweep' = [sweep EXCEPT !.pc = "commit"]
    BY <1>4 DEF SweepObjects
  <2>2. SweptDead'
    BY <2>1 DEF SweptDead, TypeOK
  <2>3. UploadsAlone' /\ FreshUnused' /\ Unkeyed'
    BY <1>1, <2>1 DEF UploadsAlone, Uploading, FreshUnused, Unkeyed, SweptDead
  <2>4. ObjectsAgree'
    BY <1>1, <2>1 DEF ObjectsAgree, FileKept, ObjectsNamed, Found, Stored, InHand, SweptDead
  <2>5. QED
    BY <2>2, <2>3, <2>4
<1>5. CASE SweepCommits
  <2>1. /\ sweep.pc = "commit" /\ objects' = objects /\ sweep' = NoSweep
        /\ DOMAIN rows' = DOMAIN rows \ sweep.docs
        /\ \A e \in DOMAIN rows' : rows'[e] = rows[e]
    BY <1>5, RemovedType DEF SweepCommits
  <2>2. UploadsAlone' /\ FreshUnused' /\ Unkeyed' /\ SweptDead'
    BY <1>1, <2>1 DEF UploadsAlone, Uploading, FreshUnused, Unkeyed, SweptDead, NoSweep
  <2>3. ObjectsAgree'
    BY <1>1, <2>1 DEF ObjectsAgree, FileKept, ObjectsNamed, Found, Stored, InHand, SweptDead
  <2>4. QED
    BY <2>2, <2>3
<1>6. CASE SweepFails
  <2>1. /\ rows' = rows /\ sweep' = NoSweep
        /\ objects' \subseteq objects /\ objects \ objects' \subseteq sweep.keys
    BY <1>6 DEF SweepFails
  <2>2. UploadsAlone' /\ FreshUnused' /\ Unkeyed' /\ SweptDead'
    BY <1>1, <2>1 DEF UploadsAlone, Uploading, FreshUnused, Unkeyed, SweptDead, NoSweep
  <2>3. ObjectsAgree'
    BY <1>1, <2>1 DEF ObjectsAgree, FileKept, ObjectsNamed, Found, Stored, InHand, SweptDead
  <2>4. QED
    BY <2>2, <2>3
<1>7. QED
  BY <1>2, <1>3, <1>4, <1>5, <1>6 DEF Sweep

LEMMA CrashAgrees ==
  ASSUME ObjectsInv, NEW p \in Process, Crash(p)
  PROVE  Agreement'
<1> USE DEF ObjectsInv, Agreement
<1> DEFINE Mine(q) == req[q].pc # "idle" /\ req[q].proc = p
<1>1. PICK late \in SUBSET {req[q].doc : q \in {u \in Request : Mine(u) /\ req[u].pc = "put"}} :
        /\ objects' = objects \cup late
        /\ leaked' = leaked \cup late \cup
             ({req[q].doc : q \in {u \in Request : Mine(u)
                                     /\ req[u].pc \in {"stored", "cleanup", "drop"}}} \cap objects)
  BY DEF Crash
<1>2. /\ UNCHANGED <<rows, fresh, sweep>>
      /\ \A q \in Request : IF Mine(q) THEN req'[q].pc = "idle" ELSE req'[q] = req[q]
  BY DEF Crash, Resting
<1>3. \A d \in late : /\ d \notin DOMAIN rows /\ d \notin fresh
                      /\ \E q \in Request : Mine(q) /\ req[q].pc = "put" /\ req[q].doc = d
  BY <1>1 DEF UploadsAlone, Uploading, FreshUnused
<1>4. UploadsAlone' /\ Unkeyed'
  BY <1>1, <1>2 DEF UploadsAlone, Uploading, Unkeyed
<1>5. FreshUnused' /\ SweptDead'
  BY <1>1, <1>2, <1>3 DEF FreshUnused, SweptDead
<1>6. FileKept'
  BY <1>1, <1>2 DEF ObjectsAgree, FileKept, Found, Stored
<1>7. ObjectsNamed'
  <2>1. ASSUME NEW d \in objects, InHand(d) PROVE InHand(d)' \/ d \in leaked'
    <3>1. PICK q \in Request : req[q].pc \in {"stored", "cleanup", "drop"} /\ req[q].doc = d
      BY <2>1 DEF InHand
    <3>2. CASE Mine(q)
      BY <1>1, <3>1, <3>2
    <3>3. CASE ~ Mine(q)
      BY <1>2, <3>1, <3>3 DEF InHand
    <3>4. QED
      BY <3>2, <3>3
  <2>2. QED
    BY <1>1, <1>2, <2>1 DEF ObjectsAgree, ObjectsNamed, Stored
<1>8. QED
  BY <1>4, <1>5, <1>6, <1>7 DEF ObjectsAgree

\* What the object store and the chunks' own handler do not touch.
LEMMA UntouchedAgrees ==
  ASSUME ObjectsInv, UNCHANGED vars \/ \E p \in Process : TrimChunks(p)
  PROVE  Agreement'
<1>1. UNCHANGED <<rows, objects, fresh, req, sweep, leaked>>
  BY DEF vars, TrimChunks
<1>2. QED
  BY <1>1 DEF ObjectsInv, Agreement, UploadsAlone, Uploading, FreshUnused, Unkeyed, SweptDead,
     ObjectsAgree, FileKept, ObjectsNamed, Found, Stored, InHand

LEMMA StepObjects == ObjectsInv /\ [Next]_vars => ObjectsInv'
<1> SUFFICES ASSUME ObjectsInv, [Next]_vars PROVE ObjectsInv'
  OBVIOUS
<1>1. TypeOK'
  BY NextSplit, WritersType, RowlessType, OthersType, StutterType DEF ObjectsInv
<1>2. Agreement'
  BY NextSplit, CreateTextAgrees, UploadCommitsAgrees, CommitUpdateAgrees, CommitDeleteAgrees,
     ExpireAgrees, RowlessAgrees, SweepAgrees, CrashAgrees, UntouchedAgrees
<1>3. QED
  BY <1>1, <1>2 DEF ObjectsInv

\* Rows and stored objects agree in every reachable state of every instance.
THEOREM ObjectsCorrect == Spec => []ObjectsAgree
<1>1. ObjectsInv => ObjectsAgree
  BY DEF ObjectsInv, Agreement
<1>2. QED
  BY InitObjects, StepObjects, <1>1, PTL DEF Spec
--------------------------------------------------------------------------------
(* Why a live document has one generation of chunks.                              *)

\* Batches are numbered apart, and a deletion has only seen those of its document.
BatchesApart ==
  /\ \A b \in chunks : b.doc \in DOMAIN rows /\ b.n < batches
  /\ \A b, c \in chunks : b.n = c.n => b = c
  /\ \A q \in Request :
       req[q].pc = "delete" =>
         \A s \in req[q].seen :
           s.n < batches /\ \A b \in chunks : b.n = s.n => b.doc = req[q].doc

OneBatch == \A d \in Docs : Found(d) => \E b \in chunks : BatchesOf(d) = {b}

ChunksInv == ObjectsInv /\ BatchesApart /\ OneBatch

LEMMA InitChunks == Init => ChunksInv
BY InitObjects DEF Init, ChunksInv, BatchesApart, OneBatch, Found, Stored, Resting

\* A batch inserted as the only one of its document.
LEMMA InsertApart ==
  ASSUME ChunksInv, NEW d \in Docs, NEW content \in Contents,
         chunks' = (chunks \ BatchesOf(d)) \cup {Batch(d, content)},
         batches' = batches + 1, DOMAIN rows' = DOMAIN rows \cup {d},
         \A q \in Request : req'[q].pc = "delete" => req'[q] = req[q],
         \A e \in DOMAIN rows \ {d} : rows'[e].state = rows[e].state
  PROVE  BatchesApart' /\ OneBatch'
<1> USE DEF ChunksInv
<1>1. /\ batches \in Nat /\ Batch(d, content).n = batches /\ Batch(d, content).doc = d
      /\ \A b \in chunks : b.n \in Nat
  BY BoundAssumption DEF ObjectsInv, TypeOK, Batch, BatchRow
<1>2. \A b \in chunks' : b \in chunks \/ b = Batch(d, content)
  OBVIOUS
<1>3. \A b \in chunks' : b.doc \in DOMAIN rows' /\ b.n < batches'
  BY <1>1, <1>2 DEF BatchesApart
<1>4. \A b, c \in chunks' : b.n = c.n => b = c
  BY <1>1, <1>2 DEF BatchesApart
<1>5. ASSUME NEW q \in Request, req'[q].pc = "delete", NEW s \in req'[q].seen
      PROVE  s.n < batches' /\ \A b \in chunks' : b.n = s.n => b.doc = req'[q].doc
  <2>1. req[q].pc = "delete" /\ s \in req[q].seen /\ req'[q].doc = req[q].doc
    BY <1>5
  <2>2. s.n \in Nat
    BY <2>1, HandlerFields DEF ObjectsInv, TypeOK, Deleting, BatchRow
  <2>3. QED
    BY <1>1, <1>2, <2>1, <2>2 DEF BatchesApart
<1>6. ASSUME NEW e \in Docs, Found(e)' PROVE \E b \in chunks' : BatchesOf(e)' = {b}
  <2>1. CASE e = d
    BY <1>1, <2>1 DEF BatchesOf
  <2>2. CASE e # d
    <3>1. Found(e)
      BY <1>6, <2>2 DEF Found, Stored
    <3>2. PICK b \in chunks : BatchesOf(e) = {b}
      BY <3>1 DEF OneBatch
    <3>3. BatchesOf(e)' = {b}
      BY <1>1, <2>2, <3>2 DEF BatchesOf
    <3>4. QED
      BY <3>3 DEF BatchesOf
  <2>3. QED
    BY <2>1, <2>2
<1>7. QED
  BY <1>3, <1>4, <1>5, <1>6 DEF BatchesApart, OneBatch

LEMMA WritersChunks ==
  ASSUME ChunksInv,
         \/ \E p \in Process, d \in Docs : CreateText(p, d)
         \/ \E q \in Request : UploadCommits(q) \/ CommitUpdate(q)
  PROVE  BatchesApart' /\ OneBatch'
<1> USE DEF ChunksInv, ObjectsInv
<1>1. ASSUME NEW d \in Docs, NEW content \in Contents, NEW key \in BOOLEAN,
             Insert(d, content, key), d \notin DOMAIN rows,
             \A q \in Request : req'[q].pc = "delete" => req'[q] = req[q]
      PROVE  BatchesApart' /\ OneBatch'
  <2>1. [state |-> "live", content |-> content, key |-> key] \in Row
    BY DEF Row, State
  <2>2. BatchesOf(d) = {}
    BY <1>1 DEF BatchesApart, BatchesOf
  <2>3. QED
    BY <1>1, <2>1, <2>2, WriteType, InsertApart DEF Insert
<1>2. ASSUME NEW p \in Process, NEW d \in Docs, CreateText(p, d)
      PROVE  BatchesApart' /\ OneBatch'
  BY <1>1, <1>2 DEF CreateText, Agreement, FreshUnused
<1>3. ASSUME NEW q \in Request, UploadCommits(q) PROVE BatchesApart' /\ OneBatch'
  <2>1. req[q].doc \in Docs /\ req[q].doc \notin DOMAIN rows
    BY <1>3, HandlerFields DEF UploadCommits, TypeOK, Agreement, UploadsAlone, Uploading
  <2>2. \A u \in Request : req'[u].pc = "delete" => req'[u] = req[u]
    BY <1>3 DEF UploadCommits, Respond, Resting, TypeOK
  <2>3. QED
    BY <1>1, <1>3, <2>1, <2>2 DEF UploadCommits
<1>4. ASSUME NEW q \in Request, CommitUpdate(q) PROVE BatchesApart' /\ OneBatch'
  <2> DEFINE d == req[q].doc
             row == [rows[d] EXCEPT
                 !.content = IF req[q].content # req[q].was THEN req[q].content ELSE @,
                 !.key = KeyAfterUpdate(d)]
  <2>1. /\ d \in Docs /\ d \in DOMAIN rows /\ req[q].content \in Contents
        /\ Write(d, row) /\ chunks' = Replaced(d, req[q].content) /\ batches' = batches + 1
    BY <1>4, HandlerFields DEF CommitUpdate, TypeOK, Stored, Updating
  <2>2. row \in Row
    BY <2>1 DEF TypeOK, Row, KeyAfterUpdate
  <2>3. \A u \in Request : req'[u].pc = "delete" => req'[u] = req[u]
    BY <1>4 DEF CommitUpdate, Resting, TypeOK
  <2>4. DOMAIN rows' = DOMAIN rows \cup {d} /\ \A e \in DOMAIN rows \ {d} : rows'[e] = rows[e]
    BY <2>1, <2>2, WriteType
  <2> HIDE DEF row
  <2>5. QED
    BY <2>1, <2>3, <2>4, InsertApart DEF Replaced
<1>5. QED
  BY <1>2, <1>3, <1>4

LEMMA CommitDeleteChunks ==
  ASSUME ChunksInv, NEW q \in Request, CommitDelete(q)
  PROVE  BatchesApart' /\ OneBatch'
<1> USE DEF ChunksInv, ObjectsInv
<1> DEFINE row == [rows[req[q].doc] EXCEPT !.state = "deleted"]
<1>1. PICK d \in Docs : d = req[q].doc
  BY HandlerFields DEF CommitDelete, TypeOK
<1>2. /\ req[q].pc = "delete" /\ d \in DOMAIN rows /\ Write(d, row)
      /\ chunks' = Marked(req[q].seen) /\ batches' = batches
      /\ \A u \in Request : req'[u].pc = "delete" => req'[u] = req[u]
  BY <1>1 DEF CommitDelete, Stored, Respond, Resting, TypeOK
<1>3. row \in Row /\ row.state = "deleted"
  BY <1>1, <1>2 DEF Row, State, TypeOK
<1>4. /\ DOMAIN rows' = DOMAIN rows
      /\ rows'[d].state = "deleted" /\ \A e \in DOMAIN rows \ {d} : rows'[e] = rows[e]
  BY <1>2, <1>3, WriteType
<1> HIDE DEF row
<1>5. /\ chunks' \subseteq chunks
      /\ \A b \in chunks \ chunks' : b.doc = d
  BY <1>1, <1>2 DEF Marked, BatchesApart
<1>6. BatchesApart'
  BY <1>2, <1>4, <1>5 DEF BatchesApart
<1>7. ASSUME NEW e \in Docs, Found(e)' PROVE \E b \in chunks' : BatchesOf(e)' = {b}
  <2>1. e # d /\ Found(e)
    BY <1>4, <1>7 DEF Found, Stored
  <2>2. PICK b \in chunks : BatchesOf(e) = {b}
    BY <2>1 DEF OneBatch
  <2>3. BatchesOf(e)' = {b}
    BY <1>5, <2>1, <2>2 DEF BatchesOf
  <2>4. QED
    BY <2>3 DEF BatchesOf
<1>8. QED
  BY <1>6, <1>7 DEF OneBatch

LEMMA TrimmedChunks ==
  ASSUME ChunksInv, NEW p \in Process, TrimChunks(p)
  PROVE  BatchesApart' /\ OneBatch'
<1> USE DEF ChunksInv, ObjectsInv
<1>1. PICK c \in chunks : chunks' = (chunks \ {c}) \cup {[c EXCEPT !.trimmed = TRUE]}
  BY DEF TrimChunks
<1>2. UNCHANGED <<rows, batches, req>>
  BY DEF TrimChunks
<1> DEFINE t == [c EXCEPT !.trimmed = TRUE]
<1>3. t.n = c.n /\ t.doc = c.doc
  BY DEF TypeOK, BatchRow
<1>4. t \in chunks' /\ \A b \in chunks' : b = t \/ (b \in chunks /\ b # c)
  BY <1>1
<1> HIDE DEF t
<1>5. BatchesApart'
  <2>1. \A b \in chunks' : \E o \in chunks : b.n = o.n /\ b.doc = o.doc
    BY <1>3, <1>4
  <2>2. \A b, d \in chunks' : b.n = d.n => b = d
    BY <1>3, <1>4 DEF BatchesApart
  <2>3. QED
    BY <1>2, <2>1, <2>2 DEF BatchesApart
<1>6. ASSUME NEW e \in Docs, Found(e)' PROVE \E b \in chunks' : BatchesOf(e)' = {b}
  <2>1. PICK b \in chunks : BatchesOf(e) = {b}
    BY <1>2, <1>6 DEF OneBatch, Found, Stored
  <2>2. CASE b = c
    BY <1>1, <1>3, <1>4, <2>1, <2>2 DEF BatchesOf, t
  <2>3. CASE b # c
    BY <1>1, <1>3, <1>4, <2>1, <2>3 DEF BatchesOf, t
  <2>4. QED
    BY <2>2, <2>3
<1>7. QED
  BY <1>5, <1>6 DEF OneBatch

\* The other steps insert and mark no batch; only the sweep removes any.
LEMMA OthersChunks ==
  ASSUME ChunksInv,
         \/ \E d \in Docs : Expire(d)
         \/ \E q \in Request : RowlessStep(q)
         \/ Sweep \/ SweepFails
         \/ \E p \in Process : Crash(p)
         \/ UNCHANGED vars
  PROVE  BatchesApart' /\ OneBatch'
<1> USE DEF ChunksInv, ObjectsInv
<1>1. CASE SweepCommits
  <2>1. /\ DOMAIN rows' = DOMAIN rows \ sweep.docs
        /\ \A e \in DOMAIN rows' : rows'[e] = rows[e]
        /\ chunks' = {b \in chunks : b.doc \notin sweep.docs} /\ UNCHANGED <<batches, req>>
    BY <1>1, RemovedType DEF SweepCommits
  <2>2. BatchesApart'
    BY <2>1 DEF BatchesApart
  <2>3. OneBatch'
    BY <2>1 DEF OneBatch, BatchesOf, Found, Stored
  <2>4. QED
    BY <2>2, <2>3
<1>2. ASSUME NEW d \in Docs, Expire(d) PROVE BatchesApart' /\ OneBatch'
  <2> DEFINE row == [rows[d] EXCEPT !.state = "expired"]
  <2>1. /\ d \in DOMAIN rows /\ rows[d].state = "deleted" /\ Write(d, row)
        /\ row \in Row /\ row.state = "expired" /\ UNCHANGED <<chunks, batches, req>>
    BY <1>2 DEF Expire, Stored, Row, State, TypeOK
  <2>2. /\ DOMAIN rows' = DOMAIN rows
        /\ rows'[d].state = "expired" /\ \A e \in DOMAIN rows \ {d} : rows'[e] = rows[e]
    BY <2>1, WriteType
  <2>3. QED
    BY <2>1, <2>2 DEF BatchesApart, OneBatch, BatchesOf, Found, Stored
<1>3. ASSUME NEW q \in Request, RowlessStep(q) PROVE BatchesApart' /\ OneBatch'
  <2>1. UNCHANGED <<rows, chunks, batches>>
    BY <1>3 DEF RowlessStep, Put, PutFails, UploadFails, DropObject, Rollback, ReadChunks,
       BeginUpload, BeginUpdate, BeginDelete
  <2>2. OneBatch'
    BY <2>1 DEF OneBatch, BatchesOf, Found, Stored
  <2>3. CASE ReadChunks(q)
    <3>1. /\ \A u \in Request \ {q} : req'[u] = req[u]
          /\ req'[q].seen = BatchesOf(req[q].doc) /\ req'[q].doc = req[q].doc
      BY <2>3 DEF ReadChunks, TypeOK
    <3>2. QED
      BY <2>1, <2>2, <3>1 DEF BatchesApart, BatchesOf
  <2>4. CASE ~ ReadChunks(q)
    <3>1. \A u \in Request : req'[u].pc = "delete" => req'[u] = req[u]
      BY <1>3, <2>4, HandlerFields DEF RowlessStep, Put, PutFails, UploadFails, DropObject,
         Rollback, BeginUpload, BeginUpdate, BeginDelete, Accept, Respond, Resting, TypeOK, Holding
    <3>2. QED
      BY <2>1, <2>2, <3>1 DEF BatchesApart
  <2>5. QED
    BY <2>3, <2>4
<1>4. CASE SweepSelect \/ SweepRows \/ SweepObjects \/ SweepFails \/ UNCHANGED vars
  <2>1. UNCHANGED <<rows, chunks, batches, req>>
    BY <1>4 DEF SweepSelect, SweepRows, SweepObjects, SweepFails, vars
  <2>2. QED
    BY <2>1 DEF BatchesApart, OneBatch, BatchesOf, Found, Stored
<1>5. ASSUME NEW p \in Process, Crash(p) PROVE BatchesApart' /\ OneBatch'
  <2>1. /\ UNCHANGED <<rows, chunks, batches>>
        /\ \A q \in Request : req'[q].pc = "delete" => req'[q] = req[q]
    BY <1>5 DEF Crash, Resting
  <2>2. QED
    BY <2>1 DEF BatchesApart, OneBatch, BatchesOf, Found, Stored
<1>6. QED
  BY <1>1, <1>2, <1>3, <1>4, <1>5 DEF Sweep

LEMMA StepChunks == ChunksInv /\ [Next]_vars => ChunksInv'
<1> SUFFICES ASSUME ChunksInv, [Next]_vars PROVE ChunksInv'
  OBVIOUS
<1>1. ObjectsInv'
  BY StepObjects DEF ChunksInv
<1>2. BatchesApart' /\ OneBatch'
  BY NextSplit, WritersChunks, CommitDeleteChunks, TrimmedChunks, OthersChunks
<1>3. QED
  BY <1>1, <1>2 DEF ChunksInv

\* A live document has one generation of chunks in every reachable state of every
\* instance, whatever updates, deletions, sweeps and crashes overlap.
THEOREM GenerationsCorrect == Spec => []OneGeneration
<1>1. ChunksInv => OneGeneration
  BY FS_Singleton DEF ChunksInv, OneBatch, OneGeneration
<1>2. QED
  BY InitChunks, StepChunks, <1>1, PTL DEF Spec
--------------------------------------------------------------------------------
(* Why search is exact while one process serves.  Its event loop runs one handler   *)
(* from a SELECT to the COMMIT, so what an update or a deletion read is what it      *)
(* writes over: nobody else writes a live document or its chunks in between.         *)

\* One process serves, and it stays the only one.
Lone == \A p, r \in serving : p = r

ServedBy == \A q \in Request : req[q].pc # "idle" => req[q].proc \in serving

OneOnLoop ==
  \A q, u \in Request : OnLoop(q) /\ OnLoop(u) /\ req[q].proc = req[u].proc => q = u

ChunksExact == \A b \in chunks : Found(b.doc) /\ rows[b.doc].content = b.content

\* What an update and a deletion have read is still so.
ReadsFresh ==
  \A q \in Request :
    /\ req[q].pc = "update" => Found(req[q].doc) /\ rows[req[q].doc].content = req[q].was
    /\ req[q].pc = "delete" => \A b \in BatchesOf(req[q].doc) : \E s \in req[q].seen : s.n = b.n

ExactInv ==
  ChunksInv /\ ServedBy /\ OneOnLoop /\ (Lone => ChunksExact /\ ReadsFresh)

\* What a step does to the handlers: it ends or advances one, begins one on a loop
\* that is free, or a crash ends some; and no step changes who serves.
HandlerStep(q) ==
  /\ \A u \in Request \ {q} : req'[u] = req[u]
  /\ \/ req'[q].pc = "idle"
     \/ /\ req[q].pc # "idle" /\ req'[q].proc = req[q].proc
        /\ OnLoop(q) \/ req'[q].pc = "stored" \/ LoopFree(req[q].proc)
     \/ req'[q].proc \in serving /\ LoopFree(req'[q].proc)

LEMMA HandlerSteps ==
  ASSUME TypeOK, [Next]_vars
  PROVE  /\ serving' = serving
         /\ \/ \E q \in Request : HandlerStep(q)
            \/ \A q \in Request : req'[q] = req[q] \/ req'[q].pc = "idle"
<1> USE DEF TypeOK
<1>1. ASSUME NEW q \in Request, UploadCommits(q) \/ CommitUpdate(q) \/ CommitDelete(q)
      PROVE  serving' = serving /\ HandlerStep(q)
  <2>1. CASE UploadCommits(q) \/ CommitDelete(q)
    <3>1. serving' = serving /\ req' = [req EXCEPT ![q] = Resting]
      BY <2>1 DEF UploadCommits, CommitDelete, Respond
    <3>2. QED
      BY <3>1 DEF Resting, HandlerStep
  <2>2. CASE CommitUpdate(q)
    <3>1. /\ serving' = serving /\ \A u \in Request \ {q} : req'[u] = req[u]
          /\ OnLoop(q) /\ req[q].pc # "idle"
          /\ req'[q].pc = "idle" \/ req'[q].proc = req[q].proc
      BY <2>2 DEF CommitUpdate, Resting, OnLoop
    <3>2. QED
      BY <3>1 DEF HandlerStep
  <2>3. QED
    BY <1>1, <2>1, <2>2
<1>2. ASSUME NEW q \in Request, RowlessStep(q)
      PROVE  serving' = serving /\ HandlerStep(q)
  <2>1. CASE Put(q) \/ UploadFails(q)
    <3>1. req[q] \in Holding
      BY <2>1, HandlerFields DEF Put, UploadFails
    <3>2. QED
      BY <2>1, <3>1 DEF Put, UploadFails, HandlerStep, Holding
  <2>2. CASE PutFails(q) \/ DropObject(q) \/ Rollback(q) \/ ReadChunks(q)
    BY <2>2 DEF PutFails, DropObject, Rollback, ReadChunks, Respond, Resting, HandlerStep, OnLoop
  <2>3. ASSUME NEW p \in Process, NEW d \in Docs,
               BeginUpload(q, p, d) \/ BeginUpdate(q, p, d) \/ BeginDelete(q, p, d)
        PROVE  serving' = serving /\ HandlerStep(q)
    BY <2>3 DEF BeginUpload, BeginUpdate, BeginDelete, Accept, HandlerStep
  <2>4. QED
    BY <1>2, <2>1, <2>2, <2>3 DEF RowlessStep
<1>3. CASE (\E p \in Process, d \in Docs : CreateText(p, d)) \/ (\E d \in Docs : Expire(d))
            \/ Sweep \/ SweepFails \/ (\E p \in Process : TrimChunks(p)) \/ UNCHANGED vars
  BY <1>3 DEF CreateText, Expire, Sweep, SweepSelect, SweepRows, SweepObjects, SweepCommits,
     SweepFails, TrimChunks, vars
<1>4. ASSUME NEW p \in Process, Crash(p)
      PROVE  /\ serving' = serving
             /\ \A q \in Request : req'[q] = req[q] \/ req'[q].pc = "idle"
  BY <1>4 DEF Crash, Resting
<1>5. QED
  BY NextSplit, <1>1, <1>2, <1>3, <1>4

LEMMA StepLoops ==
  ASSUME TypeOK, ServedBy, OneOnLoop, [Next]_vars
  PROVE  ServedBy' /\ OneOnLoop' /\ serving' = serving
<1>1. serving' = serving
  BY HandlerSteps
<1>2. ASSUME NEW q \in Request, HandlerStep(q) PROVE ServedBy' /\ OneOnLoop'
  <2>1. ServedBy'
    BY <1>1, <1>2 DEF HandlerStep, ServedBy
  <2>2. \A u \in Request \ {q} :
          OnLoop(q)' /\ OnLoop(u)' => req'[q].proc # req'[u].proc
    BY <1>2 DEF HandlerStep, OneOnLoop, OnLoop, LoopFree
  <2>3. \A u, v \in Request \ {q} :
          OnLoop(v)' /\ OnLoop(u)' /\ req'[v].proc = req'[u].proc => u = v
    BY <1>2 DEF HandlerStep, OneOnLoop, OnLoop
  <2>4. OneOnLoop'
    BY <2>2, <2>3 DEF OneOnLoop
  <2>5. QED
    BY <2>1, <2>4
<1>3. CASE \A q \in Request : req'[q] = req[q] \/ req'[q].pc = "idle"
  BY <1>1, <1>3 DEF ServedBy, OneOnLoop, OnLoop
<1>4. QED
  BY <1>1, <1>2, <1>3, HandlerSteps

\* The one loop: at most one handler is on it, and none where it is free.
LEMMA OneLoop ==
  ASSUME Lone, ServedBy, OneOnLoop
  PROVE  /\ \A q, u \in Request : OnLoop(q) /\ OnLoop(u) => q = u
         /\ \A p \in serving : LoopFree(p) => \A u \in Request : ~ OnLoop(u)
<1>1. \A u \in Request : OnLoop(u) => req[u].proc \in serving
  BY DEF ServedBy, OnLoop
<1>2. QED
  BY <1>1 DEF Lone, OneOnLoop, LoopFree

LEMMA InsertExact ==
  ASSUME ChunksInv, ChunksExact, NEW d \in Docs, NEW content \in Contents, NEW key \in BOOLEAN,
         d \notin DOMAIN rows, Insert(d, content, key)
  PROVE  ChunksExact'
<1>1. [state |-> "live", content |-> content, key |-> key] \in Row
  BY DEF Row, State
<1>2. /\ DOMAIN rows' = DOMAIN rows \cup {d}
      /\ rows'[d] = [state |-> "live", content |-> content, key |-> key]
      /\ \A e \in DOMAIN rows \ {d} : rows'[e] = rows[e]
  BY <1>1, WriteType DEF Insert, ChunksInv, ObjectsInv
<1>3. \A b \in chunks : b.doc \in DOMAIN rows \ {d}
  BY DEF ChunksInv, BatchesApart
<1>4. \A b \in chunks' : b \in chunks \/ (b.doc = d /\ b.content = content)
  BY DEF Insert, Batch
<1>5. QED
  BY <1>2, <1>3, <1>4 DEF ChunksExact, Found, Stored

\* A request that commits leaves the loop, so nobody holds a reading after it.
LEMMA CommitsExact ==
  ASSUME ExactInv, Lone,
         \/ \E p \in Process, d \in Docs : CreateText(p, d)
         \/ \E q \in Request : UploadCommits(q) \/ CommitUpdate(q) \/ CommitDelete(q)
  PROVE  ChunksExact' /\ ReadsFresh'
<1> USE DEF ExactInv
<1>0. TypeOK
  BY DEF ChunksInv, ObjectsInv
<1>1. ASSUME NEW p \in Process, NEW d \in Docs, CreateText(p, d)
      PROVE  ChunksExact' /\ ReadsFresh'
  <2>1. d \notin DOMAIN rows /\ \A u \in Request : ~ OnLoop(u)
    BY <1>1, OneLoop DEF CreateText, ChunksInv, ObjectsInv, Agreement, FreshUnused
  <2>2. PICK content \in Contents : Insert(d, content, FALSE)
    BY <1>1 DEF CreateText
  <2>3. ReadsFresh'
    BY <1>1, <2>1 DEF CreateText, ReadsFresh, OnLoop
  <2>4. QED
    BY <2>1, <2>2, <2>3, InsertExact
<1>2. ASSUME NEW q \in Request, UploadCommits(q) PROVE ChunksExact' /\ ReadsFresh'
  <2>1. req[q].doc \in Docs /\ req[q].doc \notin DOMAIN rows /\ req[q].proc \in serving
    BY <1>0, <1>2, HandlerFields
       DEF UploadCommits, TypeOK, ChunksInv, ObjectsInv, Agreement, UploadsAlone, Uploading, ServedBy
  <2>2. PICK content \in Contents : Insert(req[q].doc, content, TRUE)
    BY <1>2 DEF UploadCommits
  <2>3. \A u \in Request : ~ OnLoop(u)
    BY <1>2, <2>1, OneLoop DEF UploadCommits
  <2>4. ReadsFresh'
    BY <1>0, <1>2, <2>3 DEF UploadCommits, Respond, Resting, ReadsFresh, OnLoop, TypeOK
  <2>5. QED
    BY <2>1, <2>2, <2>4, InsertExact
<1>3. ASSUME NEW q \in Request, CommitUpdate(q) PROVE ChunksExact' /\ ReadsFresh'
  <2> DEFINE row == [rows[req[q].doc] EXCEPT
                 !.content = IF req[q].content # req[q].was THEN req[q].content ELSE @,
                 !.key = KeyAfterUpdate(req[q].doc)]
  <2>1. PICK d \in Docs : d = req[q].doc
    BY <1>0, <1>3, HandlerFields DEF CommitUpdate, TypeOK
  <2>2. PICK content \in Contents : content = req[q].content
    BY <1>0, <1>3, HandlerFields DEF CommitUpdate, TypeOK, Updating
  <2>3. /\ d \in DOMAIN rows /\ rows[d] \in Row
        /\ Write(d, row) /\ chunks' = Replaced(d, content)
    BY <1>0, <1>3, <2>1, <2>2 DEF CommitUpdate, TypeOK, Stored
  <2>4. rows[d].state = "live" /\ rows[d].content = req[q].was
    BY <1>3, <2>1 DEF CommitUpdate, ReadsFresh, Found
  <2>5. row \in Row /\ row.state = "live" /\ row.content = content
    BY <2>1, <2>2, <2>3, <2>4 DEF Row, KeyAfterUpdate
  <2> HIDE DEF row
  <2>6. /\ DOMAIN rows' = DOMAIN rows
        /\ rows'[d].state = "live" /\ rows'[d].content = content
        /\ \A e \in DOMAIN rows \ {d} : rows'[e] = rows[e]
    BY <1>0, <2>3, <2>5, WriteType
  <2>7. \A b \in chunks' : (b \in chunks /\ b.doc # d) \/ (b.doc = d /\ b.content = content)
    BY <2>3 DEF Replaced, BatchesOf, Batch
  <2>8. ChunksExact'
    BY <2>3, <2>6, <2>7 DEF ChunksExact, Found, Stored
  <2>9. /\ \A u \in Request \ {q} : ~ OnLoop(u) /\ req'[u] = req[u]
        /\ req'[q].pc \in {"drop", "idle"}
    BY <1>0, <1>3, OneLoop DEF CommitUpdate, OnLoop, Resting, TypeOK
  <2>10. ReadsFresh'
    BY <2>9 DEF ReadsFresh, OnLoop
  <2>11. QED
    BY <2>8, <2>10
<1>4. ASSUME NEW q \in Request, CommitDelete(q) PROVE ChunksExact' /\ ReadsFresh'
  <2> DEFINE row == [rows[req[q].doc] EXCEPT !.state = "deleted"]
  <2>1. PICK d \in Docs : d = req[q].doc
    BY <1>0, <1>4, HandlerFields DEF CommitDelete, TypeOK
  <2>2. /\ d \in DOMAIN rows /\ Write(d, row) /\ row \in Row
        /\ chunks' = Marked(req[q].seen)
    BY <1>0, <1>4, <2>1 DEF CommitDelete, TypeOK, Stored, Row, State
  <2>3. DOMAIN rows' = DOMAIN rows /\ \A e \in DOMAIN rows \ {d} : rows'[e] = rows[e]
    BY <1>0, <2>2, WriteType
  <2>4. \A b \in chunks' : b \in chunks /\ b.doc # d
    BY <1>4, <2>1, <2>2 DEF CommitDelete, Marked, ReadsFresh, BatchesOf
  <2>5. ChunksExact'
    BY <2>3, <2>4 DEF ChunksExact, Found, Stored
  <2>6. /\ \A u \in Request \ {q} : ~ OnLoop(u) /\ req'[u] = req[u]
        /\ req'[q].pc = "idle"
    BY <1>0, <1>4, OneLoop DEF CommitDelete, Respond, OnLoop, Resting, TypeOK
  <2>7. ReadsFresh'
    BY <2>6 DEF ReadsFresh, OnLoop
  <2>8. QED
    BY <2>5, <2>7
<1>5. QED
  BY <1>1, <1>2, <1>3, <1>4

\* The other steps of a handler read what is committed, or forget what they read.
LEMMA RowlessExact ==
  ASSUME ExactInv, Lone, NEW q \in Request, RowlessStep(q)
  PROVE  ChunksExact' /\ ReadsFresh'
<1> USE DEF ExactInv
<1>0. TypeOK
  BY DEF ChunksInv, ObjectsInv
<1>1. UNCHANGED <<rows, chunks>>
  BY DEF RowlessStep, Put, PutFails, UploadFails, DropObject, Rollback, ReadChunks,
     BeginUpload, BeginUpdate, BeginDelete
<1>2. ChunksExact'
  BY <1>1 DEF ChunksExact, Found, Stored
<1>3. \A u \in Request \ {q} : req'[u] = req[u]
  BY <1>0 DEF RowlessStep, Put, PutFails, UploadFails, DropObject, Rollback, ReadChunks,
     BeginUpload, BeginUpdate, BeginDelete, Accept, Respond, TypeOK
<1>4. /\ req'[q].pc = "update" => Found(req'[q].doc) /\ rows[req'[q].doc].content = req'[q].was
      /\ req'[q].pc = "delete" => \A b \in BatchesOf(req'[q].doc) : \E s \in req'[q].seen : s.n = b.n
  <2>1. CASE Put(q) \/ UploadFails(q)
    <3>1. req[q] \in Holding
      BY <1>0, <2>1, HandlerFields DEF Put, UploadFails, TypeOK
    <3>2. req'[q].pc \in {"stored", "cleanup"}
      BY <1>0, <2>1, <3>1 DEF Put, UploadFails, TypeOK, Holding
    <3>3. QED
      BY <3>2
  <2>2. CASE PutFails(q) \/ DropObject(q) \/ Rollback(q)
    BY <1>0, <2>2 DEF PutFails, DropObject, Rollback, Respond, Resting, TypeOK
  <2>3. CASE ReadChunks(q)
    BY <1>0, <2>3 DEF ReadChunks, TypeOK
  <2>4. ASSUME NEW p \in Process, NEW d \in Docs,
               BeginUpload(q, p, d) \/ BeginUpdate(q, p, d) \/ BeginDelete(q, p, d)
        PROVE  /\ req'[q].pc = "update" =>
                    Found(req'[q].doc) /\ rows[req'[q].doc].content = req'[q].was
               /\ req'[q].pc # "delete"
    <3>1. CASE BeginUpdate(q, p, d)
      BY <1>0, <3>1 DEF BeginUpdate, Accept, TypeOK
    <3>2. CASE BeginUpload(q, p, d) \/ BeginDelete(q, p, d)
      BY <1>0, <3>2 DEF BeginUpload, BeginDelete, Accept, TypeOK
    <3>3. QED
      BY <2>4, <3>1, <3>2
  <2>5. QED
    BY <2>1, <2>2, <2>3, <2>4 DEF RowlessStep
<1>5. ReadsFresh'
  BY <1>1, <1>3, <1>4 DEF ReadsFresh, Found, Stored, BatchesOf
<1>6. QED
  BY <1>2, <1>5

LEMMA OthersExact ==
  ASSUME ExactInv, Lone,
         \/ \E d \in Docs : Expire(d)
         \/ Sweep \/ SweepFails
         \/ \E p \in Process : TrimChunks(p) \/ Crash(p)
         \/ UNCHANGED vars
  PROVE  ChunksExact' /\ ReadsFresh'
<1> USE DEF ExactInv
<1>0. TypeOK
  BY DEF ChunksInv, ObjectsInv
<1>1. ASSUME NEW d \in Docs, Expire(d) PROVE ChunksExact' /\ ReadsFresh'
  <2> DEFINE row == [rows[d] EXCEPT !.state = "expired"]
  <2>1. /\ d \in DOMAIN rows /\ rows[d].state = "deleted" /\ Write(d, row)
        /\ row \in Row /\ UNCHANGED <<chunks, req>>
    BY <1>0, <1>1 DEF Expire, Stored, Row, State, TypeOK
  <2>2. DOMAIN rows' = DOMAIN rows /\ \A e \in DOMAIN rows \ {d} : rows'[e] = rows[e]
    BY <1>0, <2>1, WriteType
  <2>3. ~ Found(d) /\ \A e \in Docs : Found(e) => Found(e)' /\ rows'[e] = rows[e]
    BY <2>1, <2>2 DEF Found, Stored
  <2>4. \A b \in chunks : b.doc \in Docs
    BY <1>0 DEF TypeOK, BatchRow
  <2>5. \A q \in Request : req[q].pc # "idle" => req[q].doc \in Docs
    BY <1>0, HandlerFields DEF TypeOK
  <2>6. ChunksExact'
    BY <2>1, <2>3, <2>4 DEF ChunksExact
  <2>7. ReadsFresh'
    BY <2>1, <2>3, <2>5 DEF ReadsFresh, BatchesOf
  <2>8. QED
    BY <2>6, <2>7
<1>2. CASE SweepCommits
  <2>1. /\ DOMAIN rows' = DOMAIN rows \ sweep.docs
        /\ \A e \in DOMAIN rows' : rows'[e] = rows[e]
        /\ chunks' = {b \in chunks : b.doc \notin sweep.docs} /\ UNCHANGED req
    BY <1>0, <1>2, RemovedType DEF SweepCommits
  <2>2. \A d \in sweep.docs : ~ Found(d)
    BY DEF ChunksInv, ObjectsInv, Agreement, SweptDead, Found
  <2>3. ChunksExact'
    BY <2>1 DEF ChunksExact, Found, Stored
  <2>4. ReadsFresh'
    BY <2>1, <2>2 DEF ReadsFresh, BatchesOf, Found, Stored
  <2>5. QED
    BY <2>3, <2>4
<1>3. CASE SweepSelect \/ SweepRows \/ SweepObjects \/ SweepFails \/ UNCHANGED vars
  <2>1. UNCHANGED <<rows, chunks, req>>
    BY <1>3 DEF SweepSelect, SweepRows, SweepObjects, SweepFails, vars
  <2>2. QED
    BY <2>1 DEF ChunksExact, ReadsFresh, BatchesOf, Found, Stored
<1>4. ASSUME NEW p \in Process, TrimChunks(p) PROVE ChunksExact' /\ ReadsFresh'
  <2>1. PICK c \in chunks : chunks' = (chunks \ {c}) \cup {[c EXCEPT !.trimmed = TRUE]}
    BY <1>4 DEF TrimChunks
  <2>2. UNCHANGED <<rows, req>> /\ \A u \in Request : ~ OnLoop(u)
    BY <1>4, OneLoop DEF TrimChunks
  <2>3. \A b \in chunks' : \E o \in chunks : o.doc = b.doc /\ o.content = b.content
    BY <1>0, <2>1 DEF TypeOK, BatchRow
  <2>4. ChunksExact'
    BY <2>2, <2>3 DEF ChunksExact, Found, Stored
  <2>5. ReadsFresh'
    BY <2>2 DEF ReadsFresh, OnLoop
  <2>6. QED
    BY <2>4, <2>5
<1>5. ASSUME NEW p \in Process, Crash(p) PROVE ChunksExact' /\ ReadsFresh'
  <2>1. /\ UNCHANGED <<rows, chunks>>
        /\ \A q \in Request : req'[q] = req[q] \/ req'[q].pc = "idle"
    BY <1>5 DEF Crash, Resting
  <2>2. QED
    BY <2>1 DEF ChunksExact, ReadsFresh, BatchesOf, Found, Stored
<1>6. QED
  BY <1>1, <1>2, <1>3, <1>4, <1>5 DEF Sweep

LEMMA InitExact == Init => ExactInv
BY InitChunks DEF Init, ExactInv, ServedBy, OneOnLoop, OnLoop, ChunksExact, ReadsFresh, Resting

LEMMA StepExact == ExactInv /\ [Next]_vars => ExactInv'
<1> SUFFICES ASSUME ExactInv, [Next]_vars PROVE ExactInv'
  OBVIOUS
<1>1. ChunksInv'
  BY StepChunks DEF ExactInv
<1>2. ServedBy' /\ OneOnLoop' /\ serving' = serving
  BY StepLoops DEF ExactInv, ChunksInv, ObjectsInv
<1>3. Lone' => Lone
  BY <1>2 DEF Lone
<1>4. Lone => ChunksExact' /\ ReadsFresh'
  BY NextSplit, CommitsExact, RowlessExact, OthersExact
<1>5. QED
  BY <1>1, <1>2, <1>3, <1>4 DEF ExactInv

\* Serving processes are finitely many, so the one that Cardinality counts is alone.
LEMMA OneIsLone ==
  ASSUME serving \in Serving, Cardinality(serving) = 1
  PROVE  Lone
<1>1. IsFiniteSet(serving)
  BY ServingAssumption
<1>2. PICK p : serving = {p}
  BY <1>1, FS_Singleton
<1>3. QED
  BY <1>2 DEF Lone

\* While one backend process serves, search finds the chunks of live documents only,
\* and of their present content, in every reachable state of every instance.
THEOREM SearchCorrect == Spec => []SearchExact
<1>1. ExactInv /\ serving \in Serving => SearchExact
  BY OneIsLone DEF ExactInv, ChunksExact, SearchExact
<1>2. Init => serving \in Serving
  BY DEF Init
<1>3. ExactInv /\ serving \in Serving /\ [Next]_vars => (serving \in Serving)'
  BY StepLoops DEF ExactInv, ChunksInv, ObjectsInv
<1>4. QED
  BY InitExact, StepExact, <1>1, <1>2, <1>3, PTL DEF Spec
================================================================================
