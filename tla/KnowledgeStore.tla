---------------------------- MODULE KnowledgeStore -----------------------------
(***************************************************************************)
(* A user's documents: knowledge_base rows, the embeddings rows of their    *)
(* chunks, the stored objects of uploaded files, and the retention sweep    *)
(* that hard-deletes what was soft-deleted long enough ago.                 *)
(*                                                                          *)
(* The database and the object store commit apart, so every handler that    *)
(* writes both is a sequence of steps a crash or an error may cut.  A       *)
(* handler leaves its event loop only while an upload awaits the store; the *)
(* sweep is a process of its own (a CronJob), and a rollout overlaps two    *)
(* backend processes.  From its first UPDATE to its COMMIT a handler is one *)
(* action: the row lock it takes keeps the other writers of the document    *)
(* waiting, so only what it read before can be stale.                       *)
(*                                                                          *)
(* Simplifications, each sound for what is stated below:                    *)
(*   - the chunks of one content, inserted and soft-deleted together, are   *)
(*     one batch; a soft-deleted batch no longer matters to anything and is *)
(*     dropped;                                                             *)
(*   - one user: every query is filtered by the owner, and an object's key  *)
(*     is its document's id under the owner's prefix;                       *)
(*   - a failure that happens before anything is written changes nothing    *)
(*     and is no step: a refused file, an unreadable one, an embedding      *)
(*     server that fails a new text document;                               *)
(*   - the sweep is configured to purge (a NULL window purges nothing).     *)
(*                                                                          *)
(* Two assumptions on what is outside: a COMMIT that raises has not been    *)
(* made (were only its answer lost, the compensating delete of an upload    *)
(* would take the object of a live row); and the object store reports the   *)
(* missing keys of a batch delete as deleted, as S3 does.                   *)
(***************************************************************************)
EXTENDS Naturals, FiniteSets

CONSTANTS
  Serving,     \* sets of backend processes that may serve: one, or two of a rollout
  Request,     \* requests in flight at once, over all processes
  Docs,        \* document ids
  Contents,    \* texts a document may have
  MaxBatches,  \* bound: batches of chunks ever inserted
  MaxFaults    \* bound: crashes and failed calls to the object store

Process == UNION Serving

ASSUME BoundAssumption == MaxBatches \in Nat /\ MaxFaults \in Nat
ASSUME ServingAssumption == \A s \in Serving : IsFiniteSet(s)

VARIABLES
  serving,  \* the processes that run
  rows,     \* committed knowledge_base rows: id -> state, content, key
  chunks,   \* committed batches of embeddings rows that are not soft-deleted
  objects,  \* documents whose object is in the store
  fresh,    \* ids no request has generated yet
  batches,  \* batches inserted so far
  req,      \* per request: its handler's local state
  sweep,    \* the sweep's: the documents it found and the keys it holds
  leaked,   \* history: objects a crash or a failed call left unnamed
  faults    \* faults so far

vars == <<serving, rows, chunks, objects, fresh, batches, req, sweep, leaked, faults>>

State == {"live", "deleted", "expired"}  \* expired: soft-deleted before the purge cutoff
Row == [state : State, content : Contents, key : BOOLEAN]

BatchRow == [n : Nat, doc : Docs, content : Contents, trimmed : BOOLEAN]

\* A handler's local state: what it holds across statements.
Handler ==
  [pc : {"idle"}]
    \cup [pc : {"put", "stored", "cleanup", "drop", "read"}, proc : Process, doc : Docs]
    \cup [pc : {"update"}, proc : Process, doc : Docs,
          content : Contents, was : Contents, key : BOOLEAN]
    \cup [pc : {"delete"}, proc : Process, doc : Docs, seen : SUBSET BatchRow]

Resting == [pc |-> "idle"]
NoSweep == [pc |-> "idle", docs |-> {}, keys |-> {}]

Init ==
  /\ serving \in Serving
  /\ rows = [d \in {} |-> {}]
  /\ chunks = {}
  /\ objects = {}
  /\ fresh = Docs
  /\ batches = 0
  /\ req = [q \in Request |-> Resting]
  /\ sweep = NoSweep
  /\ leaked = {}
  /\ faults = 0

Stored(d) == d \in DOMAIN rows
Found(d) == Stored(d) /\ rows[d].state = "live"   \* get_by_id: deleted_at IS NULL

OnLoop(q) == req[q].pc \notin {"idle", "put", "stored"}

\* The event loop of p runs no handler: a request may begin or resume.
LoopFree(p) == \A q \in Request : OnLoop(q) => req[q].proc # p

Accept(q, p, handler) ==
  /\ p \in serving
  /\ req[q].pc = "idle"
  /\ LoopFree(p)
  /\ req' = [req EXCEPT ![q] = handler]

Respond(q) == req' = [req EXCEPT ![q] = Resting]

\* The sweep's transaction has deleted the row and not committed yet.
Locked(d) == sweep.pc \in {"objects", "commit"} /\ d \in sweep.docs

Fault == faults < MaxFaults /\ faults' = faults + 1

Write(d, row) == rows' = [e \in DOMAIN rows \cup {d} |-> IF e = d THEN row ELSE rows[e]]
Removed(ds) == [e \in DOMAIN rows \ ds |-> rows[e]]
BatchesOf(d) == {b \in chunks : b.doc = d}
Batch(d, content) == [n |-> batches, doc |-> d, content |-> content, trimmed |-> FALSE]
--------------------------------------------------------------------------------
(* POST: a new document, from a text or from a file. *)

\* generate_and_attach_embeddings, create, commit.
Insert(d, content, key) ==
  /\ Write(d, [state |-> "live", content |-> content, key |-> key])
  /\ chunks' = chunks \cup {Batch(d, content)}
  /\ batches' = batches + 1

CreateText(p, d) ==
  /\ p \in serving /\ LoopFree(p)
  /\ d \in fresh /\ batches < MaxBatches
  /\ fresh' = fresh \ {d}
  /\ \E content \in Contents : Insert(d, content, FALSE)
  /\ UNCHANGED <<serving, objects, req, sweep, leaked, faults>>

BeginUpload(q, p, d) ==
  /\ d \in fresh /\ batches < MaxBatches
  /\ Accept(q, p, [pc |-> "put", proc |-> p, doc |-> d])
  /\ fresh' = fresh \ {d}
  /\ UNCHANGED <<serving, rows, chunks, objects, batches, sweep, leaked, faults>>

\* put_object, in a thread of the pool.
Put(q) ==
  /\ req[q].pc = "put"
  /\ objects' = objects \cup {req[q].doc}
  /\ req' = [req EXCEPT ![q].pc = "stored"]
  /\ UNCHANGED <<serving, rows, chunks, fresh, batches, sweep, leaked, faults>>

\* It raises, before the store has the object or after; the request ends there.
PutFails(q) ==
  /\ req[q].pc = "put"
  /\ Fault
  /\ \E kept \in {{}, {req[q].doc}} :
       objects' = objects \cup kept /\ leaked' = leaked \cup kept
  /\ Respond(q)
  /\ UNCHANGED <<serving, rows, chunks, fresh, batches, sweep>>

UploadCommits(q) ==
  /\ req[q].pc = "stored" /\ LoopFree(req[q].proc)
  /\ batches < MaxBatches
  /\ \E content \in Contents : Insert(req[q].doc, content, TRUE)
  /\ Respond(q)
  /\ UNCHANGED <<serving, objects, fresh, sweep, leaked, faults>>

\* The embedding server or the database failed, the COMMIT included (taken as not
\* made): rollback, then the compensating delete.
UploadFails(q) ==
  /\ req[q].pc = "stored" /\ LoopFree(req[q].proc)
  /\ req' = [req EXCEPT ![q].pc = "cleanup"]
  /\ UNCHANGED <<serving, rows, chunks, objects, fresh, batches, sweep, leaked, faults>>

\* delete_object on a key in hand, after a failed upload or a committed update: an
\* object already gone is no error, a failed call loses the object's last name.
DropObject(q) ==
  /\ req[q].pc \in {"cleanup", "drop"}
  /\ Respond(q)
  /\ \/ objects' = objects \ {req[q].doc} /\ UNCHANGED <<leaked, faults>>
     \/ Fault /\ leaked' = leaked \cup ({req[q].doc} \cap objects) /\ UNCHANGED objects
  /\ UNCHANGED <<serving, rows, chunks, fresh, batches, sweep>>
--------------------------------------------------------------------------------
(* PUT: new content. *)

BeginUpdate(q, p, d) ==
  /\ Found(d) /\ batches < MaxBatches
  /\ \E content \in Contents :
       Accept(q, p, [pc |-> "update", proc |-> p, doc |-> d, content |-> content,
                     was |-> rows[d].content, key |-> rows[d].key])
  /\ UNCHANGED <<serving, rows, chunks, objects, fresh, batches, sweep, leaked, faults>>

\* Mutant of Replaced: the old chunks stay beside the new ones.
ReplacedBeside(d, content) == chunks \cup {Batch(d, content)}

\* replace_embeddings: one bulk UPDATE over the chunks committed by now, and inserts.
Replaced(d, content) == (chunks \ BatchesOf(d)) \cup {Batch(d, content)}

\* Mutant of KeyAfterUpdate: the row goes on naming the object.
KeyAfterUpdateKept(d) == rows[d].key

KeyAfterUpdate(d) == FALSE

\* The UPDATE, the chunks and the COMMIT.  The ORM writes the content only where
\* it differs from the one it loaded; the row may have been soft-deleted since.
CommitUpdate(q) ==
  LET d == req[q].doc IN
  /\ req[q].pc = "update" /\ Stored(d) /\ ~ Locked(d)
  /\ batches < MaxBatches
  /\ Write(d, [rows[d] EXCEPT
                 !.content = IF req[q].content # req[q].was THEN req[q].content ELSE @,
                 !.key = KeyAfterUpdate(d)])
  /\ chunks' = Replaced(d, req[q].content)
  /\ batches' = batches + 1
  /\ req' = [req EXCEPT ![q] =
       IF req[q].key THEN [pc |-> "drop", proc |-> req[q].proc, doc |-> d] ELSE Resting]
  /\ UNCHANGED <<serving, objects, fresh, sweep, leaked, faults>>

\* The embedding server failed, or the row is gone and the UPDATE or the UPDATEs of
\* a deletion match none (StaleDataError): a rollback leaves everything as it was.
Rollback(q) ==
  /\ \/ req[q].pc = "update"
     \/ req[q].pc = "delete" /\ ~ Stored(req[q].doc)
  /\ Respond(q)
  /\ UNCHANGED <<serving, rows, chunks, objects, fresh, batches, sweep, leaked, faults>>
--------------------------------------------------------------------------------
(* DELETE: a soft delete. *)

BeginDelete(q, p, d) ==
  /\ Found(d)
  /\ Accept(q, p, [pc |-> "read", proc |-> p, doc |-> d])
  /\ UNCHANGED <<serving, rows, chunks, objects, fresh, batches, sweep, leaked, faults>>

\* The embeddings to be marked are SELECTed before the flush writes anything.
ReadChunks(q) ==
  /\ req[q].pc = "read"
  /\ req' = [req EXCEPT ![q] = [pc |-> "delete", proc |-> req[q].proc, doc |-> req[q].doc,
                                seen |-> BatchesOf(req[q].doc)]]
  /\ UNCHANGED <<serving, rows, chunks, objects, fresh, batches, sweep, leaked, faults>>

\* Mutant of Marked: the embeddings are left to their own.
MarkedNone(seen) == chunks

Marked(seen) == {b \in chunks : \A s \in seen : s.n # b.n}

\* A second deletion in another process sets deleted_at anew.
CommitDelete(q) ==
  LET d == req[q].doc IN
  /\ req[q].pc = "delete" /\ Stored(d) /\ ~ Locked(d)
  /\ Write(d, [rows[d] EXCEPT !.state = "deleted"])
  /\ chunks' = Marked(req[q].seen)
  /\ Respond(q)
  /\ UNCHANGED <<serving, objects, fresh, batches, sweep, leaked, faults>>

\* DELETE /api/embeddings/{id}: the user removes a chunk of a document by hand.
TrimChunks(p) ==
  /\ p \in serving /\ LoopFree(p)
  /\ \E b \in chunks :
       /\ ~ b.trimmed /\ ~ Locked(b.doc)
       /\ chunks' = (chunks \ {b}) \cup {[b EXCEPT !.trimmed = TRUE]}
  /\ UNCHANGED <<serving, rows, objects, fresh, batches, req, sweep, leaked, faults>>
--------------------------------------------------------------------------------
(* purge_expired_knowledge_base, in the one transaction of a sweep. *)

Purgeable(d) == rows[d].state = "expired"

\* The SELECT of ids and keys.
SweepSelect ==
  /\ sweep.pc = "idle"
  /\ LET found == {d \in DOMAIN rows : Purgeable(d)}
     IN  /\ found # {}
         /\ sweep' = [pc |-> "rows", docs |-> found, keys |-> {d \in found : rows[d].key}]
  /\ UNCHANGED <<serving, rows, chunks, objects, fresh, batches, req, leaked, faults>>

\* The flushed DELETEs of embeddings and documents.
SweepRows ==
  /\ sweep.pc = "rows"
  /\ sweep' = [sweep EXCEPT !.pc = "objects"]
  /\ UNCHANGED <<serving, rows, chunks, objects, fresh, batches, req, leaked, faults>>

\* Mutant of Swept: a key whose object is gone fails the batch.
SweptStrictly == sweep.keys \subseteq objects

\* Whether the batch delete succeeds.  delete_many raises on any key the store reports
\* an error for; of a missing one it reports none.
Swept == TRUE

\* delete_many of the keys selected.
SweepObjects ==
  /\ sweep.pc = "objects" /\ Swept
  /\ objects' = objects \ sweep.keys
  /\ sweep' = [sweep EXCEPT !.pc = "commit"]
  /\ UNCHANGED <<serving, rows, chunks, fresh, batches, req, leaked, faults>>

\* The other purges follow, then the COMMIT.
SweepCommits ==
  /\ sweep.pc = "commit"
  /\ rows' = Removed(sweep.docs)
  /\ chunks' = {b \in chunks : b.doc \notin sweep.docs}
  /\ sweep' = NoSweep
  /\ UNCHANGED <<serving, objects, fresh, batches, req, leaked, faults>>

\* A statement, some of the deletes or a later purge fails, or the job dies: the
\* rows come back, the objects deleted by then do not.  The job is retried.
SweepFails ==
  /\ sweep.pc # "idle"
  /\ Fault
  /\ \E gone \in SUBSET (IF sweep.pc = "objects" THEN sweep.keys ELSE {}) :
       objects' = objects \ gone
  /\ sweep' = NoSweep
  /\ UNCHANGED <<serving, rows, chunks, fresh, batches, req, leaked>>
--------------------------------------------------------------------------------
(* The environment. *)

\* The purge window passes since a document was soft-deleted.
Expire(d) ==
  /\ Stored(d) /\ rows[d].state = "deleted"
  /\ Write(d, [rows[d] EXCEPT !.state = "expired"])
  /\ UNCHANGED <<serving, chunks, objects, fresh, batches, req, sweep, leaked, faults>>

\* A process dies: the keys its handlers held are forgotten; a put may still arrive.
Crash(p) ==
  LET mine == {q \in Request : req[q].pc # "idle" /\ req[q].proc = p}
      held == {req[q].doc : q \in {u \in mine : req[u].pc \in {"stored", "cleanup", "drop"}}}
  IN
  /\ mine # {} /\ Fault
  /\ \E late \in SUBSET {req[q].doc : q \in {u \in mine : req[u].pc = "put"}} :
       /\ objects' = objects \cup late
       /\ leaked' = leaked \cup late \cup (held \cap objects)
  /\ req' = [q \in Request |-> IF q \in mine THEN Resting ELSE req[q]]
  /\ UNCHANGED <<serving, rows, chunks, fresh, batches, sweep>>

Statement(q) ==
  \/ Put(q) \/ UploadCommits(q) \/ UploadFails(q) \/ DropObject(q)
  \/ CommitUpdate(q) \/ Rollback(q) \/ ReadChunks(q) \/ CommitDelete(q)

Sweep == SweepSelect \/ SweepRows \/ SweepObjects \/ SweepCommits

Next ==
  \/ \E q \in Request :
       \/ Statement(q)
       \/ PutFails(q)
       \/ \E p \in Process, d \in Docs :
            BeginUpload(q, p, d) \/ BeginUpdate(q, p, d) \/ BeginDelete(q, p, d)
  \/ \E p \in Process :
       \/ TrimChunks(p)
       \/ Crash(p)
       \/ \E d \in Docs : CreateText(p, d)
  \/ Sweep
  \/ SweepFails
  \/ \E d \in Docs : Expire(d)

Spec == Init /\ [][Next]_vars

\* Handlers go on (the loop resumes an upload whose put is done), the CronJob runs
\* again and again, and time passes.
Fairness ==
  /\ \A q \in Request : SF_vars(Statement(q))
  /\ WF_vars(Sweep)
  /\ \A d \in Docs : WF_vars(Expire(d))

FairSpec == Spec /\ Fairness
--------------------------------------------------------------------------------
(* Properties. *)

\* Every variable keeps its type.
TypeOK ==
  /\ serving \subseteq Process
  /\ rows \in [DOMAIN rows -> Row] /\ DOMAIN rows \subseteq Docs
  /\ chunks \subseteq BatchRow
  /\ objects \subseteq Docs /\ fresh \subseteq Docs /\ leaked \subseteq Docs
  /\ batches \in 0 .. MaxBatches /\ faults \in 0 .. MaxFaults
  /\ req \in [Request -> Handler]
  /\ sweep \in [pc : {"idle", "rows", "objects", "commit"},
                docs : SUBSET Docs, keys : SUBSET Docs]

InHand(d) == \E q \in Request : req[q].pc \in {"stored", "cleanup", "drop"} /\ req[q].doc = d

FileKept == \A d \in DOMAIN rows : Found(d) /\ rows[d].key => d \in objects

ObjectsNamed ==
  \A d \in objects : (Stored(d) /\ rows[d].key) \/ InHand(d) \/ d \in leaked

\* Rows and objects agree, whatever updates, deletions, sweeps and faults race.  A
\* live file-backed document has its file: the object goes only after the row
\* stopped naming it.  No object is forgotten silently: a row names it, a handler
\* still holds its key, or a crash or a failed call to the store lost it.
ObjectsAgree == FileKept /\ ObjectsNamed

\* Two overlapping updates, or an update and a sweep, leave a live document with one
\* generation of chunks; search never mixes an old content with a new one.
OneGeneration ==
  \A d \in Docs : Found(d) => Cardinality(BatchesOf(d)) = 1

\* With one backend process search is exact: each chunk is of a live document and of
\* its present content.  (Two processes: an update may write after a deletion it did
\* not see, and a deletion marks only the chunks it read.)
SearchExact ==
  Cardinality(serving) = 1 =>
    \A b \in chunks : Found(b.doc) /\ rows[b.doc].content = b.content

\* What a user deleted is purged in the end, its row and its chunks, although sweeps
\* fail after destroying objects and are run again.
DeletedPurged ==
  \A d \in Docs : (Stored(d) /\ ~ Found(d)) ~> (~ Stored(d) /\ BatchesOf(d) = {})
================================================================================
