# EAIStack: a TLA+ model of the backend

EAIStack is a chat application over an enterprise knowledge base: a FastAPI
backend (`backend/app`) that compiles YAML workflow definitions to LangGraph
graphs and keeps every state in PostgreSQL, a React frontend, an MCP server for
document search and an hourly retention job, deployed with Helm. This directory
holds TLA+ modules of the parts where several requests, processes or restarts
meet over that state, the TLC configurations that check them on small instances,
and proofs, for every instance, of the safety properties they check.

Run a check with `tlc -workers 2 -config X.cfg MCModule`, the proofs of a module
with `tlapm X_proofs.tla`.

## 1. The system

| Component | State it keeps | Operations | What makes it hard | What makes it correct |
|---|---|---|---|---|
| Workflow version store (`services/workflow_service.py`) | `workflow_versions` (append-only, numbered and hash-chained), `workflow_active_versions`, audit entries | create, save draft, publish, rollback, startup sync of the built-ins | two pods during a rollout, stale reads before writes, a crash in the middle, builds that differ | chains never fork; what is published is stored; the audit trail accounts for every version and pointer move; an admin's choice survives startups |
| Eval runs (`services/workflow_eval_service.py`) | `workflow_eval_runs` (one active slot), `workflow_eval_case_results` | start, advance (one case run per request), cancel, expiry by the next start | minutes-long awaits, the page that drives a run disappearing, several pages and pods, timeouts changed meanwhile | one slot, no case run recorded twice, a verdict on the whole suite, the slot always comes back |
| Chat turns (`services/chat_turn_service.py`, `agents/checkpointer.py`) | `conversation_threads`, `conversation_checkpoints`, `chat_turn_versions`, the guardrail pattern rows | chat, logout cleanup, retention sweep | an open transaction across the model call, blocking statements on the event loop, the pool's limit, purges beside turns | histories belong to their owner, purged conversations stay purged, serial turns are remembered, requests end |
| Workflow engine (`workflows/primitives.py`, `compiler.py`, `schema.py`) | the `WorkflowState` of a turn, kept in the checkpoint between turns | agent, tool, route, worker, reviewer and finalize nodes | state restored from former turns, caps, definitions that change between turns, failing turns | what is delivered was reviewed, rejected drafts leave nothing, turns end |
| Retention sweep (`services/retention_service.py`, `cli/retention_sweep.py`) | none of its own | purge of conversations, documents, keys, turn records | one transaction over everything, ids read first and deleted later | what expired goes, what is in use stays |
| Knowledge base (`api/knowledge_base.py`, `services/embedding_service.py`, `storage/`) | document rows, the embeddings rows of their chunks, stored objects | create, upload, update, delete, delete a chunk, search, purge | two stores without a common transaction, two pods that replace the same chunks | every live file has its object, no object is forgotten silently, search sees one content, what was deleted is purged |
| Rate limiting (`ratelimit/`, `services/rate_limiter_service.py`, `core/client_ip.py`) | token buckets in memory | check and consume, eviction, client address | limits that change under a bucket, eviction, clock steps, forged headers | burst plus pace over any stretch of time, unnoticed eviction, an exact Retry-After |
| Settings (`api/settings.py`) | one row of overrides, guardrail pattern rows, audit entries | save, create/toggle/delete a pattern, seeding | partial updates over the environment, two pods that save over stale rows, environments that change at a restart | effective values stay usable, the trail replays to the rows |
| Authentication (`core/auth.py`, `AuthContext.tsx`) | key cache, tokens in the browser | login, refresh, logout | concurrent refreshes of one token | a valid session is not lost |
| Guardrails, document search, API keys, tracing, dashboard, LLM clients, screens | - | pure functions, single-row operations, reads | - | - |

How they meet: a chat turn resolves the thread's workflow through the version
store (the version published at that moment), compiles it with the engine, runs
it under the conversation's checkpoint and records which version answered. An
eval run executes a version's suite through the same turn. The sweep and a
logout delete the threads and checkpoints turns write; it also purges the documents
a user deleted. The settings row gives the limiter its limits, the sweep its
windows, the chunker its sizes and an eval run its timeout, resolved at each use;
a chat turn seeds the pattern rows the settings screen switches. All of them share
PostgreSQL at READ COMMITTED and, inside a pod, one asyncio event loop on which
handlers call the database synchronously.

## 2. The modules

| Module | What it is |
|---|---|
| `WorkflowStore` | the version store, one action per database statement |
| `WorkflowHistory` | what the store promises: histories that only grow, and a published member |
| `WorkflowStore_proofs` | the theorems about `WorkflowStore` that speak of rows and pointers |
| `WorkflowTrail_proofs` | those about its audit trail, startups and `WorkflowHistory` |
| `EvalRuns` | eval runs over one or more event loops, with time |
| `EvalRuns_proofs` | the theorems about `EvalRuns` |
| `ChatTurn` | chat turns, logouts and the sweep over conversations |
| `ChatTurn_proofs` | the theorems about `ChatTurn` |
| `WorkflowEngine` | one conversation's turns through the nodes of a definition |
| `WorkflowEngine_proofs` | the theorems about `WorkflowEngine` |
| `KnowledgeStore` | documents, their chunks and stored objects, with the sweep's purge |
| `KnowledgeStore_proofs` | the theorems about `KnowledgeStore` |
| `Settings` | the settings row, the guardrail patterns and their audit trails |
| `Settings_proofs` | the theorems about `Settings` |
| `RateLimiter` | token buckets over a clock, with eviction and client addresses |
| `RateLimiter_proofs` | the theorems about `RateLimiter` |
| `MC*` | the instances TLC checks |

### WorkflowStore

`versions`, `active` and `audit` are the committed tables. `req[p]` is the
request process `p` runs with its open transaction: the rows it inserted, the
pointers it moved, the rows it locked, the audit entries it will commit, and what
it has read of the pointer. Inside a process nothing interleaves, because
these handlers never await; two processes interleave between statements. `View`
is what a SELECT sees at READ COMMITTED. `InsertVersion` waits while another open
transaction holds the key (workflow, sequence) and fails when that key was
committed meanwhile. A move is three statements. `ReadPointer` is
`get_active_version_id`, which keeps the id (`cached`) and lets go of the row; the
session refers to it only weakly, so `set_active` SELECTs it again
(`ReloadPointer`, `loaded`) and flushes (`MovePointer`): an UPDATE, which waits for
another transaction's lock and writes no column assigned the value it was loaded
with, or the INSERT of an absent row, which fails if another transaction has
inserted it meanwhile (`PointerCollides`). What the audit entry calls the
predecessor is `cached`, the value of the first SELECT. A version id stands for its
uuid and a row's `prev` for the hash of its predecessor (hashes are taken as collision-free). Refused input is one
action, `Fail`, and YAML validation a free choice; reads for the screens are left
out because they change nothing.

### EvalRuns

`runs` holds the job rows with the ticks each has been idle, `results` the
insert-only results. A handler is idle, on the loop, or awaiting the model; only
an await lets another handler of the same process run. An UPDATE up to its COMMIT
is one action, since the row lock keeps every other writer out; what a handler
decided on before it can be stale. Time may pass at any place (`Tick`), but no case
run outlives its timeout. Whether a case run passed is free: how
an answer is scored is a pure function.

### ChatTurn

A thread row has an owner and a status; a checkpoint is the set of turns in the
stored history; a request is at one of its statements. The model keeps what the
transaction holds while the turn awaits the model (`holds`, `seeding`), which
statements run on the loop (`OnLoop`) and which in the checkpointer's worker
thread, and the connection pool. A handler that waits for a row on its loop
freezes its process; the liveness probe restarts it. The guardrail's verdict is a
free choice of `Refuse` and `Answer`. The time of a turn's `touch` is when the
turn began; `Expire` is the retention window passing.

### WorkflowEngine

A node is a pair of a step and its role; `state` is the `WorkflowState` of the
turn and `saved` the one the last committed turn left. Messages, drafts and
reviews carry the turn and round that made them instead of text. What a model or
tool returns is free: text or a tool call, any verdict, any route. A failing turn
rolls back. Turns of one conversation that overlap each walk a copy of the state of
their own (`ChatTurn` has that race), so the module runs one at a time. The definition is chosen at the start of each turn, because an edit
published in between is live from the next turn. `StepLimit` is LangGraph's own
recursion limit, external to the source.

### KnowledgeStore

`rows`, `chunks` and `objects` are the two tables and the bucket. The chunks of
one content are inserted and soft-deleted together, so they are one numbered
batch; a soft-deleted batch is dropped, since nothing looks at it again. What a
handler holds across statements is its record in `req`: the content and key an
update loaded, the embeddings a deletion selected, the key of an upload. Only an
upload awaits (the store's `put_object`, in a thread); other handlers interleave
between two pods. The sweep keeps the ids and keys it selected; between its
flushed DELETEs and its COMMIT the rows are locked. `PutFails`, `DropObject`,
`SweepFails` and `Crash` cut the sequences at every place; what an outage makes
unnameable is recorded in `leaked`, so `ObjectsAgree` says that nothing else is
lost. A failure before anything is written is no step.

### Settings

`row` is the committed settings row, a function over its columns with `None` for
NULL, or `NoRow` before the first save; `trail` its audit entries. A save is three steps: the SELECT with every
check, the second SELECT in `upsert` (which gives back the object the session
holds, unless it holds none), and the write. `Merged` is the ORM's UPDATE: only
columns that differ from the loaded row are written. Values are kept only as far
as a check or a property tells them apart. Patterns are `patterns` (id to
enabled) with their words in `moves`; toggle and delete are a SELECT by the
handler, one by the repository, and the write. `blind` and `split` are history
variables, the conditions of two properties.

### RateLimiter

A check is one action: it holds a lock from the eviction to the write and awaits
nothing. Amounts are in `Unit`-ths of a token and times in seconds, so that
`refill_per_minute / 60.0` tokens a second is a whole number with `Unit = 60`;
rounding of floats is left out. `ideal` are the buckets of a limiter that never
evicts; `excess` is, per real client, the largest amount over all stretches of
time ending now that it was let through above the fastest refill, kept as Lindley
recursion (`Owed`, `WithRequest`). A request of the token exchange arrives through
`Proxy`, each of which appends the address it was called from behind what the
client wrote. Every server reports the peer of a request; the bucket "unknown" for a
transport that reports none is left out. A restart (`Restart`) empties the buckets,
and `excess` with them: the pace is claimed of the time between two restarts.

## 3. The runs

| Run | Instance | Checks |
|---|---|---|
| `store_one` | 1 process, 2 workflows, 2 texts, <= 4 versions, 6 audit entries | `TypeOK`, `AuditLineage`, `NoBuiltinTwice`, `AdminChoiceKept` |
| `store_two` | 2 processes, 2 built-ins and a workflow of an admin, <= 3 versions, 4 audit entries | `ChainIntact`, `PublishedIsStored`, `ServingIsPublished`, `MovesAudited`, `ImplementsHistory`, `RequestsEnd` |
| `eval` | 1 process with timeouts 1 and 2 and 1 crash, or 2 processes; 2 requests, 2 eval runs of 2 case runs | `TypeOK`, `SlotHeld`, `DoneCounts`, `VerdictSound`, `LiveRunKept`, `EndedStands`, `SlotFreed` |
| `chat_safe` | 2 processes, 2 requests, 2 users, 2 threads, 3 turns, pool of 1 | `TypeOK`, `HistoryOwned`, `NoResurrection`, `SerialTurnsKept` |
| `chat_live` | 1 process, 3 requests, 2 threads, 2 turns, pool of 2, 1 failure | `RequestsEnd`, `ExpiredPurged` |
| `chat_freeze` | 1 process, fresh database | `LoopNeverWaitsOnItself` fails |
| `engine_turns` | 7 definitions, 3 turns, cap 2, loops of <= 2 rounds | `TypeOK`, `DeliveredReviewed`, `OneDraftVisible`, `CallsAnswered`, `TurnBounded` |
| `engine_rounds` | the same | `RoundsPerTurn` fails |
| `kb` | 1 or 2 processes, 3 requests and the sweep on 1 document, 2 contents, 4 batches, 2 faults | `ObjectsAgree`, `OneGeneration`, `SearchExact`, `DeletedPurged` |
| `settings_saves` | 1 or 2 processes, 2 requests, 2 environments, 7 payloads, 1 built-in and 1 custom pattern, 3 audited writes | `TypeOK`, `ConfigsUsable`, `TrailMatchesRow`, `BoundsFromPairs`, `PatternTrail` |
| `settings_bounds` | 1 process, 1 request, 1 environment | `ChunkBoundsOrdered` fails |
| `limiter` | 1 user, or 2 addresses behind 1 proxy, 3 configurations, 6 seconds, tokens of 3 parts, 1 second set back | `EvictionUnnoticed`, `RateKept`, `RetryExact` |

### What the passing runs show

- **Version store.** One process is where sequences matter: any order of saves,
  publishes, rollbacks and restarts with either build, with a crash anywhere,
  leaves an audit trail whose entries chain from one pointer value to the next;
  a startup never replaces an admin's
  published version; restarting with the same build adds nothing. Two processes
  are where interleavings matter: no chain forks, nothing unstored is published,
  every pointer move commits with its entry, the store refines `WorkflowHistory`,
  and no set of transactions waits for ever. `AuditLineage`, `NoBuiltinTwice` and
  `AdminChoiceKept` are claimed of one process only: what a move or a sync has read
  of the pointer, another pod can change before it writes (section 5).
- **Eval runs.** Whatever pages and pods drive it, one run holds the slot, no
  case run is counted twice, a verdict stands on the whole suite, no executing run
  is picked as abandoned under an unchanged timeout, and the slot of a run nobody
  drives any more is freed by the next starts. With one process an ended run stays
  as it ended (two: section 5).
- **Chat turns.** No thread id a client may send resumes another user's history;
  a purge and a turn of one thread never leave a checkpoint without its thread or
  the reverse, whichever of them dies; turns that do not overlap forget nothing.
  Requests end and expired conversations go, although a loop can freeze, on a row
  (see section 5) or on a pool whose connections are kept by turns awaiting the
  model, because the pool times out and the probe restarts a frozen pod.
- **Engine.** What a review loop delivers was reviewed last in the same turn; a
  rejected draft and its tool calls leave nothing behind; a stored tool call
  lacks its result only where the cap cut the step off; a workflow without cycles
  ends within the sum of its steps' caps.

- **Knowledge base.** However uploads, edits, deletions, sweeps, crashes and
  failed calls interleave: a live file-backed document has its file, an object is
  named by a row or a handler unless a fault lost it, a live document has exactly
  one generation of chunks, and what a user deleted is purged although sweeps fail
  after destroying objects. Search is exact with one backend process; with two, an
  update that did not see a deletion leaves chunks of a deleted document findable
  (`search_similar` looks at the embeddings' own `deleted_at`), which is why
  `SearchExact` is conditional.
- **Settings.** Whatever mix of columns overlapping saves leave and whatever
  environment a process started with, the limiter, retrieval, the chunker and the
  eval timeout get values in range; the audit trail replays to the row, column by
  column, and a pattern's row is as its entries tell. Two conditions are part of
  the properties: `TrailMatchesRow` excludes a save that validated before the row
  existed and found one when it wrote, and `BoundsFromPairs` admins who set one
  chunk size alone (section 5).
- **Rate limiting.** Between two restarts no client gets more than the largest burst
  plus the fastest refill over any stretch of time, through evictions, changes of the limits, clock
  steps and forged headers; forgetting an idle bucket changes no answer; a denied
  client is let through from the announced second on and not before. The first two
  hold of limits that fill a bucket before it is evicted (`FillsInTime`), which
  the schema does not enforce: a limit of 100 with one token a minute does not, and
  for it the comment at `rate_limiter_service.py:53` is wrong.

### Bounds, and why they are enough

Two processes and two requests give every pairwise race, and the races of this
code are pairwise: each is one stale read against one committed write, or two
waits in opposite order. Two workflows are needed for the startup sync to hold
one pointer while it waits for another, and a third, which no startup publishes,
for two admins to publish for the first time at once; two texts for an edit, a
revert and two builds; three versions for a chain whose middle is published. Two case runs are
one to race over and one that follows it. Two threads and two users give
somebody else's thread id and a purge of several rows; documents do not interact,
so one is enough, with three requests on it and two faults (one destroys, one hits
the repair); two environments and payloads with pairs and single chunk sizes give
every way the pair can be mixed; three of the payloads must be refused; six
seconds are two evictions of an idle bucket and a refill in between; three turns give two that
race and one that reads the outcome. Three engine turns give a first turn, one
that starts from its leftovers and one cut off by calls of both. Bounds are
constants (`MaxVersions`, `MaxAudit`, `MaxEvalRuns`, `MaxCrashes`, `MaxTurns`,
`MaxFailures`, `MaxBatches`, `MaxFaults`,
`MaxWrites`, `MaxTime`, `MaxRewind`) and appear as guards of the action that would pass them, never of
one that ends something. In `ChatTurn`, the cross-process interleavings of two
processes include every interleaving of one loop, so the invariants are checked
there; freezing needs one loop, so `chat_live` has one, with a third request that finds
the pool empty while two turns await the model.

Deadlock is checked in the runs of `EvalRuns`, `ChatTurn`, `Settings` and
`RateLimiter`, where something can always happen. `WorkflowStore`,
`WorkflowEngine` and `KnowledgeStore` may stop: every request is a
person's, and the bound on their number is reached.

### Fairness

- `WorkflowStore`: a process goes on with the request it runs (strong, because its
  statement may wait for a lock that is taken again and again: PostgreSQL queues the
  waiters of a lock). No fairness makes anybody send a request.
- `EvalRuns`: statements are weak; an await that has been answered is strong
  because the loop is a FIFO of ready callbacks that other handlers overtake only
  finitely often; time passes (strong, as handlers come between); `SlotFreed`
  also assumes that somebody keeps asking for a run, which is what it is about.
- `ChatTurn`: statements are strong for the same two reasons (lock queues and the
  loop); the sweep is a CronJob that keeps starting; the liveness probe restarts
  a pod whose loop does not answer (`infra/helm/charts/backend`). Deaths and
  failing sweeps are bounded by `MaxFailures`, so they cannot go on for ever.
- `KnowledgeStore`: statements are strong (lock queues, and the loop that resumes
  an upload), the CronJob comes again (weak, each of its steps), and the purge window
  passes. Failures are bounded by `MaxFaults`.
- `Settings` and `RateLimiter` claim no liveness: a handler there is a few
  statements that nothing keeps waiting.
- `WorkflowEngine` needs none: that a turn is bounded is an invariant.

## 4. What is proved

`WorkflowStore_proofs` proves for any sets of processes, workflows, texts and
releases and any bounds:

- `TypeCorrect`: `Spec => []TypeOK`.
- `ChainCorrect`: sequence numbers are 1, 2, 3..., none twice, and each row hashes
  its predecessor, at every interleaving.
- `PublishedCorrect`: a published pointer names a stored version of its workflow.
- `ParentCorrect`: a parent is an older stored version of the same workflow.

None of the last three is inductive: a row, a pointer or a parent becomes visible
by a commit, so the invariant has to speak of open transactions. `IInv` adds that
each row is sound in the view of the transaction that holds it (`ReqInv`), that
what a request has read and is about to insert or publish is still there, because
rows are never deleted, and that no two rows share a key even across open
transactions (`KeysInv`), which is what the unique key's lock gives. The proof has
a lemma per action; `Frame` and `RestKeeps` carry the requests the action leaves
alone.

`WorkflowTrail_proofs` builds on it. For any number of processes:

- `MovesCorrect`: `MovesAudited`. What a transaction has behind it decides what its
  commit does, so `ShapeInv` ties a request's open rows and log to its statement: a
  pointer it moves is told by its log (`Logged`), and a sync has written nothing of
  the built-ins it has still to come to (`SyncShape`).
- `HistoryImplemented`: `ImplementsHistory`, the refinement. `StoredInv` adds that ids
  are not shared between open transactions and that the stored numbers of a workflow
  are `1..n`; then a commit appends to each history it touches and moves pointers to
  members, and every other step is a stutter of `WorkflowHistory`.
- `ServingCorrect`: `ServingIsPublished`. A pointer never becomes absent again, so
  `ServingInv` follows each built-in of a starting process: published, about to be
  moved, or still ahead.

With one process (hypothesis `Alone`: the set of processes has one member; with two
the properties are not claimed, as section 3 says):

- `LineageCorrect`: `AuditLineage`; `RestartRecordsNothing`: `NoBuiltinTwice`;
  `AdminChoiceCorrect`: `AdminChoiceKept`. `AloneInv` says that the pointer a request
  read is still the committed one (`Fresh`), that the log of an open transaction
  continues the trail from there (`LogTells`), that a sync only moves off nothing or
  off a built-in (`OffBuiltin`), and that the text it is about to insert is not the
  latest built-in's (`Differs`).

`EvalRuns_proofs` proves for any suite, deployments, requests and bounds:

- `TypeCorrect`: `TypeOK`; `OneRunHoldsTheSlot`: `SlotHeld`.
- `ProgressCounted`: `DoneCounts`. The counter is read before the INSERT, and what
  saves it is the order of the suite: every case run before one that executes is
  recorded, so two handlers of one run that are not duplicates execute the same case
  run, and until the first of them records it, what both read of the counter stands
  (`HandlerCount`).
- `VerdictsAreSound`: `VerdictSound`, from `CountInv`: the count reaches the size of
  the suite exactly when the whole suite is recorded.
- `EndedRunsStand`: `EndedStands`. `LoopInv`: a loop runs one handler between awaits,
  so with one process what a start or a cancel has read still stands when it writes.
- `LiveRunsAreKept`: `LiveRunKept`. `TouchInv`: a run has been idle no longer than the
  case run that executes has been running, and that is within its timeout.

`ChatTurn_proofs` proves for any processes, requests, users, threads and bounds:

- `TypeCorrect`: `TypeOK`.
- `PurgedStaysPurged`: `NoResurrection`. `LockInv` says that locks are exclusive and a
  turn that awaits the model holds its checkpoint's; `StoreInv` that no row is purged
  under it. So the commit of a turn never brings back what a purge has deleted.
- `HistoriesOwned`: `HistoryOwned`. `ClaimInv`: a thread nobody has committed is the
  turn's that minted it, and a turn works on a thread of its user.
- `TurnsRemembered`: `SerialTurnsKept`. `SerialInv`: two turns past their reads of one
  thread have raced, and what a turn that has not raced has read is what is stored.

`WorkflowEngine_proofs` proves for any set of valid definitions, any caps and any
number of turns:

- `EngineTypeCorrect`: every edge of a valid definition that compiles leads to a
  node the graph has, and every update is a well-formed state.
- `ReviewedCorrect`: `DeliveredReviewed`. Its invariant `NodeInv` ties the node to
  run next to the type of its step and says that no round is counted before a
  loop is entered (loops are leaves, and the input of a turn empties
  `step_outputs`), that the rounds stay below the maximum inside it, and that the
  draft before the reviewer is of the running turn and round.
- `AnsweredCorrect`: `CallsAnswered`. The stored conversation only changes at the end
  of a turn, so `AnsweredInv` speaks of the running one: a call that still waits is
  the last message, and the tools run next unless the cap cut the step off; the calls
  of a draft alternate with their results. The router and the property count the
  same calls because the messages before a call never change (`CutOffKept`).
- `OneDraftCorrect`: `OneDraftVisible`. `VisibleInv`: what waits in `exchange` is of
  the round under review, and only the last node of a turn delivers it, so the turn
  has delivered nothing before.
- `BoundCorrect`: `TurnBounded`. `BoundInv` compares the nodes a turn has run with
  what the steps still ahead may need: without cycles an edge leaves its step behind
  (`LeftOnward`), and what a step spends by itself is paid by the tool calls of the
  conversation or by the rounds counted. The caps are added up as the number of
  (step, run) pairs, `NodeRuns`, because a sum would be a recursion over the steps.

`KnowledgeStore_proofs` proves for any sets of processes, requests, documents and
contents and any number of faults:

- `TypeCorrect`: `Spec => []TypeOK`.
- `ObjectsCorrect`: `ObjectsAgree`. It is not inductive: that a live file keeps its
  object depends on what handlers and the sweep know. `Agreement` adds that an
  upload is alone with its document until the row exists (`UploadsAlone`,
  `FreshUnused`), that a row never goes back to naming an object (`Unkeyed`), so a
  handler about to drop one is right to, and that what the sweep selected is
  soft-deleted and stays so (`SweptDead`).
- `GenerationsCorrect`: `OneGeneration`. `BatchesApart` says that batches are
  numbered apart and that a deletion in flight has only seen batches of its own
  document; with it `OneBatch` (a live document has exactly one) is kept by every
  update, since the bulk UPDATE takes all that are there.
- `SearchCorrect`: `SearchExact`. `ExactInv`: with one process no other handler runs
  between the statements of one, so what an update and a deletion have read still
  stands (`ReadsFresh`) and their bulk statements leave no chunk of another content.

`Settings_proofs` proves for any processes, requests, environments, payloads and
pattern ids:

- `TypeCorrect`: `Spec => []TypeOK`. `Typed` adds to the types that a row a handler
  has read is still there (`RowStays`), without which an UPDATE would be of nothing.
- `ConfigsCorrect`: `ConfigsUsable`. `ConfigInv`: the stored overrides and every
  payload under way keep the schema's bounds (`Within`), and a column-wise mix of two
  such rows does too (`WithinMerged`); the environment's values keep the same bounds
  by the start-up validator.
- `BoundsCorrect`: `BoundsFromPairs`. `PairInv` says that one event loop runs one
  handler (`LoopsApart`), hence with one process a save writes over the row it
  validated against (`SaveKnows`) and the row becomes the payload
  (`MergedOverItself`).
- `ReplayCorrect`: `TrailMatchesRow`. The entries of a save are one for each column
  it changes against the row it loaded (`EntriesCover`), and these are the columns its
  UPDATE writes; what is told of the others is not disturbed (`ToldAppended`), nor are
  they. `HasLast` says that the last entry of a column exists.
- `PatternsCorrect`: `PatternTrail`, for any number of processes. `PatternInv`: a
  handler that loaded a pattern works on one that is there or was told deleted
  (`Accounted`), so a lost race writes nothing the trail does not tell, and only
  custom patterns are deleted (`Aimed`).

`RateLimiter_proofs` proves for any users, addresses, proxies, headers,
configurations and times:

- `TypeCorrect`: `Spec => []TypeOK`.
- `EvictionCorrect`: `EvictionUnnoticed`. `EvictionInv`: a bucket is the ideal one,
  or the ideal one has been idle for the eviction time and is therefore full.
- `RateCorrect`: `RateKept`. `PaceInv` is a potential argument: what a client's
  bucket may hold now at the fastest refill (`Fund`) and what it still owes
  (`Owed`) never exceed one burst together; a request moves a token from one to the
  other, time adds to one what it takes from the other, a clock step backwards and
  an eviction only lose tokens. `ResolvesToClient` shows that a client behind the
  trusted proxies is always filed under its own address, whatever it wrote into its
  header.
- `RetryCorrect`: `RetryExact`. `RetryInv`: the bucket of a denied client is as the
  denial left it, or evicted (after the eviction time, unless the clock was set back),
  and the announced wait is the smallest number of seconds whose refill makes up a
  token (`Pays`).

Assumptions are the named `ASSUME`s of the modules, which the runs evaluate:
constants are what their comments say, names are not the null values, definitions
are valid and have finitely many steps, the timeouts of the deployments have a
largest, the names of the built-ins are distinct (they are the keys of a dict),
a rollout has finitely many processes. No theorem has a hypothesis besides, except
`Alone` above.

Every safety property that a passing run checks is the statement of a theorem.
Only model-checked are the liveness properties, `RequestsEnd` of `WorkflowStore` and
of `ChatTurn`, `ExpiredPurged`, `SlotFreed` and `DeletedPurged`: the provers have no
rule for fairness, which rests on ENABLED. The type invariants of `KnowledgeStore`
and `RateLimiter` are theorems that no run repeats.

## 5. Where the code and its documentation disagree

Each of these is a run whose property TLC violates by what the code does.

- `chat_freeze`: on a fresh database the second concurrent message freezes the
  event loop until the pod is restarted, the case
  `guardrail_pattern_repository.py` calls handled; a logout during the user's own
  turn does the same.
- `engine_rounds`: the tool-round cap, documented per agent step and turn, counts
  the calls of the whole conversation; after five, no agent step of that
  conversation gets an answer from a tool again.
- `settings_bounds`: the chunk sizes an update leaves are checked with an omitted
  one completed by its current override, which the same update then clears;
  `api/settings.py:302` says that what is checked is the pair that would result.

Known from the same models, where the property that holds says what it is
conditional on or that leaves the case out:

- Two pods: a publish or rollback audits as predecessor the pointer it read first,
  which another pod may have moved since (`workflow_service.py:307`); and a publish of
  the version that `set_active` loaded writes nothing, though another pod's move has
  been committed before its flush (`workflow_version_repository.py:143`): the entry
  says published, the pointer stays where the other put it (`AuditLineage` is claimed
  of one process).
- Two pods: a startup sync decides that no admin's version is published, and an admin
  of the pod still serving publishes before it writes (`workflow_service.py:181`); the
  built-in then replaces the admin's version, against "Built-ins never silently
  overwrite an admin change" (`docs/SECURITY.md:872`; `AdminChoiceKept` is claimed of
  one process). The default rollout does overlap two pods.
- Two processes: a cancel decides on a status it read before waiting for the
  completing advance, so a completed eval run becomes cancelled with its verdict
  set, against "Cancelling a run that already ended changes nothing"
  (`workflow_eval_service.py:195`; `EndedStands` is claimed of one process).
- A changed case-run timeout reaches an eval run already executing and can get it
  abandoned; `eval_config_service.py:5` says it never does (`LiveRunKept` is claimed
  of timeouts that were not lowered).
- The sweep purges a conversation a turn renewed while the sweep waited for that
  turn's row lock (`retention_service.py:196`).
- Search finds chunks of a document deleted while another pod updated it.
- An upload whose COMMIT is made but not acknowledged is taken as failed, and the
  compensating delete removes the object of a live row (`knowledge_base.py:175`).
  `KnowledgeStore` assumes that a COMMIT that raises has not been made; no property
  covers this.
- A settings save is validated against overrides another process may change before it
  writes, which can invert the chunk sizes (`BoundsFromPairs` is claimed of one process).
- A settings save that found no row when it validated and one when it wrote records
  audit entries with the wrong old values (`TrailMatchesRow` excludes it).
- An idle bucket of a limit that does not fill within the hour is forgiven early
  (`EvictionUnnoticed` excludes it).
- `chunk_document` returns no chunk for a document of headings or white space only,
  although its docstring promises one; such a document is never found.

Seen while modelling and covered by no property: the first round of a review loop
is given the issues of the previous turn's review; loops of no rounds and two loops
that share a node name pass validation and fail when a turn compiles them;
cancelling an eval run frees its slot while its case run goes on beside the next
run's; the first turn of a conversation, uncommitted, survives
its user's logout; two turns of one conversation that overlap keep only the later
one's answer.

## 6. Not modelled

Text (prompts, patterns, formatting, YAML), embeddings and search ranking, HTTP
shapes, screens, tracing and dashboards: pure functions, reads or wording. API keys
are rows of their owner that nothing else meets. The document search server reads.
The migrations run once, before the processes of a release.
Test-chat threads take the path of chat threads. Network partitions between pod
and database are rollbacks to the store, which every module has; a COMMIT whose answer
alone is lost is not modelled anywhere. That the object store reports the missing keys
of a batch delete as deleted, as S3 does, is an assumption: `delete_many` has no
tolerance of its own, unlike `delete` (`document_store.py:153`). The purges of API
keys and turn records are deletions by age, present as steps that may fail the
sweep's transaction.

## 7. Plan

What is left, in order of what can go wrong:

1. `AuthSession`: the browser's tokens, concurrent refreshes of one stored token and
   logout.
2. Pure functions as operators against a reference: the chunker (sections, packing,
   overlap, the merged tail), rank fusion, the diff of versions.
3. Proofs of their safety properties. Those of the present modules are complete; what
   a proof could still add is a refinement per component (`WorkflowStore` has one): an
   abstract eval run and an abstract conversation.
