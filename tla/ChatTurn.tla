------------------------------- MODULE ChatTurn --------------------------------
(***************************************************************************)
(* Chat turns, logout cleanup and the retention sweep over the             *)
(* conversations: conversation_threads, conversation_checkpoints (one row  *)
(* per thread, the latest LangGraph state) and chat_turn_versions.         *)
(*                                                                         *)
(* A process runs its handlers on one event loop.  A turn keeps its        *)
(* database transaction open while it awaits the model, with the locks its *)
(* statements took: the guardrail patterns it seeded and its checkpoint    *)
(* row.  The checkpointer's statements run in a worker thread and may wait *)
(* for a row lock there; every other statement runs on the loop, which     *)
(* waits with it.  The sweep is a job of its own, one at a time.           *)
(***************************************************************************)
EXTENDS Naturals, Sequences, FiniteSets

CONSTANTS
  Process,          \* backend processes (event loops) sharing the database
  Request,          \* requests in flight at once, over all processes
  User,
  Thread,           \* conversation ids
  Seeded,           \* whether the guardrail patterns may be there at the start
  PoolSize,         \* database connections of a process
  MaxTurns,         \* bound: turns ever admitted
  MaxFailures       \* bound: sweeps that fail and processes that die

Cron == "sweep"     \* the sweep, an actor beside the requests
Job == "job"        \* its pod
None == "none"

ASSUME NamesAssumption ==
  /\ Process # {} /\ Job \notin Process
  /\ Cron \notin Request
  /\ None \notin User \cup Thread
ASSUME SeededAssumption == Seeded \in SUBSET BOOLEAN \ {{}}
ASSUME BoundsAssumption == PoolSize \in Nat \ {0} /\ MaxTurns \in Nat /\ MaxFailures \in Nat

VARIABLES
  thread,      \* committed conversation_threads
  checkpoint,  \* committed checkpoints: the turns in the stored history, {} for no row
  recorded,    \* committed chat_turn_versions, per thread
  seeded,      \* whether the built-in guardrail patterns are committed
  req,         \* per actor: its handler's local state and open transaction
  asked,       \* the user of each turn, by turn number
  raced,       \* history: the threads on which two turns have overlapped
  failures     \* sweeps that failed and processes that died

vars == <<thread, checkpoint, recorded, seeded, req, asked, raced, failures>>
conversations == <<thread, checkpoint, recorded>>
history == <<asked, raced, failures>>

Actor == Request \cup {Cron}
Turn == 1 .. MaxTurns
Row == [owner : User \cup {None}, status : {"unused", "live", "purged"}, expired : BOOLEAN]
Unused == [owner |-> None, status |-> "unused", expired |-> FALSE]

Phase == {"idle", "connect", "admit", "read", "put", "model", "select", "purge"}
Resting ==
  [pc |-> "idle", op |-> None, proc |-> Job, user |-> None, thread |-> None,
   turn |-> 0, history |-> {}, holds |-> {}, seeding |-> FALSE, todo |-> {}]
Handler ==
  [pc : Phase, op : {None, "chat", "logout", "sweep"}, proc : Process \cup {Job},
   user : User \cup {None}, thread : Thread \cup {None}, turn : Nat,
   history : SUBSET Turn, holds : SUBSET Thread, seeding : BOOLEAN,
   todo : SUBSET Thread]

Init ==
  /\ thread = [t \in Thread |-> Unused]
  /\ checkpoint = [t \in Thread |-> {}]
  /\ recorded = [t \in Thread |-> {}]
  /\ seeded \in Seeded
  /\ req = [a \in Actor |-> Resting]
  /\ asked = <<>>
  /\ raced = {}
  /\ failures = 0

Live(t) == thread[t].status = "live"
OnLoop(a) == req[a].pc \in {"connect", "admit", "select", "purge"}
LoopFree(p) == \A a \in Actor : OnLoop(a) => req[a].proc # p
InTurn(a) == req[a].pc \in {"put", "model"}

Respond(a) == req' = [req EXCEPT ![a] = Resting]
--------------------------------------------------------------------------------
(* What a statement waits for. *)

HeldByOther(a, t) == \E b \in Actor \ {a} : t \in req[b].holds

\* An INSERT of the same primary key waits for the transaction that inserted it.
SeedsAwaited(a) == ~ seeded /\ \E b \in Actor \ {a} : req[b].seeding

\* The pool hands a session its connection at its first statement.
Connected(p) == {a \in Actor : req[a].proc = p /\ req[a].pc \notin {"idle", "connect"}}
PoolFull(a) == Cardinality(Connected(req[a].proc)) >= PoolSize

Remaining(a) == req[a].todo \ req[a].holds

\* A handler on its loop waits for a row another transaction holds.
WaitsForRow(a) ==
  \/ req[a].pc = "admit" /\ SeedsAwaited(a)
  \/ req[a].pc = "purge" /\ Remaining(a) # {} /\ \A t \in Remaining(a) : HeldByOther(a, t)

WaitsFor(a, b) ==
  /\ req[a].pc = "purge" /\ WaitsForRow(a)
  /\ Remaining(a) \cap req[b].holds # {}

\* The loop of p is stopped in a statement that waits.
Frozen(p) ==
  \E a \in Actor : /\ OnLoop(a) /\ req[a].proc = p
                   /\ WaitsForRow(a) \/ (req[a].pc = "connect" /\ PoolFull(a))
--------------------------------------------------------------------------------
(* A chat turn. *)

Accept(a, handler) ==
  /\ req[a].pc = "idle"
  /\ LoopFree(handler.proc)
  /\ req' = [req EXCEPT ![a] = handler]
  /\ UNCHANGED <<conversations, seeded, history>>

\* A message, with the thread id the client sends: none, or any it may ever have seen.
BeginChat(q, p, u, t) ==
  /\ Len(asked) < MaxTurns
  /\ t # None => thread[t].status # "unused"
  /\ Accept(q, [Resting EXCEPT !.pc = "connect", !.op = "chat", !.proc = p,
                               !.user = u, !.thread = t])

BeginLogout(q, p, u) ==
  Accept(q, [Resting EXCEPT !.pc = "connect", !.op = "logout", !.proc = p, !.user = u])

Connect(q) ==
  /\ req[q].pc = "connect"
  /\ ~ PoolFull(q)
  /\ req' = [req EXCEPT ![q].pc = IF req[q].op = "chat" THEN "admit" ELSE "select"]
  /\ UNCHANGED <<conversations, seeded, history>>

PoolTimeout(q) ==
  /\ req[q].pc = "connect"
  /\ PoolFull(q)
  /\ Respond(q)
  /\ UNCHANGED <<conversations, seeded, history>>

\* Mutant of Owned: any thread that exists.
OwnedByAny(q) == req[q].thread # None /\ Live(req[q].thread)

\* get_by_id_for_user finds the thread the client named.
Owned(q) ==
  /\ req[q].thread # None
  /\ Live(req[q].thread)
  /\ thread[req[q].thread].owner = req[q].user

Claimed == {req[a].thread : a \in Actor}
Fresh == {t \in Thread \ Claimed : thread[t].status = "unused"}

\* The patterns are seeded, unless they are there; then the message is refused
\* (and the seeds committed), or its workflow is not available (and they are not).
Refuse(q) ==
  /\ req[q].pc = "admit"
  /\ ~ SeedsAwaited(q)
  /\ seeded' \in {TRUE} \cup IF Owned(q) THEN {} ELSE {seeded}
  /\ Respond(q)
  /\ UNCHANGED <<conversations, history>>

\* Admitted: the turn goes on with the thread named, or with one it mints.
Admit(q) ==
  /\ req[q].pc = "admit"
  /\ ~ SeedsAwaited(q)
  /\ Len(asked) < MaxTurns
  /\ \E t \in IF Owned(q) THEN {req[q].thread} ELSE Fresh :
       req' = [req EXCEPT ![q].pc = "read", ![q].thread = t,
                          ![q].turn = Len(asked) + 1, ![q].seeding = ~ seeded]
  /\ asked' = Append(asked, req[q].user)
  /\ UNCHANGED <<conversations, seeded, raced, failures>>

\* aget_tuple, in a worker thread.
Read(q) ==
  /\ req[q].pc = "read"
  /\ req' = [req EXCEPT ![q].pc = "put", ![q].history = checkpoint[req[q].thread]]
  /\ raced' = raced \cup {t \in Thread : t = req[q].thread /\
                            \E b \in Request \ {q} : InTurn(b) /\ req[b].thread = t}
  /\ UNCHANGED <<conversations, seeded, asked, failures>>

\* Mutant of ThreadThere: no foreign key, and the UPDATE's row count is not checked.
ThreadThereUnchecked(q) == TRUE

ThreadThere(q) == thread[req[q].thread].status # "purged"

\* The first aput: an UPDATE, which waits for the row in a worker thread, or the
\* INSERT of a new thread's row.  It fails if the thread was purged meanwhile.
Put(q) ==
  /\ req[q].pc = "put"
  /\ ~ HeldByOther(q, req[q].thread)
  /\ IF ThreadThere(q)
     THEN req' = [req EXCEPT ![q].pc = "model", ![q].holds = {req[q].thread}]
     ELSE Respond(q)
  /\ UNCHANGED <<conversations, seeded, history>>

\* Mutant of NewHistory: the turn starts from an empty state.
NewHistoryAlone(q) == {req[q].turn}

NewHistory(q) == req[q].history \cup {req[q].turn}

\* touch: a no-op when the thread is not there.
Touched(q) ==
  LET row == thread[req[q].thread]
  IN  IF row.status = "purged" THEN row
      ELSE [owner |-> IF row.status = "live" THEN row.owner ELSE req[q].user,
            status |-> "live", expired |-> FALSE]

\* The model answered and the loop is back in the turn: guard the reply, touch,
\* record, commit.
Answer(q) ==
  /\ req[q].pc = "model"
  /\ LoopFree(req[q].proc)
  /\ LET t == req[q].thread
     IN  /\ thread' = [thread EXCEPT ![t] = Touched(q)]
         /\ checkpoint' = [checkpoint EXCEPT ![t] = NewHistory(q)]
         /\ recorded' = [recorded EXCEPT ![t] = @ \cup {req[q].turn}]
  /\ seeded' = (seeded \/ req[q].seeding)
  /\ Respond(q)
  /\ UNCHANGED history

\* The model failed or timed out; the transaction is rolled back.
Fail(q) ==
  /\ req[q].pc = "model"
  /\ LoopFree(req[q].proc)
  /\ Respond(q)
  /\ UNCHANGED <<conversations, seeded, history>>
--------------------------------------------------------------------------------
(* Logout cleanup and the sweep. *)

BeginSweep ==
  /\ \E t \in Thread : Live(t)
  /\ Accept(Cron, [Resting EXCEPT !.pc = "select", !.op = "sweep"])

Condemned(a) ==
  {t \in Thread : /\ Live(t)
                  /\ IF req[a].op = "sweep" THEN thread[t].expired
                     ELSE thread[t].owner = req[a].user}

\* The SELECT of the ids to purge.
Select(a) ==
  /\ req[a].pc = "select"
  /\ IF Condemned(a) = {} THEN Respond(a)
     ELSE req' = [req EXCEPT ![a].pc = "purge", ![a].todo = Condemned(a)]
  /\ UNCHANGED <<conversations, seeded, history>>

\* The DELETE of the checkpoints comes to the row of t; another purge may have
\* deleted it since the SELECT.
DeleteCheckpoint(a) ==
  /\ req[a].pc = "purge"
  /\ \E t \in Remaining(a) :
       /\ ~ HeldByOther(a, t)
       /\ req' = IF Live(t) THEN [req EXCEPT ![a].holds = @ \cup {t}]
                 ELSE [req EXCEPT ![a].todo = @ \ {t}]
  /\ UNCHANGED <<conversations, seeded, history>>

\* Mutants of Purged: the threads are kept, their checkpoints gone; a status of
\* its own, that nothing else knows.
PurgedHalf(row) == row
PurgedAsDeleted(row) == [Unused EXCEPT !.status = "deleted"]

Purged(row) == [Unused EXCEPT !.status = "purged"]

\* The DELETE of the threads, and the commit.
CommitPurge(a) ==
  /\ req[a].pc = "purge"
  /\ Remaining(a) = {}
  /\ thread' = [t \in Thread |-> IF t \in req[a].todo THEN Purged(thread[t]) ELSE thread[t]]
  /\ checkpoint' = [t \in Thread |-> IF t \in req[a].todo THEN {} ELSE checkpoint[t]]
  /\ Respond(a)
  /\ UNCHANGED <<recorded, seeded, history>>

\* A later purge of the same sweep fails, and all of it is rolled back.
SweepFails ==
  /\ req[Cron].pc = "purge"
  /\ failures < MaxFailures
  /\ failures' = failures + 1
  /\ Respond(Cron)
  /\ UNCHANGED <<conversations, seeded, asked, raced>>

\* The database aborts one of two purges that wait for each other; the other, first
\* in the queue of the rows it waited for, has them at once.
DeadlockVictim(a) ==
  /\ \E b \in Actor \ {a} :
       /\ WaitsFor(a, b) /\ WaitsFor(b, a)
       /\ req' = [req EXCEPT ![a] = Resting,
                             ![b].holds = @ \cup (Remaining(b) \cap req[a].holds)]
  /\ UNCHANGED <<conversations, seeded, history>>
--------------------------------------------------------------------------------
(* The environment. *)

\* The retention window of a thread passes without a turn committed on it.
Expire(t) ==
  /\ Live(t)
  /\ ~ thread[t].expired
  /\ thread' = [thread EXCEPT ![t].expired = TRUE]
  /\ UNCHANGED <<checkpoint, recorded, seeded, req, history>>

\* The handlers of p are gone and their transactions rolled back.
Restart(p) ==
  /\ \E a \in Actor : req[a].proc = p /\ req[a].pc # "idle"
  /\ req' = [a \in Actor |-> IF req[a].proc = p THEN Resting ELSE req[a]]
  /\ UNCHANGED <<conversations, seeded, asked, raced>>

\* A process dies, or a rollout replaces it.
Kill(p) ==
  /\ failures < MaxFailures
  /\ failures' = failures + 1
  /\ Restart(p)

\* Mutant of ProbeFails: the probe asks nothing of the loop.
ProbeFailsNever(p) == FALSE

\* The liveness probe of a frozen process goes unanswered, and the pod is restarted.
ProbeFails(p) == Frozen(p)
ProbeRestart(p) == ProbeFails(p) /\ Restart(p) /\ UNCHANGED failures

Statement(a) ==
  \/ Connect(a) \/ PoolTimeout(a) \/ Refuse(a) \/ Admit(a) \/ Read(a) \/ Put(a)
  \/ Answer(a) \/ Fail(a) \/ Select(a) \/ DeleteCheckpoint(a) \/ CommitPurge(a)
  \/ DeadlockVictim(a)

Next ==
  \/ \E a \in Actor : Statement(a)
  \/ \E q \in Request, p \in Process, u \in User :
       BeginLogout(q, p, u) \/ \E t \in Thread \cup {None} : BeginChat(q, p, u, t)
  \/ BeginSweep \/ SweepFails
  \/ \E t \in Thread : Expire(t)
  \/ \E p \in Process : Kill(p) \/ ProbeRestart(p)

Spec == Init /\ [][Next]_vars

\* Statements complete; row locks are granted in the order they are asked for, and
\* the loop, a FIFO, comes back to a turn whose model answered or timed out; the
\* job runs hourly; a pod whose probe fails is restarted.
Fairness ==
  /\ \A a \in Actor : SF_vars(Statement(a))
  /\ SF_vars(BeginSweep)
  /\ \A p \in Process : WF_vars(ProbeRestart(p))

FairSpec == Spec /\ Fairness
--------------------------------------------------------------------------------
(* Properties. *)

\* Every variable keeps its type.
TypeOK ==
  /\ thread \in [Thread -> Row]
  /\ checkpoint \in [Thread -> SUBSET Turn]
  /\ recorded \in [Thread -> SUBSET Turn]
  /\ seeded \in BOOLEAN
  /\ req \in [Actor -> Handler]
  /\ asked \in Seq(User) /\ Len(asked) <= MaxTurns
  /\ raced \subseteq Thread
  /\ failures \in 0 .. MaxFailures

\* A conversation's history, stored or loaded into a turn, only ever holds turns of
\* the thread's owner, whatever thread ids clients send.
HistoryOwned ==
  /\ \A t \in Thread : \A n \in checkpoint[t] : asked[n] = thread[t].owner
  /\ \A q \in Request : \A n \in req[q].history : asked[n] = req[q].user

\* Checkpoint state never outlives its thread, nor a thread its checkpoint: no turn
\* in flight during a purge brings the purged conversation back.
NoResurrection == \A t \in Thread : checkpoint[t] # {} <=> Live(t)

\* A conversation whose turns never overlapped remembers every turn it answered.
SerialTurnsKept == \A t \in Thread : Live(t) /\ t \notin raced => recorded[t] = checkpoint[t]

\* Every request ends, the ones on a process that froze by its restart.
RequestsEnd == \A q \in Request : req[q].pc # "idle" ~> req[q].pc = "idle"

\* An expired conversation is purged, or a turn renews it.
ExpiredPurged ==
  \A t \in Thread : (Live(t) /\ thread[t].expired) ~> ~ (Live(t) /\ thread[t].expired)

\* A statement on the loop never waits for a transaction only that loop can end.
LoopNeverWaitsOnItself ==
  \A a, b \in Request :
    ~ /\ OnLoop(a) /\ WaitsForRow(a)
      /\ InTurn(b) /\ req[b].proc = req[a].proc
      /\ \/ req[a].pc = "admit" /\ req[b].seeding
         \/ req[a].pc = "purge" /\ Remaining(a) \subseteq req[b].holds

=============================================================================
