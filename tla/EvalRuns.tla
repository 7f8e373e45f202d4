------------------------------- MODULE EvalRuns --------------------------------
(***************************************************************************)
(* Eval runs of a workflow version's test suite: workflow_eval_runs (the   *)
(* job rows), workflow_eval_case_results (insert-only) and the requests an *)
(* admin's page makes: start, advance (one case run each) and cancel.      *)
(*                                                                         *)
(* A process is one event loop: its handlers interleave only where an      *)
(* advance awaits the model.  Two processes (a rollout overlaps two pods)  *)
(* interleave between database statements, at READ COMMITTED.  An UPDATE   *)
(* of a run row, up to its COMMIT, is one action: the row lock it takes    *)
(* (and, for the INSERT of a result, the key-share lock of its foreign     *)
(* key) keeps every other writer of the run waiting, so only the SELECT a  *)
(* handler decided on can be stale.                                        *)
(***************************************************************************)
EXTENDS Naturals, Sequences, FiniteSets, Functions

CONSTANTS
  Deployments,  \* of one behaviour each: the process that serves each request (one for all,
                \* or two of a rollout), the values the case-run timeout takes, in ticks,
                \* and a bound on crashes
  Request,      \* requests in flight at once, over all processes
  CaseRuns,     \* the suite: per case, in order, how often it is run
  MinPasses,    \* per case, the runs that must pass
  Grace,        \* EVAL_RUN_ABANDON_GRACE, in ticks
  MaxEvalRuns   \* bound: eval runs ever started

ASSUME SuiteAssumption ==
  /\ CaseRuns \in Seq(Nat \ {0})
  /\ CaseRuns # <<>>
  /\ MinPasses \in Seq(Nat \ {0})
  /\ DOMAIN MinPasses = DOMAIN CaseRuns
ASSUME DeploymentAssumption ==
  \A d \in Deployments :
    /\ d.serves \in [Request -> Range(d.serves)]
    /\ d.timeouts # {} /\ d.timeouts \subseteq Nat \ {0}
    /\ d.crashes \in Nat
ASSUME BoundsAssumption == Deployments # {} /\ Grace \in Nat /\ MaxEvalRuns \in Nat

Timeouts == UNION {d.timeouts : d \in Deployments}

\* The setting has a ceiling (an hour, in the code).
ASSUME TimeoutAssumption == \E m \in Timeouts : \A t \in Timeouts : t <= m

VARIABLES
  deployed,  \* the deployment of this behaviour
  runs,      \* committed workflow_eval_runs, by order of start
  results,   \* committed workflow_eval_case_results
  timeout,   \* the case-run timeout now configured
  req,       \* per request: its handler's local state
  crashes    \* crashes so far

vars == <<deployed, runs, results, timeout, req, crashes>>

Cases == DOMAIN CaseRuns

\* The case runs of the suite: <<case, run index>>.
Suite == {<<c, i>> : c \in Cases, i \in UNION {1 .. CaseRuns[d] : d \in Cases}}
           \cap {k \in Cases \X Nat : k[2] <= CaseRuns[k[1]]}

Before(j, k) == j[1] < k[1] \/ (j[1] = k[1] /\ j[2] < k[2])

Total == Cardinality(Suite)

MaxTimeout == CHOOSE t \in Timeouts : \A u \in Timeouts : u <= t
IdleCap == MaxTimeout + Grace + 1   \* idle times are told apart up to here

Status == {"running", "completed", "cancelled", "abandoned"}
Verdict == {"none", "passed", "failed"}
Run == [status : Status, passed : Verdict, slot : BOOLEAN, done : Nat, idle : 0 .. IdleCap]
Result == [run : Nat, key : Suite, passed : BOOLEAN]

Phase == {"idle", "start", "advance", "await", "rejected", "record", "cancel"}
Resting ==
  [pc |-> "idle", run |-> 0,
   key |-> <<0, 0>>, limit |-> 0, spent |-> 0, done |-> 0, passed |-> FALSE,
   idlers |-> {}]
Handler ==
  [pc : Phase, run : Nat, key : Suite \cup {<<0, 0>>},
   limit : Timeouts \cup {0}, spent : 0 .. MaxTimeout, done : Nat,
   passed : BOOLEAN, idlers : SUBSET Nat]

Init ==
  /\ deployed \in Deployments
  /\ runs = <<>>
  /\ results = {}
  /\ timeout \in deployed.timeouts
  /\ req = [q \in Request |-> Resting]
  /\ crashes = 0

Running(r) == r \in DOMAIN runs /\ runs[r].status = "running"
Recorded(rows, r) == {x.key : x \in {y \in rows : y.run = r}}
Awaiting(q) == req[q].pc = "await"
OnLoop(q) == req[q].pc \notin {"idle", "await"}

SameLoop(q, u) == deployed.serves[q] = deployed.serves[u]

\* The event loop that serves q runs no handler: q may begin or resume.
LoopFree(q) == \A u \in Request : OnLoop(u) => ~ SameLoop(q, u)

Accept(q, handler) ==
  /\ req[q].pc = "idle"
  /\ LoopFree(q)
  /\ req' = [req EXCEPT ![q] = handler]
  /\ UNCHANGED <<deployed, runs, results, timeout, crashes>>

Respond(q) == req' = [req EXCEPT ![q] = Resting]
--------------------------------------------------------------------------------
(* How a run ends. *)

\* finish: passed is written by a completion only; setting the loaded NULL to
\* NULL again is no change to the ORM, which leaves the column out of the UPDATE.
Ended(row, status) == [row EXCEPT !.status = status, !.slot = FALSE, !.idle = 0]

Passes(rows, r, c) == Cardinality({x \in rows : x.run = r /\ x.key[1] = c /\ x.passed})

CasePassed(rows, r, c) == Passes(rows, r, c) >= MinPasses[c]

VerdictOf(rows, r) == IF \A c \in Cases : CasePassed(rows, r, c) THEN "passed" ELSE "failed"

\* Mutants of Concluded: the status is not looked at again; a run counts as
\* complete one case run early.
ConcludedUnrefreshed(row, rows, r) ==
  IF row.done >= Total
  THEN [Ended(row, "completed") EXCEPT !.passed = VerdictOf(rows, r)]
  ELSE row
ConcludedEarly(row, rows, r) ==
  IF row.status = "running" /\ row.done + 1 >= Total
  THEN [Ended(row, "completed") EXCEPT !.passed = VerdictOf(rows, r)]
  ELSE row

\* _finish_if_complete, on the row with its status just refreshed.
Concluded(row, rows, r) ==
  IF row.status = "running" /\ row.done >= Total
  THEN [Ended(row, "completed") EXCEPT !.passed = VerdictOf(rows, r)]
  ELSE row
--------------------------------------------------------------------------------
(* Start. *)

\* Mutant of IdleTooLong: the margin alone, without the time a case run may take.
IdleTooLongGrace(r) == Running(r) /\ runs[r].idle > Grace

IdleTooLong(r) == Running(r) /\ runs[r].idle > timeout + Grace

\* expire_abandoned's SELECT, with the timeout read just before it.
BeginStart(q) ==
  /\ Len(runs) < MaxEvalRuns
  /\ Accept(q, [Resting EXCEPT !.pc = "start", !.limit = timeout,
                     !.idlers = {r \in DOMAIN runs : IdleTooLong(r)}])

\* Mutant of AbandonedAs: a status of its own, that nothing else knows.
AbandonedAsIdle == "idle"

AbandonedAs == "abandoned"

\* Mutant of SlotFree: no unique constraint on active_slot.
SlotFreeAlways(rows) == TRUE

SlotFree(rows) == \A r \in DOMAIN rows : ~ rows[r].slot

\* The expiry's UPDATEs and the INSERT; when the slot is taken the request ends
\* with EvalRunInProgress and commits nothing, the expiry included.
InsertRun(q) ==
  /\ req[q].pc = "start"
  /\ LET expired == [r \in DOMAIN runs |->
           IF r \in req[q].idlers THEN Ended(runs[r], AbandonedAs) ELSE runs[r]]
         started == [status |-> "running", passed |-> "none", slot |-> TRUE,
                     done |-> 0, idle |-> 0]
     IN  runs' = IF SlotFree(expired) THEN Append(expired, started) ELSE runs
  /\ Respond(q)
  /\ UNCHANGED <<deployed, results, timeout, crashes>>
--------------------------------------------------------------------------------
(* Advance. *)

\* The status check, on the row first read.
BeginAdvance(q, r) ==
  /\ Running(r)
  /\ Accept(q, [Resting EXCEPT !.pc = "advance", !.run = r, !.done = runs[r].done])

\* Mutant of Pending: a case run another advance executes is skipped.
PendingUnclaimed(q) ==
  {k \in Suite \ Recorded(results, req[q].run) :
     \A u \in Request : Awaiting(u) /\ req[u].run = req[q].run => req[u].key # k}

Pending(q) == Suite \ Recorded(results, req[q].run)

\* Nothing is left to run: another process recorded the last case run between
\* the status check and the read of the results.  The completion is decided on the
\* row loaded before, and an UPDATE writes the columns that changed only.
AdvanceEnded(q) ==
  /\ req[q].pc = "advance"
  /\ Pending(q) = {}
  /\ LET r   == req[q].run
         row == [runs[r] EXCEPT !.done = req[q].done]
     IN  runs' = [runs EXCEPT ![r] = [Concluded(row, results, r) EXCEPT !.done = runs[r].done]]
  /\ Respond(q)
  /\ UNCHANGED <<deployed, results, timeout, crashes>>

\* The first case run not recorded, in suite order; touch, commit; then the input
\* guardrail rejects the input, or the turn begins on a new test thread, under
\* the timeout configured now.
AdvanceCaseRun(q) ==
  /\ req[q].pc = "advance"
  /\ \E k \in Pending(q), phase \in {"await", "rejected"} :
       /\ \A j \in Pending(q) : j = k \/ Before(k, j)
       /\ req' = [req EXCEPT ![q].pc = phase, ![q].key = k,
                             ![q].limit = IF phase = "await" THEN timeout ELSE 0]
  /\ runs' = [runs EXCEPT ![req[q].run].idle = 0]
  /\ UNCHANGED <<deployed, results, timeout, crashes>>

\* The case run was rejected, answered, failed or timed out (wait_for) and is
\* scored; the run row is read for its id and its case_runs_done.
Settle(q) ==
  /\ \/ req[q].pc = "rejected" /\ req' = [req EXCEPT ![q].pc = "record",
                                                     ![q].done = runs[req[q].run].done]
     \/ /\ Awaiting(q)
        /\ LoopFree(q)
        /\ \E passed \in BOOLEAN :
             req' = [req EXCEPT ![q].pc = "record", ![q].passed = passed,
                                ![q].limit = 0, ![q].spent = 0,
                                ![q].done = runs[req[q].run].done]
  /\ UNCHANGED <<deployed, runs, results, timeout, crashes>>

\* The unique constraint over (eval_run_id, case_name, run_index).
Duplicate(q) == req[q].key \in Recorded(results, req[q].run)

\* record, record_progress, _finish_if_complete, commit - or IntegrityError and
\* rollback, when a concurrent advance recorded this case run first.
Record(q) ==
  /\ req[q].pc = "record"
  /\ Respond(q)
  /\ IF Duplicate(q)
     THEN UNCHANGED <<runs, results>>
     ELSE LET r   == req[q].run
              row == [runs[r] EXCEPT !.done = req[q].done + 1, !.idle = 0]
          IN  /\ results' = results \cup
                   {[run |-> r, key |-> req[q].key, passed |-> req[q].passed]}
              /\ runs' = [runs EXCEPT ![r] = Concluded(row, results', r)]
  /\ UNCHANGED <<deployed, timeout, crashes>>
--------------------------------------------------------------------------------
(* Cancel. *)

BeginCancel(q, r) ==
  /\ Running(r)
  /\ Accept(q, [Resting EXCEPT !.pc = "cancel", !.run = r])

\* Mutant of Cancel: the slot is kept.
CancelKeepsSlot(q) ==
  /\ req[q].pc = "cancel"
  /\ runs' = [runs EXCEPT ![req[q].run].status = "cancelled"]
  /\ Respond(q)
  /\ UNCHANGED <<deployed, results, timeout, crashes>>

Cancel(q) ==
  /\ req[q].pc = "cancel"
  /\ runs' = [runs EXCEPT ![req[q].run] = Ended(@, "cancelled")]
  /\ Respond(q)
  /\ UNCHANGED <<deployed, results, timeout, crashes>>
--------------------------------------------------------------------------------
(* The environment. *)

\* The process of q dies: its handlers are gone and what they had open is rolled back.
Crash(q) ==
  /\ crashes < deployed.crashes
  /\ req[q].pc # "idle"
  /\ crashes' = crashes + 1
  /\ req' = [u \in Request |-> IF SameLoop(q, u) THEN Resting ELSE req[u]]
  /\ UNCHANGED <<deployed, runs, results, timeout>>

\* An admin changes the eval case-run timeout.
Configure(t) ==
  /\ timeout' = t
  /\ UNCHANGED <<deployed, runs, results, req, crashes>>

\* Time passes; wait_for fires in the tick it is due.
Tick ==
  /\ \A q \in Request : Awaiting(q) => req[q].spent < req[q].limit
  /\ req' = [q \in Request |->
       IF Awaiting(q) THEN [req[q] EXCEPT !.spent = @ + 1] ELSE req[q]]
  /\ runs' = [r \in DOMAIN runs |->
       IF Running(r) /\ runs[r].idle < IdleCap THEN [runs[r] EXCEPT !.idle = @ + 1] ELSE runs[r]]
  /\ UNCHANGED <<deployed, results, timeout, crashes>>

Statement(q) == InsertRun(q) \/ AdvanceEnded(q) \/ AdvanceCaseRun(q) \/ Settle(q)
                \/ Record(q) \/ Cancel(q)

Next ==
  \/ \E q \in Request :
       \/ Statement(q)
       \/ BeginStart(q)
       \/ \E r \in DOMAIN runs : BeginAdvance(q, r) \/ BeginCancel(q, r)
       \/ Crash(q)
  \/ \E t \in deployed.timeouts : Configure(t)
  \/ Tick

Spec == Init /\ [][Next]_vars

\* Statements complete, the loop (a FIFO of ready callbacks) resumes an advance whose
\* model answered or timed out, time passes, and somebody keeps asking for a run.
Fairness ==
  /\ \A q \in Request : WF_vars(Statement(q)) /\ SF_vars(Settle(q))
  /\ SF_vars(Tick)
  /\ SF_vars(\E q \in Request : BeginStart(q))

FairSpec == Spec /\ Fairness
--------------------------------------------------------------------------------
(* Properties. *)

\* Every variable keeps its type.
TypeOK ==
  /\ deployed \in Deployments
  /\ runs \in Seq(Run)
  /\ results \subseteq Result
  /\ timeout \in deployed.timeouts
  /\ req \in [Request -> Handler]
  /\ crashes \in 0 .. deployed.crashes

\* At most one run is running and it alone holds the active slot: starts, expiries
\* and cancels of several processes hand the slot over without sharing or losing it.
SlotHeld ==
  /\ \A r \in DOMAIN runs : runs[r].slot <=> runs[r].status = "running"
  /\ \A r, s \in DOMAIN runs : runs[r].slot /\ runs[s].slot => r = s

\* case_runs_done counts the run's results, although each advance adds one to a
\* value it read before its INSERT: concurrent advances of a run never both count.
DoneCounts == \A r \in DOMAIN runs : runs[r].done = Cardinality({x \in results : x.run = r})

\* A verdict stands on the whole suite and is the one its results give.
VerdictSound ==
  \A r \in DOMAIN runs :
    /\ runs[r].status = "completed" => runs[r].passed # "none"
    /\ runs[r].passed # "none" =>
         /\ Recorded(results, r) = Suite
         /\ (runs[r].passed = "passed") <=>
              \A c \in Cases : Cardinality({x \in results : x.run = r /\ x.key[1] = c /\ x.passed})
                                 >= MinPasses[c]

\* A start picks a run as abandoned only when no case run of it executes, unless
\* that case run has a longer timeout than the one the start has read.
LiveRunKept ==
  [][\A s, q \in Request :
       req[s].pc = "idle" /\ req'[s].pc = "start" /\ Awaiting(q)
       /\ req[q].run \in req'[s].idlers => req'[s].limit < req[q].limit]_vars

\* A run does not hold the slot forever while somebody keeps asking for it: its
\* page completes or cancels it, or it goes quiet and the next start abandons it.
SlotFreed ==
  \A r \in 1 .. MaxEvalRuns - 1 :
    (r \in DOMAIN runs /\ runs[r].slot) ~> (r \in DOMAIN runs /\ ~ runs[r].slot)

Alone == \A q, u \in Request : SameLoop(q, u)

\* With one process, cancelling (or expiring) a run that already ended changes nothing.
\* (Two: each of them decides on a row the other may have ended since.)
EndedStands ==
  [][\A r \in DOMAIN runs : Alone /\ ~ Running(r) =>
       runs'[r].status = runs[r].status /\ runs'[r].passed = runs[r].passed]_vars
=============================================================================
