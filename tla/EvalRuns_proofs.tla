---------------------------- MODULE EvalRuns_proofs ----------------------------
(***************************************************************************)
(* Theorems about EvalRuns for any suite, deployments, requests and bounds. *)
(***************************************************************************)
EXTENDS EvalRuns, FiniteSetTheorems, TLAPS

(* The suite and the timeouts. *)

LEMMA TimeoutFacts ==
  /\ MaxTimeout \in Timeouts
  /\ \A t \in Timeouts : t \in Nat \ {0} /\ t <= MaxTimeout
  /\ IdleCap \in Nat \ {0}
  /\ \A d \in Deployments : d.timeouts \subseteq Timeouts
<1>1. \A t \in Timeouts : t \in Nat \ {0}
  BY DeploymentAssumption DEF Timeouts
<1>2. MaxTimeout \in Timeouts /\ \A t \in Timeouts : t <= MaxTimeout
  BY TimeoutAssumption DEF MaxTimeout
<1>3. \A d \in Deployments : d.timeouts \subseteq Timeouts
  BY DEF Timeouts
<1>4. QED
  BY <1>1, <1>2, <1>3, BoundsAssumption DEF IdleCap

LEMMA SuiteKeys ==
  \A k \in Suite : /\ k = <<k[1], k[2]>> /\ k[1] \in Cases /\ k[1] \in Nat /\ k[2] \in Nat
                   /\ k[2] \in UNION {1 .. CaseRuns[d] : d \in Cases}
<1>1. Cases \subseteq Nat
  BY SuiteAssumption DEF Cases
<1>2. QED
  BY <1>1 DEF Suite

\* The suite's order is a strict total order.
LEMMA SuiteOrder ==
  ASSUME NEW j \in Suite, NEW k \in Suite
  PROVE  /\ ~ (Before(j, k) /\ Before(k, j))
         /\ ~ Before(k, k)
         /\ j = k \/ Before(j, k) \/ Before(k, j)
BY SuiteKeys DEF Before

LEMMA SuiteFinite == IsFiniteSet(Suite) /\ Total \in Nat
<1> DEFINE f == [d \in Cases |-> 1 .. CaseRuns[d]]
           Ranges == {1 .. CaseRuns[d] : d \in Cases}
<1>1. Cases = 1 .. Len(CaseRuns) /\ Len(CaseRuns) \in Nat /\ \A d \in Cases : CaseRuns[d] \in Nat
  BY SuiteAssumption DEF Cases
<1>2. IsFiniteSet(Cases)
  BY <1>1, FS_Interval
<1>3. f \in Surjection(Cases, Ranges)
  BY DEF Surjection
<1>4. IsFiniteSet(Ranges)
  BY <1>2, <1>3, FS_Surjection
<1>5. \A e \in Ranges : IsFiniteSet(e)
  BY <1>1, FS_Interval
<1>6. IsFiniteSet(UNION Ranges)
  BY <1>4, <1>5, FS_UNION
<1>7. IsFiniteSet(Cases \X (UNION Ranges))
  BY <1>2, <1>6, FS_Product
<1>8. Suite \subseteq Cases \X (UNION Ranges)
  BY SuiteKeys
<1>9. QED
  BY <1>7, <1>8, FS_Subset, FS_CardinalityType DEF Total

\* Replacing a row of a table.
LEMMA RowReplaced ==
  ASSUME NEW S, NEW rows \in Seq(S), NEW r \in DOMAIN rows, NEW row \in S
  PROVE  /\ [rows EXCEPT ![r] = row] \in Seq(S)
         /\ DOMAIN [rows EXCEPT ![r] = row] = DOMAIN rows
OBVIOUS
--------------------------------------------------------------------------------
(* Types. *)

\* A request past its first read knows a committed run, and a case run of the
\* suite once it was given one.
OnRun(h) == h.pc \in {"advance", "await", "rejected", "record", "cancel"}
OnKey(h) == h.pc \in {"await", "rejected", "record"}

HandlerOK(h) ==
  /\ OnRun(h) => h.run \in DOMAIN runs
  /\ OnKey(h) => h.key \in Suite
  /\ h.pc = "await" => h.limit \in Timeouts /\ h.spent <= h.limit
  /\ h.pc \in {"advance", "rejected"} => h.spent = 0

TypeInv ==
  /\ TypeOK
  /\ \A q \in Request : HandlerOK(req[q])
  /\ \A x \in results : x.run \in DOMAIN runs

LEMMA HandlerFields ==
  ASSUME NEW h \in Handler
  PROVE  /\ h.pc \in Phase /\ h.run \in Nat /\ h.key \in Suite \cup {<<0, 0>>}
         /\ h.limit \in Timeouts \cup {0} /\ h.spent \in 0 .. MaxTimeout /\ h.done \in Nat
         /\ h.passed \in BOOLEAN /\ h.idlers \in SUBSET Nat
BY DEF Handler

LEMMA RestingType == Resting \in Handler /\ HandlerOK(Resting)
BY TimeoutFacts DEF Resting, Handler, Phase, HandlerOK, OnRun, OnKey

LEMMA InitType == Init => TypeInv
<1> SUFFICES ASSUME Init PROVE TypeInv
  OBVIOUS
<1>1. deployed \in Deployments /\ deployed.crashes \in Nat
  BY DeploymentAssumption DEF Init
<1>2. runs \in Seq(Run) /\ crashes \in 0 .. deployed.crashes /\ timeout \in deployed.timeouts
  BY <1>1 DEF Init
<1>3. req \in [Request -> Handler] /\ \A q \in Request : HandlerOK(req[q])
  BY RestingType DEF Init
<1>4. QED
  BY <1>1, <1>2, <1>3 DEF Init, TypeInv, TypeOK

\* The rows of runs, and what their ends and completions are.
LEMMA EndedType ==
  ASSUME NEW row \in Run, NEW status \in Status
  PROVE  /\ Ended(row, status) \in Run
         /\ Ended(row, status).status = status /\ Ended(row, status).slot = FALSE
         /\ Ended(row, status).done = row.done /\ Ended(row, status).passed = row.passed
         /\ Ended(row, status).idle = 0
<1> DEFINE one == [row EXCEPT !.status = status]
           two == [one EXCEPT !.slot = FALSE]
<1>1. /\ one \in Run /\ one.status = status
      /\ one.done = row.done /\ one.passed = row.passed
  BY DEF Run
<1> HIDE DEF one
<1>2. /\ two \in Run /\ two.status = status /\ two.slot = FALSE
      /\ two.done = row.done /\ two.passed = row.passed
  BY <1>1 DEF Run
<1> HIDE DEF two
<1>3. 0 \in 0 .. IdleCap
  BY TimeoutFacts
<1>4. /\ [two EXCEPT !.idle = 0] \in Run /\ [two EXCEPT !.idle = 0].status = status
      /\ [two EXCEPT !.idle = 0].slot = FALSE /\ [two EXCEPT !.idle = 0].done = row.done
      /\ [two EXCEPT !.idle = 0].passed = row.passed /\ [two EXCEPT !.idle = 0].idle = 0
  BY <1>2, <1>3 DEF Run
<1>5. Ended(row, status) = [two EXCEPT !.idle = 0]
  BY DEF Ended, one, two
<1>6. QED
  BY <1>4, <1>5

\* next is row, or row completed with a verdict.
Concludes(row, next, verdict) ==
  /\ next \in Run /\ next.done = row.done /\ next.idle \in {row.idle, 0}
  /\ \/ next = row
     \/ /\ row.status = "running" /\ row.done >= Total
        /\ next.status = "completed" /\ next.slot = FALSE /\ next.passed = verdict

LEMMA ConcludedType ==
  ASSUME NEW row \in Run, NEW rows, NEW r
  PROVE  Concludes(row, Concluded(row, rows, r), VerdictOf(rows, r))
<1>1. CASE row.status = "running" /\ row.done >= Total
  <2>1. Ended(row, "completed") \in Run /\ VerdictOf(rows, r) \in Verdict
    BY EndedType DEF Status, VerdictOf, Verdict
  <2>2. Concluded(row, rows, r) = [Ended(row, "completed") EXCEPT !.passed = VerdictOf(rows, r)]
    BY <1>1 DEF Concluded
  <2> DEFINE ended == Ended(row, "completed")
  <2>3. /\ ended \in Run /\ ended.status = "completed" /\ ended.slot = FALSE
        /\ ended.done = row.done /\ ended.idle = 0
    BY EndedType DEF Status
  <2> HIDE DEF ended
  <2>4. /\ [ended EXCEPT !.passed = VerdictOf(rows, r)] \in Run
        /\ [ended EXCEPT !.passed = VerdictOf(rows, r)].passed = VerdictOf(rows, r)
        /\ [ended EXCEPT !.passed = VerdictOf(rows, r)].status = ended.status
        /\ [ended EXCEPT !.passed = VerdictOf(rows, r)].slot = ended.slot
        /\ [ended EXCEPT !.passed = VerdictOf(rows, r)].done = ended.done
        /\ [ended EXCEPT !.passed = VerdictOf(rows, r)].idle = ended.idle
    BY <2>1, <2>3 DEF Run
  <2>5. QED
    BY <1>1, <2>2, <2>3, <2>4 DEF ended, Concludes
<1>2. CASE ~ (row.status = "running" /\ row.done >= Total)
  BY <1>2 DEF Concluded, Concludes
<1>3. QED
  BY <1>1, <1>2
--------------------------------------------------------------------------------
(* A handler with one field set. *)

LEMMA SetPc ==
  ASSUME NEW h \in Handler, NEW v \in Phase
  PROVE  LET g == [h EXCEPT !.pc = v]
         IN  /\ g \in Handler /\ g.pc = v
             /\ g.run = h.run /\ g.key = h.key /\ g.limit = h.limit /\ g.spent = h.spent
             /\ g.done = h.done /\ g.passed = h.passed /\ g.idlers = h.idlers
BY DEF Handler

LEMMA SetKey ==
  ASSUME NEW h \in Handler, NEW v \in Suite
  PROVE  LET g == [h EXCEPT !.key = v]
         IN  /\ g \in Handler /\ g.key = v
             /\ g.pc = h.pc /\ g.run = h.run /\ g.limit = h.limit /\ g.spent = h.spent
             /\ g.done = h.done /\ g.passed = h.passed /\ g.idlers = h.idlers
BY DEF Handler

LEMMA SetLimit ==
  ASSUME NEW h \in Handler, NEW v \in Timeouts \cup {0}
  PROVE  LET g == [h EXCEPT !.limit = v]
         IN  /\ g \in Handler /\ g.limit = v
             /\ g.pc = h.pc /\ g.run = h.run /\ g.key = h.key /\ g.spent = h.spent
             /\ g.done = h.done /\ g.passed = h.passed /\ g.idlers = h.idlers
BY DEF Handler

LEMMA SetSpent ==
  ASSUME NEW h \in Handler, NEW v \in 0 .. MaxTimeout
  PROVE  LET g == [h EXCEPT !.spent = v]
         IN  /\ g \in Handler /\ g.spent = v
             /\ g.pc = h.pc /\ g.run = h.run /\ g.key = h.key /\ g.limit = h.limit
             /\ g.done = h.done /\ g.passed = h.passed /\ g.idlers = h.idlers
BY DEF Handler

LEMMA SetDone ==
  ASSUME NEW h \in Handler, NEW v \in Nat
  PROVE  LET g == [h EXCEPT !.done = v]
         IN  /\ g \in Handler /\ g.done = v
             /\ g.pc = h.pc /\ g.run = h.run /\ g.key = h.key /\ g.limit = h.limit
             /\ g.spent = h.spent /\ g.passed = h.passed /\ g.idlers = h.idlers
BY DEF Handler

LEMMA SetPassed ==
  ASSUME NEW h \in Handler, NEW v \in BOOLEAN
  PROVE  LET g == [h EXCEPT !.passed = v]
         IN  /\ g \in Handler /\ g.passed = v
             /\ g.pc = h.pc /\ g.run = h.run /\ g.key = h.key /\ g.limit = h.limit
             /\ g.spent = h.spent /\ g.done = h.done /\ g.idlers = h.idlers
BY DEF Handler

LEMMA SetRun ==
  ASSUME NEW h \in Handler, NEW v \in Nat
  PROVE  LET g == [h EXCEPT !.run = v]
         IN  /\ g \in Handler /\ g.run = v
             /\ g.pc = h.pc /\ g.key = h.key /\ g.limit = h.limit /\ g.spent = h.spent
             /\ g.done = h.done /\ g.passed = h.passed /\ g.idlers = h.idlers
BY DEF Handler

LEMMA SetIdlers ==
  ASSUME NEW h \in Handler, NEW v \in SUBSET Nat
  PROVE  LET g == [h EXCEPT !.idlers = v]
         IN  /\ g \in Handler /\ g.idlers = v
             /\ g.pc = h.pc /\ g.run = h.run /\ g.key = h.key /\ g.limit = h.limit
             /\ g.spent = h.spent /\ g.done = h.done /\ g.passed = h.passed
BY DEF Handler

LEMMA RestingFields ==
  /\ Resting \in Handler /\ Resting.pc = "idle" /\ Resting.spent = 0 /\ Resting.limit = 0
BY RestingType DEF Resting

\* A step that replaces the handler of one request, over a table that keeps its rows.
LEMMA OneHandler ==
  ASSUME TypeInv, NEW q \in Request, NEW h \in Handler, HandlerOK(h),
         req' = [req EXCEPT ![q] = h], DOMAIN runs \subseteq DOMAIN runs'
  PROVE  /\ req' \in [Request -> Handler]
         /\ req'[q] = h /\ \A u \in Request \ {q} : req'[u] = req[u]
         /\ \A u \in Request : HandlerOK(req[u])'
<1>1. req \in [Request -> Handler] /\ \A u \in Request : HandlerOK(req[u])
  BY DEF TypeInv, TypeOK
<1>2. /\ req' \in [Request -> Handler]
      /\ req'[q] = h /\ \A u \in Request \ {q} : req'[u] = req[u]
  BY <1>1
<1>3. \A u \in Request : HandlerOK(req'[u])
  BY <1>1, <1>2
<1>4. QED
  BY <1>2, <1>3 DEF HandlerOK
--------------------------------------------------------------------------------
(* What the steps do. *)

\* A row keeps all but its idle time.
SameRow(r) ==
  /\ runs'[r].status = runs[r].status /\ runs'[r].passed = runs[r].passed
  /\ runs'[r].slot = runs[r].slot /\ runs'[r].done = runs[r].done

Others(q) == \A u \in Request \ {q} : req'[u] = req[u]

LEMMA Known ==
  ASSUME TypeInv
  PROVE  /\ runs \in Seq(Run) /\ DOMAIN runs = 1 .. Len(runs) /\ Len(runs) \in Nat
         /\ \A r \in DOMAIN runs : runs[r] \in Run
         /\ req \in [Request -> Handler] /\ \A q \in Request : req[q] \in Handler
         /\ \A q \in Request : HandlerOK(req[q])
         /\ timeout \in Timeouts /\ deployed \in Deployments
         /\ results \subseteq Result
         /\ \A x \in results : x.run \in DOMAIN runs /\ x.key \in Suite
<1>1. deployed \in Deployments /\ timeout \in deployed.timeouts
  BY DEF TypeInv, TypeOK
<1>2. timeout \in Timeouts
  BY <1>1, TimeoutFacts
<1>3. runs \in Seq(Run) /\ DOMAIN runs = 1 .. Len(runs) /\ Len(runs) \in Nat
  BY DEF TypeInv, TypeOK
<1>4. \A r \in DOMAIN runs : runs[r] \in Run
  BY <1>3
<1>5. \A x \in results : x.run \in DOMAIN runs /\ x.key \in Suite
  BY DEF TypeInv, TypeOK, Result
<1>6. QED
  BY <1>1, <1>2, <1>3, <1>4, <1>5 DEF TypeInv, TypeOK

LEMMA RunFields ==
  ASSUME NEW row \in Run
  PROVE  /\ row.status \in Status /\ row.passed \in Verdict /\ row.slot \in BOOLEAN
         /\ row.done \in Nat /\ row.idle \in 0 .. IdleCap
BY DEF Run

\* A request that is accepted: nothing else changes.
LEMMA AcceptStep ==
  ASSUME TypeInv, NEW q \in Request, NEW h \in Handler, HandlerOK(h), Accept(q, h)
  PROVE  /\ TypeInv' /\ Others(q) /\ req'[q] = h
         /\ req[q].pc = "idle" /\ LoopFree(q)
         /\ UNCHANGED <<deployed, runs, results, timeout, crashes>>
<1>1. /\ req' = [req EXCEPT ![q] = h] /\ req[q].pc = "idle" /\ LoopFree(q)
      /\ UNCHANGED <<deployed, runs, results, timeout, crashes>>
  BY DEF Accept
<1>2. /\ req' \in [Request -> Handler]
      /\ req'[q] = h /\ \A u \in Request \ {q} : req'[u] = req[u]
      /\ \A u \in Request : HandlerOK(req[u])'
  BY <1>1, OneHandler
<1>3. TypeInv'
  BY <1>1, <1>2 DEF TypeInv, TypeOK
<1>4. QED
  BY <1>1, <1>2, <1>3 DEF Others

LEMMA BeginStartStep ==
  ASSUME TypeInv, NEW q \in Request, BeginStart(q)
  PROVE  /\ TypeInv' /\ Others(q)
         /\ req[q].pc = "idle" /\ LoopFree(q)
         /\ req'[q].pc = "start" /\ req'[q].limit = timeout
         /\ req'[q].idlers = {r \in DOMAIN runs : IdleTooLong(r)}
         /\ UNCHANGED <<deployed, runs, results, timeout, crashes>>
<1> DEFINE idlers == {r \in DOMAIN runs : IdleTooLong(r)}
           h == [Resting EXCEPT !.pc = "start", !.limit = timeout, !.idlers = idlers]
<1> DEFINE one == [Resting EXCEPT !.pc = "start"]
           two == [one EXCEPT !.limit = timeout]
           three == [two EXCEPT !.idlers = idlers]
<1>1. h = three
  OBVIOUS
<1>2. idlers \in SUBSET Nat
  BY Known
<1> HIDE DEF idlers
<1>3. one \in Handler /\ one.pc = "start"
  BY SetPc, RestingFields DEF Phase
<1> HIDE DEF one
<1>4. two \in Handler /\ two.pc = "start" /\ two.limit = timeout
  BY <1>3, SetLimit, Known
<1> HIDE DEF two
<1>5. three \in Handler /\ three.pc = "start" /\ three.limit = timeout /\ three.idlers = idlers
  BY <1>2, <1>4, SetIdlers
<1>6. HandlerOK(three)
  BY <1>5 DEF HandlerOK, OnRun, OnKey
<1>7. Accept(q, h)
  BY DEF BeginStart, idlers
<1> HIDE DEF h, three
<1>8. QED
  BY <1>1, <1>5, <1>6, <1>7, AcceptStep DEF idlers

LEMMA BeginAdvanceStep ==
  ASSUME TypeInv, NEW q \in Request, NEW r \in DOMAIN runs, BeginAdvance(q, r)
  PROVE  /\ TypeInv' /\ Others(q)
         /\ req[q].pc = "idle" /\ LoopFree(q)
         /\ req'[q].pc = "advance"
         /\ UNCHANGED <<deployed, runs, results, timeout, crashes>>
<1> DEFINE h == [Resting EXCEPT !.pc = "advance", !.run = r, !.done = runs[r].done]
<1> DEFINE one == [Resting EXCEPT !.pc = "advance"]
           two == [one EXCEPT !.run = r]
           three == [two EXCEPT !.done = runs[r].done]
<1>1. h = three
  OBVIOUS
<1>2. r \in Nat /\ runs[r].done \in Nat
  BY Known, RunFields
<1>3. one \in Handler /\ one.pc = "advance" /\ one.spent = 0
  BY SetPc, RestingFields DEF Phase
<1> HIDE DEF one
<1>4. two \in Handler /\ two.pc = "advance" /\ two.spent = 0 /\ two.run = r
  BY <1>2, <1>3, SetRun
<1> HIDE DEF two
<1>5. three \in Handler /\ three.pc = "advance" /\ three.spent = 0 /\ three.run = r
  BY <1>2, <1>4, SetDone
<1>6. HandlerOK(three)
  BY <1>5 DEF HandlerOK, OnRun, OnKey
<1>7. Accept(q, h)
  BY DEF BeginAdvance
<1> HIDE DEF h, three
<1>8. QED
  BY <1>1, <1>5, <1>6, <1>7, AcceptStep

LEMMA BeginCancelStep ==
  ASSUME TypeInv, NEW q \in Request, NEW r \in DOMAIN runs, BeginCancel(q, r)
  PROVE  /\ TypeInv' /\ Others(q)
         /\ req[q].pc = "idle" /\ LoopFree(q)
         /\ req'[q].pc = "cancel" /\ req'[q].run = r /\ Running(r)
         /\ UNCHANGED <<deployed, runs, results, timeout, crashes>>
<1> DEFINE h == [Resting EXCEPT !.pc = "cancel", !.run = r]
<1> DEFINE one == [Resting EXCEPT !.pc = "cancel"]
           two == [one EXCEPT !.run = r]
<1>1. h = two
  OBVIOUS
<1>2. r \in Nat
  BY Known
<1>3. one \in Handler /\ one.pc = "cancel"
  BY SetPc, RestingFields DEF Phase
<1> HIDE DEF one
<1>4. two \in Handler /\ two.pc = "cancel" /\ two.run = r
  BY <1>2, <1>3, SetRun
<1>5. HandlerOK(two)
  BY <1>4 DEF HandlerOK, OnRun, OnKey
<1>6. Accept(q, h) /\ Running(r)
  BY DEF BeginCancel
<1> HIDE DEF h, two
<1>7. QED
  BY <1>1, <1>4, <1>5, <1>6, AcceptStep

\* A request that is answered.
LEMMA RespondStep ==
  ASSUME TypeInv, NEW q \in Request, Respond(q), DOMAIN runs \subseteq DOMAIN runs'
  PROVE  /\ req' \in [Request -> Handler]
         /\ req'[q].pc = "idle" /\ Others(q)
         /\ \A u \in Request : HandlerOK(req[u])'
<1>1. req' = [req EXCEPT ![q] = Resting] /\ Resting.pc = "idle"
  BY DEF Respond, Resting
<1>2. QED
  BY <1>1, OneHandler, RestingType DEF Others

LEMMA RespondType ==
  ASSUME TypeInv, NEW q \in Request, Respond(q), DOMAIN runs \subseteq DOMAIN runs',
         runs' \in Seq(Run), results' \subseteq Result,
         \A x \in results' : x.run \in DOMAIN runs', UNCHANGED <<deployed, timeout, crashes>>
  PROVE  TypeInv' /\ req'[q].pc = "idle" /\ Others(q)
BY RespondStep DEF TypeInv, TypeOK

\* Rows that a start has expired.
Expired(q) == [r \in DOMAIN runs |->
                 IF r \in req[q].idlers THEN Ended(runs[r], AbandonedAs) ELSE runs[r]]
Started == [status |-> "running", passed |-> "none", slot |-> TRUE, done |-> 0, idle |-> 0]

LEMMA StartedType ==
  /\ Started \in Run /\ Started.status = "running" /\ Started.passed = "none"
  /\ Started.slot = TRUE /\ Started.done = 0 /\ Started.idle = 0
<1>1. 0 \in 0 .. IdleCap
  BY TimeoutFacts
<1>2. QED
  BY <1>1 DEF Started, Run, Status, Verdict

LEMMA ExpiredType ==
  ASSUME TypeInv, NEW q \in Request
  PROVE  /\ Expired(q) \in Seq(Run) /\ DOMAIN Expired(q) = DOMAIN runs
         /\ Len(Expired(q)) = Len(runs)
         /\ \A r \in DOMAIN runs :
              /\ Expired(q)[r].passed = runs[r].passed /\ Expired(q)[r].done = runs[r].done
              /\ Expired(q)[r].idle \in {runs[r].idle, 0}
              /\ r \in req[q].idlers => /\ Expired(q)[r].status = "abandoned"
                                        /\ Expired(q)[r].slot = FALSE
              /\ r \notin req[q].idlers => Expired(q)[r] = runs[r]
<1>1. /\ DOMAIN runs = 1 .. Len(runs) /\ Len(runs) \in Nat
      /\ \A r \in DOMAIN runs : runs[r] \in Run
  BY Known
<1>2. \A r \in DOMAIN runs :
        LET row == Ended(runs[r], AbandonedAs)
        IN  /\ row \in Run /\ row.status = "abandoned" /\ row.slot = FALSE
            /\ row.done = runs[r].done /\ row.passed = runs[r].passed /\ row.idle = 0
  BY <1>1, EndedType DEF AbandonedAs, Status
<1>3. DOMAIN Expired(q) = DOMAIN runs
  BY DEF Expired
<1>4. \A r \in DOMAIN runs :
        /\ r \in req[q].idlers => Expired(q)[r] = Ended(runs[r], AbandonedAs)
        /\ r \notin req[q].idlers => Expired(q)[r] = runs[r]
  BY DEF Expired
<1>5. \A r \in DOMAIN runs : Expired(q)[r] \in Run
  BY <1>1, <1>2, <1>4
<1>6. Expired(q) \in [1 .. Len(runs) -> Run]
  BY <1>1, <1>3, <1>5 DEF Expired
<1>7. Expired(q) \in Seq(Run) /\ Len(Expired(q)) = Len(runs)
  BY <1>1, <1>6
<1>8. QED
  BY <1>1, <1>2, <1>3, <1>4, <1>7

\* A start commits nothing while another run holds the slot after its expiry.
LEMMA InsertRunStep ==
  ASSUME TypeInv, NEW q \in Request, InsertRun(q)
  PROVE  /\ TypeInv' /\ Others(q)
         /\ req[q].pc = "start" /\ req'[q].pc = "idle"
         /\ UNCHANGED <<deployed, results, timeout, crashes>>
         /\ DOMAIN runs \subseteq DOMAIN runs'
         /\ \A r \in DOMAIN runs :
              /\ runs'[r].passed = runs[r].passed /\ runs'[r].done = runs[r].done
              /\ runs'[r].idle \in {runs[r].idle, 0}
              /\ \/ SameRow(r)
                 \/ /\ r \in req[q].idlers
                    /\ runs'[r].status = "abandoned" /\ runs'[r].slot = FALSE
         /\ \A r \in DOMAIN runs' \ DOMAIN runs :
              /\ runs'[r].status = "running" /\ runs'[r].passed = "none"
              /\ runs'[r].slot = TRUE /\ runs'[r].done = 0
              /\ \A s \in DOMAIN runs' \ {r} : s \in DOMAIN runs /\ runs'[s].slot = FALSE
<1>1. /\ req[q].pc = "start" /\ Respond(q)
      /\ UNCHANGED <<deployed, results, timeout, crashes>>
  BY DEF InsertRun
<1>2. runs' = IF SlotFree(Expired(q)) THEN Append(Expired(q), Started) ELSE runs
  BY DEF InsertRun, Expired, Started
<1>3. CASE ~ SlotFree(Expired(q))
  <2>1. runs' = runs
    BY <1>2, <1>3
  <2>2. TypeInv' /\ req'[q].pc = "idle" /\ Others(q)
    BY <1>1, <2>1, RespondType, Known
  <2>3. QED
    BY <1>1, <2>1, <2>2 DEF SameRow
<1>4. CASE SlotFree(Expired(q))
  <2> DEFINE rows == Expired(q)
             n == Len(runs)
  <2>1. runs' = Append(rows, Started)
    BY <1>2, <1>4
  <2>2. /\ rows \in Seq(Run) /\ DOMAIN rows = DOMAIN runs /\ Len(rows) = n
        /\ DOMAIN runs = 1 .. n /\ n \in Nat
    BY ExpiredType, Known
  <2>3. \A r \in DOMAIN runs : rows[r] \in Run
    BY <2>2
  <2>4. \A r \in DOMAIN runs : rows[r].slot = FALSE
    BY <1>4, <2>2, <2>3, RunFields DEF SlotFree
  <2> HIDE DEF rows
  <2>5. /\ runs' \in Seq(Run) /\ DOMAIN runs' = 1 .. n + 1
        /\ \A r \in DOMAIN runs : runs'[r] = rows[r]
        /\ runs'[n + 1] = Started
    BY <2>1, <2>2, StartedType
  <2> HIDE DEF n
  <2>6. DOMAIN runs \subseteq DOMAIN runs' /\ DOMAIN runs' \ DOMAIN runs = {n + 1}
    BY <2>2, <2>5
  <2>7. TypeInv' /\ req'[q].pc = "idle" /\ Others(q)
    <3>1. results' \subseteq Result /\ \A x \in results' : x.run \in DOMAIN runs'
      BY <1>1, <2>6, Known
    <3>2. QED
      BY <1>1, <2>5, <2>6, <3>1, RespondType
  <2>8. \A r \in DOMAIN runs :
          /\ runs'[r].passed = runs[r].passed /\ runs'[r].done = runs[r].done
          /\ runs'[r].idle \in {runs[r].idle, 0}
          /\ \/ SameRow(r)
             \/ /\ r \in req[q].idlers
                /\ runs'[r].status = "abandoned" /\ runs'[r].slot = FALSE
    <3> SUFFICES ASSUME NEW r \in DOMAIN runs
                 PROVE  /\ runs'[r].passed = runs[r].passed /\ runs'[r].done = runs[r].done
                        /\ runs'[r].idle \in {runs[r].idle, 0}
                        /\ \/ SameRow(r)
                           \/ /\ r \in req[q].idlers
                              /\ runs'[r].status = "abandoned" /\ runs'[r].slot = FALSE
      OBVIOUS
    <3>1. /\ rows[r].passed = runs[r].passed /\ rows[r].done = runs[r].done
          /\ rows[r].idle \in {runs[r].idle, 0}
          /\ r \in req[q].idlers => rows[r].status = "abandoned" /\ rows[r].slot = FALSE
          /\ r \notin req[q].idlers => rows[r] = runs[r]
      BY ExpiredType DEF rows
    <3>2. runs'[r] = rows[r]
      BY <2>5
    <3>3. CASE r \in req[q].idlers
      BY <3>1, <3>2, <3>3
    <3>4. CASE r \notin req[q].idlers
      BY <3>1, <3>2, <3>4 DEF SameRow
    <3>5. QED
      BY <3>3, <3>4
  <2>9. \A r \in DOMAIN runs' \ DOMAIN runs :
          /\ runs'[r].status = "running" /\ runs'[r].passed = "none"
          /\ runs'[r].slot = TRUE /\ runs'[r].done = 0
          /\ \A s \in DOMAIN runs' \ {r} : s \in DOMAIN runs /\ runs'[s].slot = FALSE
    <3>1. \A s \in DOMAIN runs' \ {n + 1} : s \in DOMAIN runs
      BY <2>6
    <3>2. QED
      BY <2>4, <2>5, <2>6, <3>1, StartedType
  <2>10. QED
    BY <1>1, <2>6, <2>7, <2>8, <2>9
<1>5. QED
  BY <1>3, <1>4

LEMMA AdvanceEndedStep ==
  ASSUME TypeInv, NEW q \in Request, AdvanceEnded(q)
  PROVE  /\ TypeInv' /\ Others(q)
         /\ req[q].pc = "advance" /\ req'[q].pc = "idle" /\ req[q].run \in DOMAIN runs
         /\ UNCHANGED <<deployed, results, timeout, crashes>>
         /\ DOMAIN runs' = DOMAIN runs
         /\ \A r \in DOMAIN runs : /\ runs'[r].done = runs[r].done
                                   /\ runs'[r].idle \in {runs[r].idle, 0}
                                   /\ r # req[q].run => SameRow(r)
         /\ \/ SameRow(req[q].run)
            \/ /\ runs[req[q].run].status = "running" /\ Pending(q) = {}
               /\ runs'[req[q].run].status = "completed" /\ runs'[req[q].run].slot = FALSE
               /\ runs'[req[q].run].passed = VerdictOf(results, req[q].run)
<1>1. PICK r, loaded, next, kept :
        /\ r = req[q].run /\ loaded = [runs[r] EXCEPT !.done = req[q].done]
        /\ next = Concluded(loaded, results, r)
        /\ kept = [next EXCEPT !.done = runs[r].done]
  OBVIOUS
<1>2. /\ req[q].pc = "advance" /\ Pending(q) = {} /\ Respond(q)
      /\ runs' = [runs EXCEPT ![r] = kept]
      /\ UNCHANGED <<deployed, results, timeout, crashes>>
  BY <1>1 DEF AdvanceEnded
<1>3. /\ r \in DOMAIN runs /\ runs[r] \in Run /\ req[q].done \in Nat /\ runs[r].done \in Nat
      /\ runs \in Seq(Run)
  BY <1>1, <1>2, Known, HandlerFields, RunFields DEF HandlerOK, OnRun
<1>4. /\ loaded \in Run /\ loaded.status = runs[r].status /\ loaded.passed = runs[r].passed
      /\ loaded.slot = runs[r].slot /\ loaded.idle = runs[r].idle
  BY <1>1, <1>3 DEF Run
<1>5. /\ next \in Run /\ next.idle \in {loaded.idle, 0}
      /\ \/ next = loaded
         \/ /\ loaded.status = "running" /\ next.status = "completed" /\ next.slot = FALSE
            /\ next.passed = VerdictOf(results, r)
  <2>1. Concludes(loaded, Concluded(loaded, results, r), VerdictOf(results, r))
    BY <1>4, ConcludedType, Zenon
  <2>2. QED
    BY <1>1, <2>1 DEF Concludes
<1>6. /\ kept \in Run /\ kept.status = next.status /\ kept.passed = next.passed
      /\ kept.slot = next.slot /\ kept.idle = next.idle /\ kept.done = runs[r].done
  BY <1>1, <1>3, <1>5 DEF Run
<1>7. /\ runs' \in Seq(Run) /\ DOMAIN runs' = DOMAIN runs /\ runs'[r] = kept
      /\ \A s \in DOMAIN runs \ {r} : runs'[s] = runs[s]
  BY <1>2, <1>3, <1>6
<1>8. TypeInv' /\ req'[q].pc = "idle" /\ Others(q)
  BY <1>2, <1>7, RespondType, Known
<1>9. \A s \in DOMAIN runs : /\ runs'[s].done = runs[s].done
                             /\ runs'[s].idle \in {runs[s].idle, 0}
                             /\ s # r => SameRow(s)
  BY <1>4, <1>5, <1>6, <1>7 DEF SameRow
<1>10. \/ SameRow(r)
       \/ /\ runs[r].status = "running"
          /\ runs'[r].status = "completed" /\ runs'[r].slot = FALSE
          /\ runs'[r].passed = VerdictOf(results, r)
  BY <1>4, <1>5, <1>6, <1>7 DEF SameRow
<1>11. QED
  BY <1>1, <1>2, <1>3, <1>7, <1>8, <1>9, <1>10

LEMMA AdvanceCaseRunStep ==
  ASSUME TypeInv, NEW q \in Request, AdvanceCaseRun(q)
  PROVE  /\ TypeInv' /\ Others(q)
         /\ req[q].pc = "advance" /\ req'[q].pc \in {"await", "rejected"}
         /\ req'[q].run = req[q].run /\ req[q].run \in DOMAIN runs
         /\ req'[q].key \in Suite /\ req'[q].spent = 0
         /\ \A j \in Suite : Before(j, req'[q].key) => j \in Recorded(results, req[q].run)
         /\ UNCHANGED <<deployed, results, timeout, crashes>>
         /\ DOMAIN runs' = DOMAIN runs
         /\ \A r \in DOMAIN runs : SameRow(r) /\ runs'[r].idle \in {runs[r].idle, 0}
         /\ runs'[req[q].run].idle = 0
<1> DEFINE r == req[q].run
<1>1. PICK k \in Pending(q), phase \in {"await", "rejected"} :
        /\ \A j \in Pending(q) : j = k \/ Before(k, j)
        /\ req' = [req EXCEPT ![q].pc = phase, ![q].key = k,
                              ![q].limit = IF phase = "await" THEN timeout ELSE 0]
  BY DEF AdvanceCaseRun
<1>2. /\ req[q].pc = "advance"
      /\ runs' = [runs EXCEPT ![r].idle = 0]
      /\ UNCHANGED <<deployed, results, timeout, crashes>>
  BY DEF AdvanceCaseRun
<1>3. /\ req[q] \in Handler /\ HandlerOK(req[q]) /\ req[q].spent = 0 /\ r \in DOMAIN runs
      /\ runs[r] \in Run /\ runs \in Seq(Run) /\ k \in Suite
  BY <1>2, Known DEF HandlerOK, OnRun, Pending
<1> DEFINE limit == IF phase = "await" THEN timeout ELSE 0
           one == [req[q] EXCEPT !.pc = phase]
           two == [one EXCEPT !.key = k]
           h == [two EXCEPT !.limit = limit]
<1>4. req' = [req EXCEPT ![q] = h]
  BY <1>1, Known
<1>5. one \in Handler /\ one.pc = phase /\ one.spent = 0 /\ one.run = r
  <2>1. phase \in Phase
    BY <1>1 DEF Phase
  <2>2. QED
    BY <1>3, <2>1, SetPc
<1> HIDE DEF one
<1>6. two \in Handler /\ two.pc = phase /\ two.spent = 0 /\ two.run = r /\ two.key = k
  BY <1>3, <1>5, SetKey
<1> HIDE DEF two
<1>7. /\ h \in Handler /\ h.pc = phase /\ h.spent = 0 /\ h.run = r /\ h.key = k
      /\ phase = "await" => h.limit = timeout
  BY <1>6, SetLimit, Known
<1> HIDE DEF h
<1>8. HandlerOK(h)
  <2>1. timeout \in Timeouts /\ timeout \in Nat
    BY Known, TimeoutFacts
  <2>2. QED
    BY <1>3, <1>7, <2>1 DEF HandlerOK, OnRun, OnKey
<1> DEFINE row == [runs[r] EXCEPT !.idle = 0]
<1>9. /\ row \in Run /\ row.status = runs[r].status /\ row.passed = runs[r].passed
      /\ row.slot = runs[r].slot /\ row.idle = 0 /\ row.done = runs[r].done
  <2>1. 0 \in 0 .. IdleCap
    BY TimeoutFacts
  <2>2. QED
    BY <1>3, <2>1 DEF Run
<1>10. runs' = [runs EXCEPT ![r] = row]
  BY <1>2, <1>3
<1> HIDE DEF row, r
<1>11. /\ runs' \in Seq(Run) /\ DOMAIN runs' = DOMAIN runs /\ runs'[r] = row
       /\ \A s \in DOMAIN runs \ {r} : runs'[s] = runs[s]
  BY <1>3, <1>9, <1>10
<1>12. /\ req' \in [Request -> Handler]
       /\ req'[q] = h /\ \A u \in Request \ {q} : req'[u] = req[u]
       /\ \A u \in Request : HandlerOK(req[u])'
  BY <1>4, <1>7, <1>8, <1>11, OneHandler
<1>13. TypeInv'
  BY <1>2, <1>11, <1>12 DEF TypeInv, TypeOK
<1>14. \A s \in DOMAIN runs : SameRow(s) /\ runs'[s].idle \in {runs[s].idle, 0}
  BY <1>9, <1>11 DEF SameRow
<1>15. \A j \in Suite : Before(j, k) => j \in Recorded(results, r)
  BY <1>1, <1>3, SuiteOrder DEF Pending, r
<1>16. QED
  BY <1>1, <1>2, <1>3, <1>7, <1>9, <1>11, <1>12, <1>13, <1>14, <1>15 DEF Others, r

LEMMA SettleStep ==
  ASSUME TypeInv, NEW q \in Request, Settle(q)
  PROVE  /\ TypeInv' /\ Others(q)
         /\ \/ req[q].pc = "rejected"
            \/ req[q].pc = "await" /\ LoopFree(q)
         /\ req'[q].pc = "record" /\ req'[q].run = req[q].run /\ req'[q].key = req[q].key
         /\ req'[q].done = runs[req[q].run].done
         /\ UNCHANGED <<deployed, runs, results, timeout, crashes>>
<1>1. /\ UNCHANGED <<deployed, runs, results, timeout, crashes>>
      /\ req[q] \in Handler /\ HandlerOK(req[q])
  BY Known DEF Settle
<1>2. \/ req[q].pc = "rejected"
      \/ req[q].pc = "await" /\ LoopFree(q)
  BY DEF Settle, Awaiting
<1>3. PICK done : done = runs[req[q].run].done
  OBVIOUS
<1>4. req[q].run \in DOMAIN runs /\ req[q].key \in Suite /\ done \in Nat
  BY <1>1, <1>2, <1>3, Known, RunFields DEF HandlerOK, OnRun, OnKey
<1>5. PICK one : one = [req[q] EXCEPT !.pc = "record"]
  OBVIOUS
<1>6. one \in Handler /\ one.pc = "record" /\ one.run = req[q].run /\ one.key = req[q].key
  BY <1>1, <1>5, SetPc DEF Phase
<1>7. ASSUME NEW h \in Handler, h.pc = "record", h.run = req[q].run, h.key = req[q].key,
             h.done = done, req' = [req EXCEPT ![q] = h]
      PROVE  /\ TypeInv' /\ Others(q) /\ req'[q] = h
  <2>1. HandlerOK(h)
    BY <1>4, <1>7 DEF HandlerOK, OnRun, OnKey
  <2>2. /\ req' \in [Request -> Handler]
        /\ req'[q] = h /\ \A u \in Request \ {q} : req'[u] = req[u]
        /\ \A u \in Request : HandlerOK(req[u])'
    BY <1>1, <1>7, <2>1, OneHandler
  <2>3. QED
    BY <1>1, <2>2 DEF TypeInv, TypeOK, Others
<1>8. CASE req[q].pc = "rejected"
  <2>1. PICK h : h = [one EXCEPT !.done = done]
    OBVIOUS
  <2>2. /\ h \in Handler /\ h.pc = "record" /\ h.run = req[q].run /\ h.key = req[q].key
        /\ h.done = done
    BY <1>4, <1>6, <2>1, SetDone
  <2>3. req' = [req EXCEPT ![q] = h]
    BY <1>3, <1>5, <1>8, <2>1, Known DEF Settle, Awaiting
  <2>4. QED
    BY <1>1, <1>3, <1>7, <1>8, <2>2, <2>3
<1>9. CASE Awaiting(q)
  <2>1. PICK passed \in BOOLEAN :
          req' = [req EXCEPT ![q].pc = "record", ![q].passed = passed,
                             ![q].limit = 0, ![q].spent = 0,
                             ![q].done = runs[req[q].run].done]
    BY <1>9 DEF Settle, Awaiting
  <2>2. PICK two, three, four, h :
          /\ two = [one EXCEPT !.passed = passed] /\ three = [two EXCEPT !.limit = 0]
          /\ four = [three EXCEPT !.spent = 0] /\ h = [four EXCEPT !.done = done]
    OBVIOUS
  <2>3. two \in Handler /\ two.pc = "record" /\ two.run = req[q].run /\ two.key = req[q].key
    BY <1>6, <2>2, SetPassed
  <2>4. three \in Handler /\ three.pc = "record" /\ three.run = req[q].run
        /\ three.key = req[q].key
    BY <2>2, <2>3, SetLimit
  <2>5. four \in Handler /\ four.pc = "record" /\ four.run = req[q].run
        /\ four.key = req[q].key
    <3>1. 0 \in 0 .. MaxTimeout
      BY TimeoutFacts
    <3>2. QED
      BY <2>2, <2>4, <3>1, SetSpent
  <2>6. /\ h \in Handler /\ h.pc = "record" /\ h.run = req[q].run /\ h.key = req[q].key
        /\ h.done = done
    BY <1>4, <2>2, <2>5, SetDone
  <2>7. req' = [req EXCEPT ![q] = h]
    BY <1>3, <1>5, <2>1, <2>2, Known
  <2>8. QED
    BY <1>1, <1>2, <1>3, <1>7, <2>6, <2>7
<1>10. QED
  BY <1>2, <1>8, <1>9 DEF Awaiting

\* Either the row that counts the new result, with its completion, or nothing.
LEMMA RecordStep ==
  ASSUME TypeInv, NEW q \in Request, Record(q)
  PROVE  /\ TypeInv' /\ Others(q)
         /\ req[q].pc = "record" /\ req'[q].pc = "idle"
         /\ req[q].run \in DOMAIN runs /\ req[q].key \in Suite
         /\ UNCHANGED <<deployed, timeout, crashes>>
         /\ Duplicate(q) => UNCHANGED <<runs, results>>
         /\ ~ Duplicate(q) =>
              /\ results' = results \cup {[run |-> req[q].run, key |-> req[q].key,
                                           passed |-> req[q].passed]}
              /\ DOMAIN runs' = DOMAIN runs
              /\ \A r \in DOMAIN runs \ {req[q].run} : runs'[r] = runs[r]
              /\ runs'[req[q].run].done = req[q].done + 1
              /\ runs'[req[q].run].idle = 0
              /\ \/ /\ runs'[req[q].run].status = runs[req[q].run].status
                    /\ runs'[req[q].run].passed = runs[req[q].run].passed
                    /\ runs'[req[q].run].slot = runs[req[q].run].slot
                 \/ /\ runs[req[q].run].status = "running" /\ req[q].done + 1 >= Total
                    /\ runs'[req[q].run].status = "completed"
                    /\ runs'[req[q].run].slot = FALSE
                    /\ runs'[req[q].run].passed = VerdictOf(results', req[q].run)
<1>1. req[q].pc = "record" /\ Respond(q) /\ UNCHANGED <<deployed, timeout, crashes>>
  BY DEF Record
<1>2. /\ req[q] \in Handler /\ req[q].run \in DOMAIN runs /\ req[q].key \in Suite
      /\ req[q].done \in Nat /\ req[q].passed \in BOOLEAN
      /\ req[q].run \in Nat /\ runs[req[q].run] \in Run /\ runs \in Seq(Run)
  BY <1>1, Known, HandlerFields DEF HandlerOK, OnRun, OnKey
<1>3. CASE Duplicate(q)
  <2>1. UNCHANGED <<runs, results>>
    BY <1>3 DEF Record
  <2>2. TypeInv' /\ req'[q].pc = "idle" /\ Others(q)
    BY <1>1, <2>1, RespondType, Known
  <2>3. QED
    BY <1>1, <1>2, <1>3, <2>1, <2>2
<1>4. CASE ~ Duplicate(q)
  <2>1. PICK r, row1, row, new, rows, next :
          /\ r = req[q].run /\ row1 = [runs[r] EXCEPT !.done = req[q].done + 1]
          /\ row = [row1 EXCEPT !.idle = 0]
          /\ new = [run |-> r, key |-> req[q].key, passed |-> req[q].passed]
          /\ rows = results \cup {new}
          /\ next = Concluded(row, rows, r)
    OBVIOUS
  <2>2. results' = rows /\ runs' = [runs EXCEPT ![r] = next]
    BY <1>4, <2>1 DEF Record
  <2>3. req[q].done + 1 \in Nat /\ 0 \in 0 .. IdleCap
    BY <1>2, TimeoutFacts
  <2>4. /\ row1 \in Run /\ row1.status = runs[r].status /\ row1.passed = runs[r].passed
        /\ row1.slot = runs[r].slot /\ row1.done = req[q].done + 1
    BY <1>2, <2>1, <2>3 DEF Run
  <2>5. /\ row \in Run /\ row.status = runs[r].status /\ row.passed = runs[r].passed
        /\ row.slot = runs[r].slot /\ row.done = req[q].done + 1 /\ row.idle = 0
    BY <2>1, <2>3, <2>4 DEF Run
  <2>6. /\ next \in Run /\ next.done = row.done /\ next.idle = 0
        /\ \/ next = row
           \/ /\ row.status = "running" /\ row.done >= Total
              /\ next.status = "completed" /\ next.slot = FALSE
              /\ next.passed = VerdictOf(rows, r)
    <3>1. Concludes(row, Concluded(row, rows, r), VerdictOf(rows, r))
      BY <2>5, ConcludedType, Zenon
    <3>2. QED
      BY <2>1, <2>5, <3>1 DEF Concludes
  <2>7. /\ runs' \in Seq(Run) /\ DOMAIN runs' = DOMAIN runs /\ runs'[r] = next
        /\ \A s \in DOMAIN runs \ {r} : runs'[s] = runs[s]
    BY <1>2, <2>1, <2>2, <2>6
  <2>8. new \in Result /\ new.run \in DOMAIN runs
    BY <1>2, <2>1 DEF Result
  <2>9. results' \subseteq Result /\ \A x \in results' : x.run \in DOMAIN runs'
    BY <2>1, <2>2, <2>7, <2>8, Known
  <2>10. TypeInv' /\ req'[q].pc = "idle" /\ Others(q)
    BY <1>1, <2>7, <2>9, RespondType
  <2>11. QED
    BY <1>1, <1>2, <1>4, <2>1, <2>2, <2>5, <2>6, <2>7, <2>10
<1>5. QED
  BY <1>3, <1>4

LEMMA CancelStep ==
  ASSUME TypeInv, NEW q \in Request, Cancel(q)
  PROVE  /\ TypeInv' /\ Others(q)
         /\ req[q].pc = "cancel" /\ req'[q].pc = "idle" /\ req[q].run \in DOMAIN runs
         /\ UNCHANGED <<deployed, results, timeout, crashes>>
         /\ DOMAIN runs' = DOMAIN runs
         /\ \A r \in DOMAIN runs \ {req[q].run} : runs'[r] = runs[r]
         /\ runs'[req[q].run].status = "cancelled" /\ runs'[req[q].run].slot = FALSE
         /\ runs'[req[q].run].passed = runs[req[q].run].passed
         /\ runs'[req[q].run].done = runs[req[q].run].done
         /\ runs'[req[q].run].idle = 0
<1>1. PICK r, row : r = req[q].run /\ row = Ended(runs[r], "cancelled")
  OBVIOUS
<1>2. /\ req[q].pc = "cancel" /\ Respond(q) /\ UNCHANGED <<deployed, results, timeout, crashes>>
      /\ runs' = [runs EXCEPT ![r] = row]
  BY <1>1 DEF Cancel
<1>3. r \in DOMAIN runs /\ runs[r] \in Run /\ runs \in Seq(Run)
  BY <1>1, <1>2, Known DEF HandlerOK, OnRun
<1>4. /\ row \in Run /\ row.status = "cancelled" /\ row.slot = FALSE
      /\ row.done = runs[r].done /\ row.passed = runs[r].passed /\ row.idle = 0
  BY <1>1, <1>3, EndedType DEF Status
<1>5. /\ runs' \in Seq(Run) /\ DOMAIN runs' = DOMAIN runs /\ runs'[r] = row
      /\ \A s \in DOMAIN runs \ {r} : runs'[s] = runs[s]
  BY <1>2, <1>3, <1>4
<1>6. TypeInv' /\ req'[q].pc = "idle" /\ Others(q)
  BY <1>2, <1>5, RespondType, Known
<1>7. QED
  BY <1>1, <1>2, <1>3, <1>4, <1>5, <1>6

LEMMA CrashStep ==
  ASSUME TypeInv, NEW q \in Request, Crash(q)
  PROVE  /\ TypeInv'
         /\ \A u \in Request : req'[u] = req[u] \/ req'[u].pc = "idle"
         /\ UNCHANGED <<deployed, runs, results, timeout>>
<1>1. /\ crashes < deployed.crashes /\ crashes' = crashes + 1
      /\ UNCHANGED <<deployed, runs, results, timeout>>
      /\ req' = [u \in Request |-> IF SameLoop(q, u) THEN Resting ELSE req[u]]
  BY DEF Crash
<1>2. \A u \in Request : req'[u] = req[u] \/ req'[u] = Resting
  BY <1>1
<1>3. req' \in [Request -> Handler] /\ \A u \in Request : HandlerOK(req'[u])
  BY <1>1, <1>2, Known, RestingType
<1>4. crashes' \in 0 .. deployed.crashes
  BY <1>1, DeploymentAssumption DEF TypeInv, TypeOK
<1>5. TypeInv'
  BY <1>1, <1>3, <1>4 DEF TypeInv, TypeOK, HandlerOK
<1>6. QED
  BY <1>1, <1>2, <1>5, RestingFields

LEMMA ConfigureStep ==
  ASSUME TypeInv, NEW t \in deployed.timeouts, Configure(t)
  PROVE  TypeInv' /\ UNCHANGED <<deployed, runs, results, req, crashes>>
<1>1. timeout' = t /\ UNCHANGED <<deployed, runs, results, req, crashes>>
  BY DEF Configure
<1>2. QED
  BY <1>1 DEF TypeInv, TypeOK, HandlerOK

\* A tick counts for every executing case run, and for the rows of running runs.
LEMMA TickStep ==
  ASSUME TypeInv, Tick
  PROVE  /\ TypeInv'
         /\ UNCHANGED <<deployed, results, timeout, crashes>>
         /\ DOMAIN runs' = DOMAIN runs
         /\ \A r \in DOMAIN runs : SameRow(r) /\ runs'[r].idle <= runs[r].idle + 1
         /\ \A u \in Request :
              /\ req'[u].pc = req[u].pc /\ req'[u].run = req[u].run /\ req'[u].key = req[u].key
              /\ req'[u].done = req[u].done /\ req'[u].idlers = req[u].idlers
              /\ req'[u].limit = req[u].limit
              /\ req[u].pc = "await" => req'[u].spent = req[u].spent + 1
<1>1. /\ UNCHANGED <<deployed, results, timeout, crashes>>
      /\ \A q \in Request : Awaiting(q) => req[q].spent < req[q].limit
      /\ req' = [q \in Request |->
                   IF Awaiting(q) THEN [req[q] EXCEPT !.spent = @ + 1] ELSE req[q]]
      /\ runs' = [r \in DOMAIN runs |->
                   IF Running(r) /\ runs[r].idle < IdleCap
                   THEN [runs[r] EXCEPT !.idle = @ + 1] ELSE runs[r]]
  BY DEF Tick
<1>2. ASSUME NEW u \in Request
      PROVE  /\ req'[u] \in Handler /\ HandlerOK(req'[u])
             /\ req'[u].pc = req[u].pc /\ req'[u].run = req[u].run /\ req'[u].key = req[u].key
             /\ req'[u].done = req[u].done /\ req'[u].idlers = req[u].idlers
             /\ req'[u].limit = req[u].limit
             /\ req[u].pc = "await" => req'[u].spent = req[u].spent + 1
  <2>1. req[u] \in Handler /\ HandlerOK(req[u])
    BY Known
  <2>2. CASE Awaiting(u)
    <3>1. PICK v, h : v = req[u].spent + 1 /\ h = [req[u] EXCEPT !.spent = v]
      OBVIOUS
    <3>2. req'[u] = h
      BY <1>1, <2>2, <3>1
    <3>3. req[u].limit \in Timeouts /\ req[u].spent < req[u].limit /\ req[u].spent \in Nat
      BY <1>1, <2>1, <2>2, HandlerFields DEF Awaiting, HandlerOK
    <3>4. v \in 0 .. MaxTimeout /\ v <= req[u].limit
      BY <3>1, <3>3, TimeoutFacts
    <3>5. /\ h \in Handler /\ h.spent = v
          /\ h.pc = req[u].pc /\ h.run = req[u].run /\ h.key = req[u].key /\ h.limit = req[u].limit
          /\ h.done = req[u].done /\ h.passed = req[u].passed /\ h.idlers = req[u].idlers
      BY <2>1, <3>1, <3>4, SetSpent
    <3>6. HandlerOK(h)
      BY <2>1, <2>2, <3>4, <3>5 DEF HandlerOK, OnRun, OnKey, Awaiting
    <3>7. QED
      BY <3>1, <3>2, <3>5, <3>6
  <2>3. CASE ~ Awaiting(u)
    BY <1>1, <2>1, <2>3 DEF Awaiting
  <2>4. QED
    BY <2>2, <2>3
<1>3. ASSUME NEW r \in DOMAIN runs
      PROVE  runs'[r] \in Run /\ SameRow(r) /\ runs'[r].idle <= runs[r].idle + 1
  <2>1. runs[r] \in Run /\ runs[r].idle \in 0 .. IdleCap /\ IdleCap \in Nat
    BY Known, RunFields, TimeoutFacts
  <2>2. CASE Running(r) /\ runs[r].idle < IdleCap
    <3>1. runs'[r] = [runs[r] EXCEPT !.idle = @ + 1]
      BY <1>1, <2>2
    <3>2. runs[r].idle + 1 \in 0 .. IdleCap
      BY <2>1, <2>2
    <3>3. QED
      BY <2>1, <3>1, <3>2 DEF Run, SameRow
  <2>3. CASE ~ (Running(r) /\ runs[r].idle < IdleCap)
    <3>1. runs'[r] = runs[r]
      BY <1>1, <2>3
    <3>2. QED
      BY <2>1, <3>1 DEF SameRow
  <2>4. QED
    BY <2>2, <2>3
<1>4. /\ DOMAIN runs = 1 .. Len(runs) /\ Len(runs) \in Nat
      /\ DOMAIN runs' = DOMAIN runs
  BY <1>1, Known
<1>5. runs' \in Seq(Run)
  <2>1. runs' \in [1 .. Len(runs) -> Run]
    BY <1>1, <1>3, <1>4
  <2>2. QED
    BY <1>4, <2>1
<1>6. req' \in [Request -> Handler]
  <2>1. req' = [u \in Request |-> req'[u]]
    BY <1>1
  <2>2. QED
    BY <1>2, <2>1
<1>7. TypeInv'
  BY <1>1, <1>2, <1>4, <1>5, <1>6 DEF TypeInv, TypeOK, HandlerOK
<1>8. QED
  BY <1>1, <1>2, <1>3, <1>4, <1>7

LEMMA StutterStep ==
  ASSUME TypeInv, UNCHANGED vars
  PROVE  TypeInv' /\ UNCHANGED <<deployed, runs, results, timeout, req, crashes>>
BY DEF vars, TypeInv, TypeOK, HandlerOK

\* The actions, for proofs by cases.
LEMMA NextCases ==
  ASSUME [Next]_vars
  PROVE  \/ \E q \in Request :
              \/ BeginStart(q) \/ InsertRun(q)
              \/ AdvanceEnded(q) \/ AdvanceCaseRun(q) \/ Settle(q) \/ Record(q)
              \/ Cancel(q) \/ Crash(q)
              \/ \E r \in DOMAIN runs : BeginAdvance(q, r) \/ BeginCancel(q, r)
         \/ \E t \in deployed.timeouts : Configure(t)
         \/ Tick
         \/ UNCHANGED vars
BY DEF Next, Statement

LEMMA NextType ==
  ASSUME TypeInv, [Next]_vars
  PROVE  TypeInv'
<1>1. ASSUME NEW q \in Request, BeginStart(q) PROVE TypeInv'
  BY <1>1, BeginStartStep
<1>2. ASSUME NEW q \in Request, InsertRun(q) PROVE TypeInv'
  BY <1>2, InsertRunStep
<1>3. ASSUME NEW q \in Request, NEW r \in DOMAIN runs, BeginAdvance(q, r) PROVE TypeInv'
  BY <1>3, BeginAdvanceStep
<1>4. ASSUME NEW q \in Request, NEW r \in DOMAIN runs, BeginCancel(q, r) PROVE TypeInv'
  BY <1>4, BeginCancelStep
<1>5. ASSUME NEW q \in Request, AdvanceEnded(q) PROVE TypeInv'
  BY <1>5, AdvanceEndedStep
<1>6. ASSUME NEW q \in Request, AdvanceCaseRun(q) PROVE TypeInv'
  BY <1>6, AdvanceCaseRunStep
<1>7. ASSUME NEW q \in Request, Settle(q) PROVE TypeInv'
  BY <1>7, SettleStep
<1>8. ASSUME NEW q \in Request, Record(q) PROVE TypeInv'
  BY <1>8, RecordStep
<1>9. ASSUME NEW q \in Request, Cancel(q) PROVE TypeInv'
  BY <1>9, CancelStep
<1>10. ASSUME NEW q \in Request, Crash(q) PROVE TypeInv'
  BY <1>10, CrashStep
<1>11. ASSUME NEW t \in deployed.timeouts, Configure(t) PROVE TypeInv'
  BY <1>11, ConfigureStep
<1>12. CASE Tick
  BY <1>12, TickStep
<1>13. CASE UNCHANGED vars
  BY <1>13, StutterStep
<1>14. QED
  BY <1>1, <1>2, <1>3, <1>4, <1>5, <1>6, <1>7, <1>8, <1>9, <1>10, <1>11, <1>12, <1>13,
     NextCases

LEMMA TypeHolds == Spec => []TypeInv
<1>1. TypeInv /\ [Next]_vars => TypeInv'
  BY NextType
<1>2. QED
  BY <1>1, InitType, PTL DEF Spec

\* Every variable keeps its type, and so does every handler's local state.
THEOREM TypeCorrect == Spec => []TypeOK
<1>1. TypeInv => TypeOK
  BY DEF TypeInv
<1>2. QED
  BY <1>1, TypeHolds, PTL
--------------------------------------------------------------------------------
(* The active slot. *)

LEMMA SlotKept ==
  ASSUME SlotHeld, DOMAIN runs' = DOMAIN runs,
         \A r \in DOMAIN runs :
           \/ runs'[r].status = runs[r].status /\ runs'[r].slot = runs[r].slot
           \/ runs'[r].status # "running" /\ runs'[r].slot = FALSE
  PROVE  SlotHeld'
BY DEF SlotHeld

LEMMA NextSlot ==
  ASSUME TypeInv, SlotHeld, [Next]_vars
  PROVE  SlotHeld'
<1>1. ASSUME NEW q \in Request, BeginStart(q) PROVE SlotHeld'
  BY <1>1, BeginStartStep, SlotKept
<1>2. ASSUME NEW q \in Request, InsertRun(q) PROVE SlotHeld'
  <2>1. /\ DOMAIN runs \subseteq DOMAIN runs'
        /\ \A r \in DOMAIN runs :
             \/ runs'[r].status = runs[r].status /\ runs'[r].slot = runs[r].slot
             \/ runs'[r].status = "abandoned" /\ runs'[r].slot = FALSE
        /\ \A r \in DOMAIN runs' \ DOMAIN runs :
             /\ runs'[r].status = "running" /\ runs'[r].slot = TRUE
             /\ \A s \in DOMAIN runs' \ {r} : s \in DOMAIN runs /\ runs'[s].slot = FALSE
    BY <1>2, InsertRunStep DEF SameRow
  <2>2. \A r \in DOMAIN runs' : runs'[r].slot <=> runs'[r].status = "running"
    BY <2>1 DEF SlotHeld
  <2>3. \A r, s \in DOMAIN runs' : runs'[r].slot /\ runs'[s].slot => r = s
    BY <2>1 DEF SlotHeld
  <2>4. QED
    BY <2>2, <2>3 DEF SlotHeld
<1>3. ASSUME NEW q \in Request, NEW r \in DOMAIN runs, BeginAdvance(q, r) PROVE SlotHeld'
  BY <1>3, BeginAdvanceStep, SlotKept
<1>4. ASSUME NEW q \in Request, NEW r \in DOMAIN runs, BeginCancel(q, r) PROVE SlotHeld'
  BY <1>4, BeginCancelStep, SlotKept
<1>5. ASSUME NEW q \in Request, AdvanceEnded(q) PROVE SlotHeld'
  BY <1>5, AdvanceEndedStep, SlotKept DEF SameRow
<1>6. ASSUME NEW q \in Request, AdvanceCaseRun(q) PROVE SlotHeld'
  BY <1>6, AdvanceCaseRunStep, SlotKept DEF SameRow
<1>7. ASSUME NEW q \in Request, Settle(q) PROVE SlotHeld'
  BY <1>7, SettleStep, SlotKept
<1>8. ASSUME NEW q \in Request, Record(q) PROVE SlotHeld'
  <2>1. CASE Duplicate(q)
    BY <1>8, <2>1, RecordStep, SlotKept
  <2>2. CASE ~ Duplicate(q)
    BY <1>8, <2>2, RecordStep, SlotKept
  <2>3. QED
    BY <2>1, <2>2
<1>9. ASSUME NEW q \in Request, Cancel(q) PROVE SlotHeld'
  BY <1>9, CancelStep, SlotKept
<1>10. ASSUME NEW q \in Request, Crash(q) PROVE SlotHeld'
  BY <1>10, CrashStep, SlotKept
<1>11. ASSUME NEW t \in deployed.timeouts, Configure(t) PROVE SlotHeld'
  BY <1>11, ConfigureStep, SlotKept
<1>12. CASE Tick
  BY <1>12, TickStep, SlotKept DEF SameRow
<1>13. CASE UNCHANGED vars
  BY <1>13, StutterStep, SlotKept
<1>14. QED
  BY <1>1, <1>2, <1>3, <1>4, <1>5, <1>6, <1>7, <1>8, <1>9, <1>10, <1>11, <1>12, <1>13,
     NextCases

\* At most one run is running and it alone holds the active slot, in any interleaving
\* of starts (with their expiries), advances and cancels on any processes.
THEOREM OneRunHoldsTheSlot == Spec => []SlotHeld
<1>1. Init => SlotHeld
  BY DEF Init, SlotHeld
<1>2. TypeInv /\ SlotHeld /\ [Next]_vars => SlotHeld'
  BY NextSlot
<1>3. QED
  BY <1>1, <1>2, TypeHolds, PTL DEF Spec
--------------------------------------------------------------------------------
(* The progress counter. *)

ResultsOf(rows, r) == {x \in rows : x.run = r}

\* The counter of a run is the number of its results, and of the case runs they are of.
CountedRow(r) ==
  /\ IsFiniteSet(ResultsOf(results, r))
  /\ runs[r].done = Cardinality(ResultsOf(results, r))
  /\ runs[r].done = Cardinality(Recorded(results, r))

\* Case runs are handed out in suite order, so of those that are executed and not yet
\* recorded all are the same one; the first to record it makes the others duplicates,
\* and until then each has read the counter as it is.
HandlerCount(h) ==
  /\ OnKey(h) => \A j \in Suite : Before(j, h.key) => j \in Recorded(results, h.run)
  /\ h.pc = "record" /\ h.key \notin Recorded(results, h.run) => h.done = runs[h.run].done

CountInv ==
  /\ TypeInv
  /\ \A r \in DOMAIN runs : CountedRow(r)
  /\ \A q \in Request : HandlerCount(req[q])

LEMMA RecordedInSuite ==
  ASSUME TypeInv, NEW r
  PROVE  /\ Recorded(results, r) \subseteq Suite /\ IsFiniteSet(Recorded(results, r))
         /\ r \notin DOMAIN runs => ResultsOf(results, r) = {} /\ Recorded(results, r) = {}
<1>1. Recorded(results, r) \subseteq Suite
  BY Known DEF Recorded
<1>2. r \notin DOMAIN runs => ResultsOf(results, r) = {} /\ Recorded(results, r) = {}
  BY Known DEF Recorded, ResultsOf
<1>3. QED
  BY <1>1, <1>2, SuiteFinite, FS_Subset

\* Steps that record nothing.
LEMMA CountKept ==
  ASSUME CountInv, TypeInv', results' = results, DOMAIN runs \subseteq DOMAIN runs',
         \A r \in DOMAIN runs : runs'[r].done = runs[r].done,
         \A r \in DOMAIN runs' \ DOMAIN runs : runs'[r].done = 0,
         \A u \in Request :
           \/ /\ req'[u].pc = req[u].pc /\ req'[u].run = req[u].run
              /\ req'[u].key = req[u].key /\ req'[u].done = req[u].done
           \/ HandlerCount(req[u])'
  PROVE  CountInv'
<1>1. \A r \in DOMAIN runs' : CountedRow(r)'
  <2>1. ASSUME NEW r \in DOMAIN runs PROVE CountedRow(r)'
    BY DEF CountInv, CountedRow
  <2>2. ASSUME NEW r \in DOMAIN runs' \ DOMAIN runs PROVE CountedRow(r)'
    <3>1. ResultsOf(results, r) = {} /\ Recorded(results, r) = {}
      BY <2>2, RecordedInSuite DEF CountInv
    <3>2. QED
      BY <3>1, FS_EmptySet DEF CountedRow
  <2>3. QED
    BY <2>1, <2>2
<1>2. ASSUME NEW u \in Request PROVE HandlerCount(req[u])'
  <2>1. HandlerCount(req[u]) /\ HandlerOK(req[u])
    BY DEF CountInv, TypeInv
  <2>2. QED
    BY <2>1 DEF HandlerCount, HandlerOK, OnKey, OnRun
<1>3. QED
  BY <1>1, <1>2 DEF CountInv

\* Of the requests only q changes, to one that executes no case run.
LEMMA CountLeft ==
  ASSUME CountInv, TypeInv', results' = results, DOMAIN runs \subseteq DOMAIN runs',
         \A r \in DOMAIN runs : runs'[r].done = runs[r].done,
         \A r \in DOMAIN runs' \ DOMAIN runs : runs'[r].done = 0,
         NEW q \in Request, Others(q), req'[q].pc \notin {"await", "rejected", "record"}
  PROVE  CountInv'
<1>1. HandlerCount(req[q])'
  BY DEF HandlerCount, OnKey
<1>2. QED
  BY <1>1, CountKept DEF Others

LEMMA RecordCounts ==
  ASSUME CountInv, NEW q \in Request, Record(q)
  PROVE  CountInv'
<1>1. /\ TypeInv /\ TypeInv' /\ Others(q) /\ req[q].pc = "record" /\ req'[q].pc = "idle"
      /\ req[q].run \in DOMAIN runs /\ req[q].key \in Suite
  BY RecordStep DEF CountInv
<1>2. CASE Duplicate(q)
  <2>1. UNCHANGED <<runs, results>>
    BY <1>1, <1>2, RecordStep
  <2>2. QED
    BY <1>1, <2>1, CountLeft
<1>3. CASE ~ Duplicate(q)
  <2>1. PICK run, key, new : /\ run = req[q].run /\ key = req[q].key
                             /\ new = [run |-> run, key |-> key, passed |-> req[q].passed]
    OBVIOUS
  <2>2. /\ results' = results \cup {new}
        /\ DOMAIN runs' = DOMAIN runs
        /\ \A r \in DOMAIN runs \ {run} : runs'[r] = runs[r]
        /\ runs'[run].done = req[q].done + 1
    BY <1>1, <1>3, <2>1, RecordStep
  <2>3. /\ run \in DOMAIN runs /\ key \in Suite /\ key \notin Recorded(results, run)
        /\ req[q].done = runs[run].done
    BY <1>1, <1>3, <2>1 DEF Duplicate, CountInv, HandlerCount
  <2>4. new.run = run /\ new.key = key /\ new \notin results
    BY <2>1, <2>3 DEF Recorded
  <2>5. /\ ResultsOf(results', run) = ResultsOf(results, run) \cup {new}
        /\ new \notin ResultsOf(results, run)
        /\ Recorded(results', run) = Recorded(results, run) \cup {key}
    BY <2>2, <2>4 DEF ResultsOf, Recorded
  <2>6. \A r : r # run => /\ ResultsOf(results', r) = ResultsOf(results, r)
                          /\ Recorded(results', r) = Recorded(results, r)
    BY <2>2, <2>4 DEF ResultsOf, Recorded
  <2>7. CountedRow(run)'
    <3>1. CountedRow(run) /\ IsFiniteSet(Recorded(results, run))
      BY <1>1, <2>3, RecordedInSuite DEF CountInv
    <3>2. /\ IsFiniteSet(ResultsOf(results', run))
          /\ Cardinality(ResultsOf(results', run)) = Cardinality(ResultsOf(results, run)) + 1
      <4>1. PICK S : S = ResultsOf(results, run)
        OBVIOUS
      <4>2. IsFiniteSet(S) /\ new \notin S
        BY <2>5, <3>1, <4>1 DEF CountedRow
      <4>3. IsFiniteSet(S \cup {new}) /\ Cardinality(S \cup {new}) = Cardinality(S) + 1
        BY <4>2, FS_AddElement
      <4>4. QED
        BY <2>5, <4>1, <4>3
    <3>3. Cardinality(Recorded(results', run)) = Cardinality(Recorded(results, run)) + 1
      BY <2>3, <2>5, <3>1, FS_AddElement
    <3>4. QED
      BY <2>2, <2>3, <3>1, <3>2, <3>3 DEF CountedRow
  <2>8. ASSUME NEW r \in DOMAIN runs' PROVE CountedRow(r)'
    <3>1. CASE r = run
      BY <2>7, <3>1
    <3>2. CASE r # run
      <4>1. CountedRow(r) /\ runs'[r] = runs[r]
        BY <2>2, <3>2 DEF CountInv
      <4>2. QED
        BY <2>6, <3>2, <4>1 DEF CountedRow
    <3>3. QED
      BY <3>1, <3>2
  <2>9. ASSUME NEW u \in Request PROVE HandlerCount(req[u])'
    <3>1. CASE u = q
      BY <1>1, <3>1 DEF HandlerCount, OnKey
    <3>2. CASE u # q
      <4>1. req'[u] = req[u] /\ HandlerCount(req[u]) /\ HandlerOK(req[u])
        BY <1>1, <3>2 DEF Others, CountInv, TypeInv
      <4>2. \A r : Recorded(results, r) \subseteq Recorded(results', r)
        BY <2>5, <2>6
      <4>3. OnKey(req[u]) =>
              \A j \in Suite : Before(j, req[u].key) => j \in Recorded(results', req[u].run)
        BY <4>1, <4>2 DEF HandlerCount
      <4>4. ASSUME req[u].pc = "record", req[u].key \notin Recorded(results', req[u].run)
            PROVE  req[u].done = runs'[req[u].run].done
        <5>1. /\ req[u].run \in DOMAIN runs /\ req[u].key \in Suite
              /\ req[u].key \notin Recorded(results, req[u].run)
              /\ req[u].done = runs[req[u].run].done
          BY <4>1, <4>2, <4>4 DEF HandlerCount, HandlerOK, OnRun, OnKey
        <5>2. req[u].run # run
          <6> SUFFICES ASSUME req[u].run = run PROVE FALSE
            OBVIOUS
          <6>1. req[u].key # key
            BY <2>5, <4>4
          <6>2. ~ Before(req[u].key, key)
            BY <1>1, <2>1, <5>1 DEF CountInv, HandlerCount, OnKey
          <6>3. ~ Before(key, req[u].key)
            BY <2>3, <4>1, <4>4 DEF HandlerCount, OnKey
          <6>4. QED
            BY <2>3, <5>1, <6>1, <6>2, <6>3, SuiteOrder
        <5>3. QED
          BY <2>2, <5>1, <5>2
      <4>5. QED
        BY <4>1, <4>3, <4>4 DEF HandlerCount
    <3>3. QED
      BY <3>1, <3>2
  <2>10. QED
    BY <1>1, <2>8, <2>9 DEF CountInv
<1>4. QED
  BY <1>2, <1>3

LEMMA NextCount ==
  ASSUME CountInv, [Next]_vars
  PROVE  CountInv'
<1>0. TypeInv
  BY DEF CountInv
<1>1. ASSUME NEW q \in Request, BeginStart(q) PROVE CountInv'
  BY <1>0, <1>1, BeginStartStep, CountLeft
<1>2. ASSUME NEW q \in Request, InsertRun(q) PROVE CountInv'
  BY <1>0, <1>2, InsertRunStep, CountLeft
<1>3. ASSUME NEW q \in Request, NEW r \in DOMAIN runs, BeginAdvance(q, r) PROVE CountInv'
  BY <1>0, <1>3, BeginAdvanceStep, CountLeft
<1>4. ASSUME NEW q \in Request, NEW r \in DOMAIN runs, BeginCancel(q, r) PROVE CountInv'
  BY <1>0, <1>4, BeginCancelStep, CountLeft
<1>5. ASSUME NEW q \in Request, AdvanceEnded(q) PROVE CountInv'
  BY <1>0, <1>5, AdvanceEndedStep, CountLeft
<1>6. ASSUME NEW q \in Request, AdvanceCaseRun(q) PROVE CountInv'
  <2>1. /\ TypeInv' /\ Others(q) /\ req'[q].pc \in {"await", "rejected"}
        /\ req'[q].run = req[q].run /\ results' = results /\ DOMAIN runs' = DOMAIN runs
        /\ \A j \in Suite : Before(j, req'[q].key) => j \in Recorded(results, req[q].run)
        /\ \A r \in DOMAIN runs : runs'[r].done = runs[r].done
    BY <1>0, <1>6, AdvanceCaseRunStep DEF SameRow
  <2>2. HandlerCount(req[q])'
    BY <2>1 DEF HandlerCount
  <2>3. QED
    BY <2>1, <2>2, CountKept DEF Others
<1>7. ASSUME NEW q \in Request, Settle(q) PROVE CountInv'
  <2>1. /\ TypeInv' /\ Others(q) /\ req[q].pc \in {"rejected", "await"}
        /\ req'[q].run = req[q].run /\ req'[q].key = req[q].key
        /\ req'[q].done = runs[req[q].run].done
        /\ UNCHANGED <<runs, results>>
    BY <1>0, <1>7, SettleStep
  <2>2. HandlerCount(req[q])
    BY DEF CountInv
  <2>3. HandlerCount(req[q])'
    BY <2>1, <2>2 DEF HandlerCount, OnKey
  <2>4. QED
    BY <2>1, <2>3, CountKept DEF Others
<1>8. ASSUME NEW q \in Request, Record(q) PROVE CountInv'
  BY <1>8, RecordCounts
<1>9. ASSUME NEW q \in Request, Cancel(q) PROVE CountInv'
  BY <1>0, <1>9, CancelStep, CountLeft
<1>10. ASSUME NEW q \in Request, Crash(q) PROVE CountInv'
  <2>1. /\ TypeInv' /\ UNCHANGED <<runs, results>>
        /\ \A u \in Request : req'[u] = req[u] \/ req'[u].pc = "idle"
    BY <1>0, <1>10, CrashStep
  <2>2. \A u \in Request : req'[u].pc = "idle" => HandlerCount(req[u])'
    BY DEF HandlerCount, OnKey
  <2>3. QED
    BY <2>1, <2>2, CountKept
<1>11. ASSUME NEW t \in deployed.timeouts, Configure(t) PROVE CountInv'
  BY <1>0, <1>11, ConfigureStep, CountKept
<1>12. CASE Tick
  BY <1>0, <1>12, TickStep, CountKept DEF SameRow
<1>13. CASE UNCHANGED vars
  BY <1>0, <1>13, StutterStep, CountKept
<1>14. QED
  BY <1>1, <1>2, <1>3, <1>4, <1>5, <1>6, <1>7, <1>8, <1>9, <1>10, <1>11, <1>12, <1>13,
     NextCases

LEMMA CountHolds == Spec => []CountInv
<1>1. Init => CountInv
  <2> SUFFICES ASSUME Init PROVE CountInv
    OBVIOUS
  <2>1. runs = <<>> /\ \A q \in Request : req[q].pc = "idle"
    BY RestingFields DEF Init
  <2>2. \A q \in Request : HandlerCount(req[q])
    BY <2>1 DEF HandlerCount, OnKey
  <2>3. QED
    BY <2>1, <2>2, InitType DEF CountInv
<1>2. CountInv /\ [Next]_vars => CountInv'
  BY NextCount
<1>3. QED
  BY <1>1, <1>2, PTL DEF Spec

\* case_runs_done is the number of the run's results, although each advance adds one
\* to a value it read before its INSERT: no two advances of a run both count.
THEOREM ProgressCounted == Spec => []DoneCounts
<1>1. CountInv => DoneCounts
  BY DEF CountInv, CountedRow, ResultsOf, DoneCounts
<1>2. QED
  BY <1>1, CountHolds, PTL
--------------------------------------------------------------------------------
(* Verdicts. *)

\* A row's verdict against its results.
SoundRow(row, rows, r) ==
  /\ row.status = "completed" => row.passed # "none"
  /\ row.passed # "none" =>
       /\ Recorded(rows, r) = Suite
       /\ row.passed = "passed" <=> \A c \in Cases : CasePassed(rows, r, c)

LEMMA SoundRows == VerdictSound <=> \A r \in DOMAIN runs : SoundRow(runs[r], results, r)
BY DEF VerdictSound, SoundRow, CasePassed, Passes

VerdictInv == CountInv /\ VerdictSound

\* Steps that complete no run.
LEMMA VerdictKept ==
  ASSUME VerdictSound, results' = results, DOMAIN runs \subseteq DOMAIN runs',
         \A r \in DOMAIN runs : /\ runs'[r].passed = runs[r].passed
                                /\ \/ runs'[r].status = runs[r].status
                                   \/ runs'[r].status # "completed",
         \A r \in DOMAIN runs' \ DOMAIN runs :
           runs'[r].status = "running" /\ runs'[r].passed = "none"
  PROVE  VerdictSound'
<1>1. ASSUME NEW r \in DOMAIN runs' PROVE SoundRow(runs'[r], results', r)
  <2>1. CASE r \in DOMAIN runs
    BY <2>1, SoundRows DEF SoundRow
  <2>2. CASE r \notin DOMAIN runs
    BY <1>1, <2>2 DEF SoundRow
  <2>3. QED
    BY <2>1, <2>2
<1>2. QED
  BY <1>1 DEF VerdictSound, SoundRow, CasePassed, Passes

LEMMA VerdictGiven ==
  ASSUME NEW row, NEW rows, NEW r, Recorded(rows, r) = Suite, row.passed = VerdictOf(rows, r)
  PROVE  SoundRow(row, rows, r)
BY DEF SoundRow, VerdictOf

LEMMA RecordVerdict ==
  ASSUME VerdictInv, NEW q \in Request, Record(q)
  PROVE  VerdictSound'
<1>0. TypeInv /\ CountInv /\ CountInv' /\ TypeInv'
  BY RecordCounts DEF VerdictInv, CountInv
<1>1. CASE Duplicate(q)
  <2>1. UNCHANGED <<runs, results>>
    BY <1>0, <1>1, RecordStep
  <2>2. QED
    BY <2>1, VerdictKept DEF VerdictInv
<1>2. CASE ~ Duplicate(q)
  <2>1. PICK run, key, new : /\ run = req[q].run /\ key = req[q].key
                             /\ new = [run |-> run, key |-> key, passed |-> req[q].passed]
    OBVIOUS
  <2>2. /\ run \in DOMAIN runs /\ key \in Suite
        /\ results' = results \cup {new}
        /\ DOMAIN runs' = DOMAIN runs
        /\ \A r \in DOMAIN runs \ {run} : runs'[r] = runs[r]
        /\ runs'[run].done = req[q].done + 1
        /\ \/ runs'[run].status = runs[run].status /\ runs'[run].passed = runs[run].passed
           \/ /\ req[q].done + 1 >= Total
              /\ runs'[run].passed = VerdictOf(results', run)
    BY <1>0, <1>2, <2>1, RecordStep
  <2>3. runs[run].passed = "none" /\ runs[run].status # "completed"
    <3>1. SoundRow(runs[run], results, run)
      BY <2>2, SoundRows DEF VerdictInv
    <3>2. Recorded(results, run) # Suite
      BY <1>2, <2>1, <2>2 DEF Duplicate
    <3>3. QED
      BY <3>1, <3>2 DEF SoundRow
  <2>4. SoundRow(runs'[run], results', run)
    <3>1. CASE runs'[run].status = runs[run].status /\ runs'[run].passed = runs[run].passed
      BY <2>3, <3>1 DEF SoundRow
    <3>2. CASE /\ req[q].done + 1 >= Total
               /\ runs'[run].passed = VerdictOf(results', run)
      <4>1. /\ runs'[run].done = Cardinality(Recorded(results', run))
            /\ Recorded(results', run) \subseteq Suite
        <5>1. CountedRow(run)'
          BY <1>0, <2>2 DEF CountInv
        <5>2. \A x \in results' : x.key \in Suite
          BY <1>0 DEF TypeInv, TypeOK, Result
        <5>3. QED
          BY <5>1, <5>2 DEF CountedRow, Recorded
      <4>2. Cardinality(Recorded(results', run)) >= Total
        BY <2>2, <3>2, <4>1
      <4>3. Recorded(results', run) = Suite
        <5>1. PICK S : S = Recorded(results', run)
          OBVIOUS
        <5>2. S \subseteq Suite /\ Cardinality(S) >= Cardinality(Suite)
          BY <4>1, <4>2, <5>1 DEF Total
        <5>3. /\ IsFiniteSet(S) /\ Cardinality(S) <= Cardinality(Suite)
              /\ Cardinality(S) = Cardinality(Suite) => S = Suite
          BY <5>2, SuiteFinite, FS_Subset
        <5>4. Cardinality(S) \in Nat /\ Cardinality(Suite) \in Nat
          BY <5>3, SuiteFinite, FS_CardinalityType
        <5>5. QED
          BY <5>1, <5>2, <5>3, <5>4
      <4>4. QED
        BY <3>2, <4>3 DEF SoundRow, VerdictOf
    <3>3. QED
      BY <2>2, <3>1, <3>2
  <2>5. ASSUME NEW r \in DOMAIN runs' PROVE SoundRow(runs'[r], results', r)
    <3>1. CASE r = run
      BY <2>4, <3>1
    <3>2. CASE r # run
      <4>1. SoundRow(runs[r], results, r) /\ runs'[r] = runs[r]
        BY <2>2, <3>2, SoundRows DEF VerdictInv
      <4>2. Recorded(results', r) = Recorded(results, r)
        BY <2>1, <2>2, <3>2 DEF Recorded
      <4>3. \A c : {x \in results' : x.run = r /\ x.key[1] = c /\ x.passed}
                     = {x \in results : x.run = r /\ x.key[1] = c /\ x.passed}
        BY <2>1, <2>2, <3>2
      <4>4. \A c : CasePassed(results', r, c) <=> CasePassed(results, r, c)
        BY <4>3 DEF CasePassed, Passes
      <4>5. QED
        BY <4>1, <4>2, <4>4 DEF SoundRow
    <3>3. QED
      BY <3>1, <3>2
  <2>6. QED
    BY <2>5 DEF VerdictSound, SoundRow, CasePassed, Passes
<1>3. QED
  BY <1>1, <1>2

LEMMA NextVerdict ==
  ASSUME VerdictInv, [Next]_vars
  PROVE  VerdictInv'
<1>0. TypeInv /\ VerdictSound /\ CountInv'
  BY NextCount DEF VerdictInv, CountInv
<1>1. ASSUME NEW q \in Request, BeginStart(q) PROVE VerdictSound'
  BY <1>0, <1>1, BeginStartStep, VerdictKept
<1>2. ASSUME NEW q \in Request, InsertRun(q) PROVE VerdictSound'
  BY <1>0, <1>2, InsertRunStep, VerdictKept DEF SameRow
<1>3. ASSUME NEW q \in Request, NEW r \in DOMAIN runs, BeginAdvance(q, r) PROVE VerdictSound'
  BY <1>0, <1>3, BeginAdvanceStep, VerdictKept
<1>4. ASSUME NEW q \in Request, NEW r \in DOMAIN runs, BeginCancel(q, r) PROVE VerdictSound'
  BY <1>0, <1>4, BeginCancelStep, VerdictKept
<1>5. ASSUME NEW q \in Request, AdvanceEnded(q) PROVE VerdictSound'
  <2>1. PICK run : run = req[q].run
    OBVIOUS
  <2>2. /\ run \in DOMAIN runs /\ results' = results /\ DOMAIN runs' = DOMAIN runs
        /\ \A r \in DOMAIN runs : r # run => SameRow(r)
        /\ \/ SameRow(run)
           \/ Pending(q) = {} /\ runs'[run].passed = VerdictOf(results, run)
    BY <1>0, <1>5, <2>1, AdvanceEndedStep
  <2>3. CASE SameRow(run)
    <3>1. \A r \in DOMAIN runs : SameRow(r)
      BY <2>2, <2>3
    <3>2. QED
      BY <1>0, <2>2, <3>1, VerdictKept DEF SameRow
  <2>4. CASE Pending(q) = {} /\ runs'[run].passed = VerdictOf(results, run)
    <3>1. Recorded(results, run) = Suite
      BY <1>0, <2>1, <2>4, RecordedInSuite DEF Pending
    <3>2. SoundRow(runs'[run], results, run)
      BY <2>4, <3>1 DEF SoundRow, VerdictOf
    <3>3. ASSUME NEW r \in DOMAIN runs' PROVE SoundRow(runs'[r], results', r)
      <4>1. CASE r = run
        BY <2>2, <3>2, <4>1
      <4>2. CASE r # run
        BY <1>0, <2>2, <4>2, SoundRows DEF SoundRow, SameRow
      <4>3. QED
        BY <4>1, <4>2
    <3>4. QED
      BY <3>3 DEF VerdictSound, SoundRow, CasePassed, Passes
  <2>5. QED
    BY <2>2, <2>3, <2>4
<1>6. ASSUME NEW q \in Request, AdvanceCaseRun(q) PROVE VerdictSound'
  BY <1>0, <1>6, AdvanceCaseRunStep, VerdictKept DEF SameRow
<1>7. ASSUME NEW q \in Request, Settle(q) PROVE VerdictSound'
  BY <1>0, <1>7, SettleStep, VerdictKept
<1>8. ASSUME NEW q \in Request, Record(q) PROVE VerdictSound'
  BY <1>8, RecordVerdict
<1>9. ASSUME NEW q \in Request, Cancel(q) PROVE VerdictSound'
  BY <1>0, <1>9, CancelStep, VerdictKept
<1>10. ASSUME NEW q \in Request, Crash(q) PROVE VerdictSound'
  BY <1>0, <1>10, CrashStep, VerdictKept
<1>11. ASSUME NEW t \in deployed.timeouts, Configure(t) PROVE VerdictSound'
  BY <1>0, <1>11, ConfigureStep, VerdictKept
<1>12. ASSUME Tick PROVE VerdictSound'
  BY <1>0, <1>12, TickStep, VerdictKept DEF SameRow
<1>13. ASSUME UNCHANGED vars PROVE VerdictSound'
  BY <1>0, <1>13, StutterStep, VerdictKept
<1>14. VerdictSound'
  BY <1>1, <1>2, <1>3, <1>4, <1>5, <1>6, <1>7, <1>8, <1>9, <1>10, <1>11, <1>12, <1>13,
     NextCases
<1>15. QED
  BY <1>0, <1>14 DEF VerdictInv

\* A verdict stands on a result for every case run of the suite, and is the one these
\* results give: the completing advance counted neither too few nor twice.
THEOREM VerdictsAreSound == Spec => []VerdictSound
<1>1. Init => VerdictSound
  BY DEF Init, VerdictSound
<1>2. CountInv /\ VerdictSound /\ [Next]_vars => VerdictSound'
  BY NextVerdict DEF VerdictInv
<1>3. QED
  BY <1>1, <1>2, CountHolds, PTL DEF Spec
--------------------------------------------------------------------------------
(* One event loop. *)

\* An event loop runs one handler at a time, between two awaits of it.
LoopApart == \A q, u \in Request : OnLoop(q) /\ OnLoop(u) /\ SameLoop(q, u) => q = u

\* So with one process what a start or a cancel has read of the runs still stands.
Fresh(h) ==
  /\ h.pc = "start" => \A r \in h.idlers : Running(r)
  /\ h.pc = "cancel" => Running(h.run)

LoopInv ==
  /\ TypeInv
  /\ LoopApart
  /\ Alone => \A q \in Request : Fresh(req[q])

\* Requests that go on keep their loops; q may join one that is free.
LEMMA LoopKept ==
  ASSUME LoopApart, NEW q \in Request, Others(q), LoopFree(q) \/ OnLoop(q), deployed' = deployed
  PROVE  LoopApart'
<1>1. ASSUME NEW u \in Request, NEW v \in Request, u # v, OnLoop(u)', OnLoop(v)'
      PROVE  ~ SameLoop(u, v)
  <2>1. CASE u # q /\ v # q
    BY <1>1, <2>1 DEF LoopApart, Others, OnLoop
  <2>2. CASE u = q /\ v # q
    <3>1. OnLoop(v)
      BY <1>1, <2>2 DEF Others, OnLoop
    <3>2. QED
      BY <1>1, <2>2, <3>1 DEF LoopApart, LoopFree
  <2>3. CASE u # q /\ v = q
    <3>1. OnLoop(u)
      BY <1>1, <2>3 DEF Others, OnLoop
    <3>2. QED
      BY <1>1, <2>3, <3>1 DEF LoopApart, LoopFree, SameLoop
  <2>4. QED
    BY <1>1, <2>1, <2>2, <2>3
<1>2. QED
  BY <1>1 DEF LoopApart, SameLoop

\* With one process, the step of one handler leaves no other on the loop.
LEMMA AloneOnLoop ==
  ASSUME LoopApart, Alone, NEW q \in Request, LoopFree(q) \/ OnLoop(q), NEW u \in Request, u # q
  PROVE  req[u].pc \in {"idle", "await"}
<1>1. SameLoop(q, u) /\ SameLoop(u, q)
  BY DEF Alone
<1>2. ~ OnLoop(u)
  BY <1>1 DEF LoopApart, LoopFree
<1>3. QED
  BY <1>2 DEF OnLoop

\* A step of one handler q.
LEMMA LoopStep ==
  ASSUME LoopInv, NEW q \in Request, Others(q), LoopFree(q) \/ OnLoop(q), deployed' = deployed,
         TypeInv', Fresh(req[q])'
  PROVE  LoopInv'
<1>1. LoopApart'
  BY LoopKept DEF LoopInv
<1>2. ASSUME Alone, NEW u \in Request PROVE Fresh(req[u])'
  <2>1. CASE u = q
    BY <2>1
  <2>2. CASE u # q
    <3>1. req'[u] = req[u] /\ req[u].pc \in {"idle", "await"}
      BY <1>2, <2>2, AloneOnLoop DEF LoopInv, Others
    <3>2. QED
      BY <3>1 DEF Fresh
  <2>3. QED
    BY <2>1, <2>2
<1>3. Alone' <=> Alone
  BY DEF Alone, SameLoop
<1>4. QED
  BY <1>1, <1>2, <1>3 DEF LoopInv

\* A step that no handler takes.
LEMMA LoopIdle ==
  ASSUME LoopInv, TypeInv', deployed' = deployed, DOMAIN runs' = DOMAIN runs,
         \A r \in DOMAIN runs : runs'[r].status = runs[r].status,
         \A u \in Request :
           \/ req'[u].pc = "idle"
           \/ /\ req'[u].pc = req[u].pc /\ req'[u].run = req[u].run
              /\ req'[u].idlers = req[u].idlers
  PROVE  LoopInv'
<1>1. LoopApart'
  BY DEF LoopInv, LoopApart, OnLoop, SameLoop
<1>2. \A r : Running(r)' <=> Running(r)
  BY DEF Running
<1>3. ASSUME Alone, NEW u \in Request PROVE Fresh(req[u])'
  <2>1. Fresh(req[u])
    BY <1>3 DEF LoopInv
  <2>2. QED
    BY <1>2, <2>1 DEF Fresh, Running
<1>4. Alone' <=> Alone
  BY DEF Alone, SameLoop
<1>5. QED
  BY <1>1, <1>3, <1>4 DEF LoopInv

LEMMA NextLoop ==
  ASSUME LoopInv, [Next]_vars
  PROVE  LoopInv'
<1>0. TypeInv
  BY DEF LoopInv
<1>1. ASSUME NEW q \in Request, BeginStart(q) PROVE LoopInv'
  <2>1. /\ Others(q) /\ LoopFree(q) /\ deployed' = deployed /\ TypeInv' /\ runs' = runs
        /\ req'[q].pc = "start" /\ req'[q].idlers = {r \in DOMAIN runs : IdleTooLong(r)}
    BY <1>0, <1>1, BeginStartStep
  <2>2. Fresh(req[q])'
    BY <2>1 DEF Fresh, IdleTooLong, Running
  <2>3. QED
    BY <2>1, <2>2, LoopStep
<1>2. ASSUME NEW q \in Request, InsertRun(q) PROVE LoopInv'
  <2>1. /\ Others(q) /\ OnLoop(q) /\ deployed' = deployed /\ TypeInv' /\ req'[q].pc = "idle"
    BY <1>0, <1>2, InsertRunStep DEF OnLoop
  <2>2. QED
    BY <2>1, LoopStep DEF Fresh
<1>3. ASSUME NEW q \in Request, NEW r \in DOMAIN runs, BeginAdvance(q, r) PROVE LoopInv'
  <2>1. /\ Others(q) /\ LoopFree(q) /\ deployed' = deployed /\ TypeInv'
        /\ req'[q].pc = "advance"
    BY <1>0, <1>3, BeginAdvanceStep
  <2>2. QED
    BY <2>1, LoopStep DEF Fresh
<1>4. ASSUME NEW q \in Request, NEW r \in DOMAIN runs, BeginCancel(q, r) PROVE LoopInv'
  <2>1. /\ Others(q) /\ LoopFree(q) /\ deployed' = deployed /\ TypeInv' /\ runs' = runs
        /\ req'[q].pc = "cancel" /\ Running(req'[q].run)
    BY <1>0, <1>4, BeginCancelStep
  <2>2. Fresh(req[q])'
    BY <2>1 DEF Fresh, Running
  <2>3. QED
    BY <2>1, <2>2, LoopStep
<1>5. ASSUME NEW q \in Request, AdvanceEnded(q) PROVE LoopInv'
  <2>1. /\ Others(q) /\ OnLoop(q) /\ deployed' = deployed /\ TypeInv' /\ req'[q].pc = "idle"
    BY <1>0, <1>5, AdvanceEndedStep DEF OnLoop
  <2>2. QED
    BY <2>1, LoopStep DEF Fresh
<1>6. ASSUME NEW q \in Request, AdvanceCaseRun(q) PROVE LoopInv'
  <2>1. /\ Others(q) /\ OnLoop(q) /\ deployed' = deployed /\ TypeInv'
        /\ req'[q].pc \in {"await", "rejected"}
    BY <1>0, <1>6, AdvanceCaseRunStep DEF OnLoop
  <2>2. QED
    BY <2>1, LoopStep DEF Fresh
<1>7. ASSUME NEW q \in Request, Settle(q) PROVE LoopInv'
  <2>1. /\ Others(q) /\ (LoopFree(q) \/ OnLoop(q)) /\ deployed' = deployed /\ TypeInv'
        /\ req'[q].pc = "record"
    BY <1>0, <1>7, SettleStep DEF OnLoop
  <2>2. QED
    BY <2>1, LoopStep DEF Fresh
<1>8. ASSUME NEW q \in Request, Record(q) PROVE LoopInv'
  <2>1. /\ Others(q) /\ OnLoop(q) /\ deployed' = deployed /\ TypeInv' /\ req'[q].pc = "idle"
    BY <1>0, <1>8, RecordStep DEF OnLoop
  <2>2. QED
    BY <2>1, LoopStep DEF Fresh
<1>9. ASSUME NEW q \in Request, Cancel(q) PROVE LoopInv'
  <2>1. /\ Others(q) /\ OnLoop(q) /\ deployed' = deployed /\ TypeInv' /\ req'[q].pc = "idle"
    BY <1>0, <1>9, CancelStep DEF OnLoop
  <2>2. QED
    BY <2>1, LoopStep DEF Fresh
<1>10. ASSUME NEW q \in Request, Crash(q) PROVE LoopInv'
  BY <1>0, <1>10, CrashStep, LoopIdle
<1>11. ASSUME NEW t \in deployed.timeouts, Configure(t) PROVE LoopInv'
  BY <1>0, <1>11, ConfigureStep, LoopIdle
<1>12. CASE Tick
  BY <1>0, <1>12, TickStep, LoopIdle DEF SameRow
<1>13. CASE UNCHANGED vars
  BY <1>0, <1>13, StutterStep, LoopIdle
<1>14. QED
  BY <1>1, <1>2, <1>3, <1>4, <1>5, <1>6, <1>7, <1>8, <1>9, <1>10, <1>11, <1>12, <1>13,
     NextCases

LEMMA LoopHolds == Spec => []LoopInv
<1>1. Init => LoopInv
  <2> SUFFICES ASSUME Init PROVE LoopInv
    OBVIOUS
  <2>1. \A q \in Request : req[q].pc = "idle"
    BY RestingFields DEF Init
  <2>2. QED
    BY <2>1, InitType DEF LoopInv, LoopApart, OnLoop, Fresh
<1>2. LoopInv /\ [Next]_vars => LoopInv'
  BY NextLoop
<1>3. QED
  BY <1>1, <1>2, PTL DEF Spec

EndedKept(r) ==
  Alone /\ ~ Running(r) =>
    runs'[r].status = runs[r].status /\ runs'[r].passed = runs[r].passed

\* With one process a run that has ended stays as it ended: a cancel or an expiry acts
\* on what it read within one turn of the loop, and a completion looks again.
THEOREM EndedRunsStand == Spec => EndedStands
<1>1. ASSUME LoopInv, [Next]_vars, NEW r \in DOMAIN runs PROVE EndedKept(r)
  <2> SUFFICES ASSUME Alone, ~ Running(r)
               PROVE  runs'[r].status = runs[r].status /\ runs'[r].passed = runs[r].passed
    BY DEF EndedKept
  <2>0. TypeInv /\ \A q \in Request : Fresh(req[q])
    BY <1>1 DEF LoopInv
  <2>1. CASE runs' = runs
    BY <2>1
  <2>2. ASSUME NEW q \in Request, InsertRun(q) PROVE SameRow(r)
    <3>1. r \notin req[q].idlers
      BY <2>0, <2>2, InsertRunStep DEF Fresh
    <3>2. QED
      BY <1>1, <2>0, <2>2, <3>1, InsertRunStep
  <2>3. ASSUME NEW q \in Request, AdvanceEnded(q) PROVE SameRow(r)
    BY <1>1, <2>0, <2>3, AdvanceEndedStep DEF Running
  <2>4. ASSUME NEW q \in Request, AdvanceCaseRun(q) PROVE SameRow(r)
    BY <1>1, <2>0, <2>4, AdvanceCaseRunStep
  <2>5. ASSUME NEW q \in Request, Record(q)
        PROVE  runs'[r].status = runs[r].status /\ runs'[r].passed = runs[r].passed
    <3>1. CASE Duplicate(q)
      BY <2>0, <2>5, <3>1, RecordStep
    <3>2. CASE ~ Duplicate(q)
      <4>1. CASE r = req[q].run
        BY <1>1, <2>0, <2>5, <3>2, <4>1, RecordStep DEF Running
      <4>2. CASE r # req[q].run
        BY <1>1, <2>0, <2>5, <3>2, <4>2, RecordStep
      <4>3. QED
        BY <4>1, <4>2
    <3>3. QED
      BY <3>1, <3>2
  <2>6. ASSUME NEW q \in Request, Cancel(q) PROVE runs'[r] = runs[r]
    <3>1. r # req[q].run
      BY <2>0, <2>6, CancelStep DEF Fresh
    <3>2. QED
      BY <1>1, <2>0, <2>6, <3>1, CancelStep
  <2>7. ASSUME Tick PROVE SameRow(r)
    BY <1>1, <2>0, <2>7, TickStep
  <2>8. ASSUME NEW q \in Request,
               BeginStart(q) \/ Settle(q) \/ Crash(q)
               \/ \E s \in DOMAIN runs : BeginAdvance(q, s) \/ BeginCancel(q, s)
        PROVE  runs' = runs
    BY <2>0, <2>8, BeginStartStep, SettleStep, CrashStep, BeginAdvanceStep, BeginCancelStep
  <2>9. ASSUME NEW t \in deployed.timeouts, Configure(t) PROVE runs' = runs
    BY <2>0, <2>9, ConfigureStep
  <2>10. ASSUME UNCHANGED vars PROVE runs' = runs
    BY <2>0, <2>10, StutterStep
  <2>11. QED
    BY <1>1, <2>1, <2>2, <2>3, <2>4, <2>5, <2>6, <2>7, <2>8, <2>9, <2>10, NextCases DEF SameRow
<1>2. LoopInv /\ [Next]_vars =>
        [\A r \in DOMAIN runs : Alone /\ ~ Running(r) =>
           runs'[r].status = runs[r].status /\ runs'[r].passed = runs[r].passed]_vars
  BY <1>1 DEF EndedKept
<1>3. QED
  BY <1>2, LoopHolds, PTL DEF Spec, EndedStands
--------------------------------------------------------------------------------
(* Abandonment. *)

\* A run whose case run executes was touched when it began.
TouchedBy(h) == h.pc = "await" => runs[h.run].idle <= h.spent

TouchInv == TypeInv /\ \A q \in Request : TouchedBy(req[q])

\* Steps that let no time pass.
LEMMA TouchKept ==
  ASSUME TouchInv, TypeInv', DOMAIN runs \subseteq DOMAIN runs',
         \A r \in DOMAIN runs : runs'[r].idle \in {runs[r].idle, 0},
         \A u \in Request : req'[u] = req[u] \/ TouchedBy(req[u])'
  PROVE  TouchInv'
<1>1. ASSUME NEW u \in Request, req'[u] = req[u], req[u].pc = "await"
      PROVE  runs'[req[u].run].idle <= req[u].spent
  <2>1. /\ runs[req[u].run].idle <= req[u].spent /\ req[u].run \in DOMAIN runs
    BY <1>1 DEF TouchInv, TouchedBy, TypeInv, HandlerOK, OnRun
  <2>2. req[u].spent \in Nat
    BY HandlerFields, Known, TimeoutFacts DEF TouchInv
  <2>3. QED
    BY <2>1, <2>2
<1>2. \A u \in Request : TouchedBy(req[u])'
  BY <1>1 DEF TouchedBy
<1>3. QED
  BY <1>2 DEF TouchInv

\* Of the requests only q changes, to one that does not execute.
LEMMA TouchLeft ==
  ASSUME TouchInv, TypeInv', DOMAIN runs \subseteq DOMAIN runs',
         \A r \in DOMAIN runs : runs'[r].idle \in {runs[r].idle, 0},
         NEW q \in Request, Others(q), req'[q].pc # "await"
  PROVE  TouchInv'
<1>1. TouchedBy(req[q])'
  BY DEF TouchedBy
<1>2. QED
  BY <1>1, TouchKept DEF Others

LEMMA NextTouch ==
  ASSUME TouchInv, [Next]_vars
  PROVE  TouchInv'
<1>0. TypeInv
  BY DEF TouchInv
<1>1. ASSUME NEW q \in Request, BeginStart(q) PROVE TouchInv'
  BY <1>0, <1>1, BeginStartStep, TouchLeft
<1>2. ASSUME NEW q \in Request, InsertRun(q) PROVE TouchInv'
  BY <1>0, <1>2, InsertRunStep, TouchLeft
<1>3. ASSUME NEW q \in Request, NEW r \in DOMAIN runs, BeginAdvance(q, r) PROVE TouchInv'
  BY <1>0, <1>3, BeginAdvanceStep, TouchLeft
<1>4. ASSUME NEW q \in Request, NEW r \in DOMAIN runs, BeginCancel(q, r) PROVE TouchInv'
  BY <1>0, <1>4, BeginCancelStep, TouchLeft
<1>5. ASSUME NEW q \in Request, AdvanceEnded(q) PROVE TouchInv'
  BY <1>0, <1>5, AdvanceEndedStep, TouchLeft
<1>6. ASSUME NEW q \in Request, AdvanceCaseRun(q) PROVE TouchInv'
  <2>1. /\ TypeInv' /\ Others(q) /\ DOMAIN runs' = DOMAIN runs
        /\ \A r \in DOMAIN runs : runs'[r].idle \in {runs[r].idle, 0}
        /\ req'[q].run = req[q].run /\ req'[q].spent = 0 /\ runs'[req[q].run].idle = 0
    BY <1>0, <1>6, AdvanceCaseRunStep
  <2>2. TouchedBy(req[q])'
    BY <2>1 DEF TouchedBy
  <2>3. QED
    BY <2>1, <2>2, TouchKept DEF Others
<1>7. ASSUME NEW q \in Request, Settle(q) PROVE TouchInv'
  BY <1>0, <1>7, SettleStep, TouchLeft
<1>8. ASSUME NEW q \in Request, Record(q) PROVE TouchInv'
  <2>1. CASE Duplicate(q)
    BY <1>0, <1>8, <2>1, RecordStep, TouchLeft
  <2>2. CASE ~ Duplicate(q)
    <3>1. /\ TypeInv' /\ Others(q) /\ req'[q].pc = "idle" /\ DOMAIN runs' = DOMAIN runs
          /\ \A r \in DOMAIN runs \ {req[q].run} : runs'[r] = runs[r]
          /\ runs'[req[q].run].idle = 0
      BY <1>0, <1>8, <2>2, RecordStep
    <3>2. \A r \in DOMAIN runs : runs'[r].idle \in {runs[r].idle, 0}
      BY <3>1
    <3>3. QED
      BY <3>1, <3>2, TouchLeft
  <2>3. QED
    BY <2>1, <2>2
<1>9. ASSUME NEW q \in Request, Cancel(q) PROVE TouchInv'
  <2>1. /\ TypeInv' /\ Others(q) /\ req'[q].pc = "idle" /\ DOMAIN runs' = DOMAIN runs
        /\ \A r \in DOMAIN runs \ {req[q].run} : runs'[r] = runs[r]
        /\ runs'[req[q].run].idle = 0
    BY <1>0, <1>9, CancelStep
  <2>2. \A r \in DOMAIN runs : runs'[r].idle \in {runs[r].idle, 0}
    BY <2>1
  <2>3. QED
    BY <2>1, <2>2, TouchLeft
<1>10. ASSUME NEW q \in Request, Crash(q) PROVE TouchInv'
  <2>1. /\ TypeInv' /\ runs' = runs
        /\ \A u \in Request : req'[u] = req[u] \/ req'[u].pc = "idle"
    BY <1>0, <1>10, CrashStep
  <2>2. \A u \in Request : req'[u].pc = "idle" => TouchedBy(req[u])'
    BY DEF TouchedBy
  <2>3. QED
    BY <2>1, <2>2, TouchKept
<1>11. ASSUME NEW t \in deployed.timeouts, Configure(t) PROVE TouchInv'
  BY <1>0, <1>11, ConfigureStep, TouchKept
<1>12. CASE Tick
  <2>1. /\ TypeInv' /\ DOMAIN runs' = DOMAIN runs
        /\ \A r \in DOMAIN runs : runs'[r].idle <= runs[r].idle + 1
        /\ \A u \in Request : /\ req'[u].pc = req[u].pc /\ req'[u].run = req[u].run
                              /\ req[u].pc = "await" => req'[u].spent = req[u].spent + 1
    BY <1>0, <1>12, TickStep
  <2>2. ASSUME NEW u \in Request, req[u].pc = "await"
        PROVE  runs'[req[u].run].idle <= req[u].spent + 1
    <3>1. runs[req[u].run].idle <= req[u].spent /\ req[u].run \in DOMAIN runs
      BY <2>2 DEF TouchInv, TouchedBy, TypeInv, HandlerOK, OnRun
    <3>2. /\ runs[req[u].run].idle \in Nat /\ runs'[req[u].run].idle \in Nat
          /\ req[u].spent \in Nat
      <4>1. runs[req[u].run] \in Run
        BY <1>0, <3>1, Known
      <4>2. runs'[req[u].run] \in Run
        BY <2>1, <3>1 DEF TypeInv, TypeOK
      <4>3. req[u].spent \in Nat
        BY <1>0, HandlerFields, Known, TimeoutFacts
      <4>4. QED
        BY <4>1, <4>2, <4>3, RunFields, TimeoutFacts
    <3>3. runs'[req[u].run].idle <= runs[req[u].run].idle + 1
      BY <2>1, <3>1
    <3>4. QED
      BY <3>1, <3>2, <3>3
  <2>3. \A u \in Request : TouchedBy(req[u])'
    BY <2>1, <2>2 DEF TouchedBy
  <2>4. QED
    BY <2>1, <2>3 DEF TouchInv
<1>13. CASE UNCHANGED vars
  BY <1>0, <1>13, StutterStep, TouchKept
<1>14. QED
  BY <1>1, <1>2, <1>3, <1>4, <1>5, <1>6, <1>7, <1>8, <1>9, <1>10, <1>11, <1>12, <1>13,
     NextCases

LEMMA TouchHolds == Spec => []TouchInv
<1>1. Init => TouchInv
  BY InitType, RestingFields DEF Init, TouchInv, TouchedBy
<1>2. TouchInv /\ [Next]_vars => TouchInv'
  BY NextTouch
<1>3. QED
  BY <1>1, <1>2, PTL DEF Spec

Begins(s) == req[s].pc = "idle" /\ req'[s].pc = "start"

\* Only the start's own first read takes a request from idle to start.
LEMMA StartsOnly ==
  ASSUME TypeInv, [Next]_vars, NEW s \in Request, Begins(s)
  PROVE  BeginStart(s)
<1>1. ASSUME NEW q \in Request, req[q].pc # "idle" \/ req'[q].pc # "start", Others(q)
      PROVE  FALSE
  BY <1>1 DEF Begins, Others
<1>2. ASSUME NEW q \in Request, BeginStart(q), q # s PROVE FALSE
  BY <1>2, BeginStartStep DEF Begins, Others
<1>3. ASSUME NEW q \in Request, InsertRun(q) PROVE FALSE
  BY <1>1, <1>3, InsertRunStep
<1>4. ASSUME NEW q \in Request, NEW r \in DOMAIN runs, BeginAdvance(q, r) PROVE FALSE
  BY <1>1, <1>4, BeginAdvanceStep
<1>5. ASSUME NEW q \in Request, NEW r \in DOMAIN runs, BeginCancel(q, r) PROVE FALSE
  BY <1>1, <1>5, BeginCancelStep
<1>6. ASSUME NEW q \in Request, AdvanceEnded(q) PROVE FALSE
  BY <1>1, <1>6, AdvanceEndedStep
<1>7. ASSUME NEW q \in Request, AdvanceCaseRun(q) PROVE FALSE
  BY <1>1, <1>7, AdvanceCaseRunStep
<1>8. ASSUME NEW q \in Request, Settle(q) PROVE FALSE
  BY <1>1, <1>8, SettleStep
<1>9. ASSUME NEW q \in Request, Record(q) PROVE FALSE
  BY <1>1, <1>9, RecordStep
<1>10. ASSUME NEW q \in Request, Cancel(q) PROVE FALSE
  BY <1>1, <1>10, CancelStep
<1>11. ASSUME NEW q \in Request, Crash(q) PROVE FALSE
  BY <1>11, CrashStep DEF Begins
<1>12. ASSUME NEW t \in deployed.timeouts, Configure(t) PROVE FALSE
  BY <1>12, ConfigureStep DEF Begins
<1>13. ASSUME Tick PROVE FALSE
  BY <1>13, TickStep DEF Begins
<1>14. ASSUME UNCHANGED vars PROVE FALSE
  BY <1>14, StutterStep DEF Begins
<1>15. QED
  BY <1>2, <1>3, <1>4, <1>5, <1>6, <1>7, <1>8, <1>9, <1>10, <1>11, <1>12, <1>13, <1>14,
     NextCases

\* A start takes a run for abandoned while its case run executes only if that case run
\* was given more time than the timeout the start has read.
THEOREM LiveRunsAreKept == Spec => LiveRunKept
<1>1. ASSUME TouchInv, [Next]_vars, NEW s \in Request, NEW q \in Request,
             req[s].pc = "idle", req'[s].pc = "start", Awaiting(q), req[q].run \in req'[s].idlers
      PROVE  req'[s].limit < req[q].limit
  <2>1. TypeInv
    BY <1>1 DEF TouchInv
  <2>2. BeginStart(s)
    BY <1>1, <2>1, StartsOnly DEF Begins
  <2>3. /\ req'[s].limit = timeout
        /\ runs[req[q].run].idle > timeout + Grace
    BY <1>1, <2>1, <2>2, BeginStartStep DEF IdleTooLong
  <2>4. /\ runs[req[q].run].idle <= req[q].spent /\ req[q].spent <= req[q].limit
        /\ req[q].limit \in Timeouts /\ req[q].run \in DOMAIN runs /\ req[q] \in Handler
    BY <1>1, <2>1, Known DEF TouchInv, TouchedBy, HandlerOK, OnRun, Awaiting
  <2>5. /\ runs[req[q].run].idle \in Nat /\ req[q].spent \in Nat
        /\ req[q].limit \in Nat /\ timeout \in Nat /\ Grace \in Nat
    <3>1. runs[req[q].run].idle \in 0 .. IdleCap
      BY <2>1, <2>4, Known, RunFields
    <3>2. req[q].spent \in 0 .. MaxTimeout
      BY <2>4, HandlerFields
    <3>3. QED
      BY <2>1, <2>4, <3>1, <3>2, Known, TimeoutFacts, BoundsAssumption
  <2>6. QED
    BY <2>3, <2>4, <2>5
<1>2. TouchInv /\ [Next]_vars =>
        [\A s, q \in Request :
           req[s].pc = "idle" /\ req'[s].pc = "start" /\ Awaiting(q)
           /\ req[q].run \in req'[s].idlers => req'[s].limit < req[q].limit]_vars
  BY <1>1
<1>3. QED
  BY <1>2, TouchHolds, PTL DEF Spec, LiveRunKept
=============================================================================
