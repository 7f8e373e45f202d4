---------------------------- MODULE ChatTurn_proofs ----------------------------
(***************************************************************************)
(* Theorems about ChatTurn for any processes, requests, users, threads,     *)
(* pool size and bounds.                                                    *)
(***************************************************************************)
EXTENDS ChatTurn, SequenceTheorems, TLAPS

(* A handler with one field set. *)

LEMMA HandlerFields ==
  ASSUME NEW h \in Handler
  PROVE  /\ h.pc \in Phase /\ h.op \in {None, "chat", "logout", "sweep"}
         /\ h.proc \in Process \cup {Job} /\ h.user \in User \cup {None}
         /\ h.thread \in Thread \cup {None} /\ h.turn \in Nat /\ h.history \in SUBSET Turn
         /\ h.holds \in SUBSET Thread /\ h.seeding \in BOOLEAN /\ h.todo \in SUBSET Thread
BY DEF Handler

LEMMA SetPc ==
  ASSUME NEW h \in Handler, NEW v \in Phase
  PROVE  LET g == [h EXCEPT !.pc = v]
         IN  /\ g \in Handler /\ g.pc = v
             /\ g.op = h.op /\ g.proc = h.proc /\ g.user = h.user
             /\ g.thread = h.thread /\ g.turn = h.turn /\ g.history = h.history
             /\ g.holds = h.holds /\ g.seeding = h.seeding /\ g.todo = h.todo
BY DEF Handler

LEMMA SetOp ==
  ASSUME NEW h \in Handler, NEW v \in {None, "chat", "logout", "sweep"}
  PROVE  LET g == [h EXCEPT !.op = v]
         IN  /\ g \in Handler /\ g.op = v
             /\ g.pc = h.pc /\ g.proc = h.proc /\ g.user = h.user
             /\ g.thread = h.thread /\ g.turn = h.turn /\ g.history = h.history
             /\ g.holds = h.holds /\ g.seeding = h.seeding /\ g.todo = h.todo
BY DEF Handler

LEMMA SetProc ==
  ASSUME NEW h \in Handler, NEW v \in Process \cup {Job}
  PROVE  LET g == [h EXCEPT !.proc = v]
         IN  /\ g \in Handler /\ g.proc = v
             /\ g.pc = h.pc /\ g.op = h.op /\ g.user = h.user
             /\ g.thread = h.thread /\ g.turn = h.turn /\ g.history = h.history
             /\ g.holds = h.holds /\ g.seeding = h.seeding /\ g.todo = h.todo
BY DEF Handler

LEMMA SetUser ==
  ASSUME NEW h \in Handler, NEW v \in User \cup {None}
  PROVE  LET g == [h EXCEPT !.user = v]
         IN  /\ g \in Handler /\ g.user = v
             /\ g.pc = h.pc /\ g.op = h.op /\ g.proc = h.proc
             /\ g.thread = h.thread /\ g.turn = h.turn /\ g.history = h.history
             /\ g.holds = h.holds /\ g.seeding = h.seeding /\ g.todo = h.todo
BY DEF Handler

LEMMA SetThread ==
  ASSUME NEW h \in Handler, NEW v \in Thread \cup {None}
  PROVE  LET g == [h EXCEPT !.thread = v]
         IN  /\ g \in Handler /\ g.thread = v
             /\ g.pc = h.pc /\ g.op = h.op /\ g.proc = h.proc
             /\ g.user = h.user /\ g.turn = h.turn /\ g.history = h.history
             /\ g.holds = h.holds /\ g.seeding = h.seeding /\ g.todo = h.todo
BY DEF Handler

LEMMA SetTurn ==
  ASSUME NEW h \in Handler, NEW v \in Nat
  PROVE  LET g == [h EXCEPT !.turn = v]
         IN  /\ g \in Handler /\ g.turn = v
             /\ g.pc = h.pc /\ g.op = h.op /\ g.proc = h.proc
             /\ g.user = h.user /\ g.thread = h.thread /\ g.history = h.history
             /\ g.holds = h.holds /\ g.seeding = h.seeding /\ g.todo = h.todo
BY DEF Handler

LEMMA SetHistory ==
  ASSUME NEW h \in Handler, NEW v \in SUBSET Turn
  PROVE  LET g == [h EXCEPT !.history = v]
         IN  /\ g \in Handler /\ g.history = v
             /\ g.pc = h.pc /\ g.op = h.op /\ g.proc = h.proc
             /\ g.user = h.user /\ g.thread = h.thread /\ g.turn = h.turn
             /\ g.holds = h.holds /\ g.seeding = h.seeding /\ g.todo = h.todo
BY DEF Handler

LEMMA SetHolds ==
  ASSUME NEW h \in Handler, NEW v \in SUBSET Thread
  PROVE  LET g == [h EXCEPT !.holds = v]
         IN  /\ g \in Handler /\ g.holds = v
             /\ g.pc = h.pc /\ g.op = h.op /\ g.proc = h.proc
             /\ g.user = h.user /\ g.thread = h.thread /\ g.turn = h.turn
             /\ g.history = h.history /\ g.seeding = h.seeding /\ g.todo = h.todo
BY DEF Handler

LEMMA SetTodo ==
  ASSUME NEW h \in Handler, NEW v \in SUBSET Thread
  PROVE  LET g == [h EXCEPT !.todo = v]
         IN  /\ g \in Handler /\ g.todo = v
             /\ g.pc = h.pc /\ g.op = h.op /\ g.proc = h.proc
             /\ g.user = h.user /\ g.thread = h.thread /\ g.turn = h.turn
             /\ g.history = h.history /\ g.holds = h.holds /\ g.seeding = h.seeding
BY DEF Handler

LEMMA RestingFields ==
  /\ Resting \in Handler /\ Resting.pc = "idle" /\ Resting.history = {}
  /\ Resting.thread = None /\ Resting.holds = {} /\ Resting.turn = 0
<1>1. Resting \in Handler
  BY DEF Resting, Handler, Phase
<1>2. QED
  BY <1>1 DEF Resting
--------------------------------------------------------------------------------
(* Types. *)

Working == {"read", "put", "model"}

\* A turn in work has a thread, and its number is its user's; it has loaded a history
\* only once it has read one.
HandlerOK(h) ==
  /\ h.pc \in {"connect", "admit"} => h.user \in User
  /\ h.pc \in Working => /\ h.thread \in Thread /\ h.user \in User
                         /\ h.turn \in 1 .. Len(asked) /\ asked[h.turn] = h.user
  /\ h.pc \notin {"put", "model"} => h.history = {}

TypeInv ==
  /\ TypeOK
  /\ \A a \in Actor : HandlerOK(req[a])
  /\ req[Cron].pc \in {"idle", "select", "purge"}

Others(a) == \A b \in Actor \ {a} : req'[b] = req[b]

LEMMA Known ==
  ASSUME TypeInv
  PROVE  /\ \A t \in Thread : thread[t] \in Row /\ checkpoint[t] \in SUBSET Turn
                              /\ recorded[t] \in SUBSET Turn
         /\ DOMAIN thread = Thread /\ DOMAIN checkpoint = Thread /\ DOMAIN recorded = Thread
         /\ req \in [Actor -> Handler] /\ \A a \in Actor : req[a] \in Handler
         /\ \A a \in Actor : HandlerOK(req[a])
         /\ asked \in Seq(User) /\ Len(asked) \in Nat /\ Len(asked) <= MaxTurns
         /\ MaxTurns \in Nat
         /\ Cron \in Actor /\ Request \subseteq Actor /\ Cron \notin Request
         /\ \A a \in Actor : a \in Request \/ a = Cron
BY NamesAssumption, BoundsAssumption DEF TypeInv, TypeOK, Actor

LEMMA RestingOK == HandlerOK(Resting)
BY RestingFields DEF HandlerOK, Working

LEMMA InitType == Init => TypeInv
<1> SUFFICES ASSUME Init PROVE TypeInv
  OBVIOUS
<1>1. Unused \in Row
  BY DEF Unused, Row
<1>2. thread \in [Thread -> Row]
  BY <1>1 DEF Init
<1>3. checkpoint \in [Thread -> SUBSET Turn] /\ recorded \in [Thread -> SUBSET Turn]
  BY DEF Init
<1>4. req \in [Actor -> Handler] /\ \A a \in Actor : req[a] = Resting
  BY RestingFields DEF Init
<1>5. asked \in Seq(User) /\ Len(asked) <= MaxTurns
  BY BoundsAssumption DEF Init
<1>6. seeded \in BOOLEAN /\ raced \subseteq Thread /\ failures \in 0 .. MaxFailures
  BY BoundsAssumption, SeededAssumption DEF Init
<1>7. Cron \in Actor
  BY DEF Actor
<1>8. QED
  BY <1>2, <1>3, <1>4, <1>5, <1>6, <1>7, RestingOK, RestingFields DEF TypeInv, TypeOK

\* One handler changes.
LEMMA OneHandler ==
  ASSUME TypeInv, NEW a \in Actor, NEW h \in Handler, HandlerOK(h), req' = [req EXCEPT ![a] = h],
         a = Cron => h.pc \in {"idle", "select", "purge"}, asked' = asked
  PROVE  /\ req' \in [Actor -> Handler] /\ req'[a] = h /\ Others(a)
         /\ (\A b \in Actor : HandlerOK(req[b]))'
         /\ req'[Cron].pc \in {"idle", "select", "purge"}
<1>1. /\ req' \in [Actor -> Handler] /\ req'[a] = h
      /\ \A b \in Actor \ {a} : req'[b] = req[b]
  BY Known
<1>2. \A b \in Actor : HandlerOK(req'[b])
  BY <1>1, Known
<1>3. req'[Cron].pc \in {"idle", "select", "purge"}
  BY <1>1, Known DEF TypeInv
<1>4. QED
  BY <1>1, <1>2, <1>3 DEF HandlerOK, Others

\* ... and nothing else.
LEMMA HandlerOnly ==
  ASSUME TypeInv, NEW a \in Actor, NEW h \in Handler, HandlerOK(h), req' = [req EXCEPT ![a] = h],
         a = Cron => h.pc \in {"idle", "select", "purge"},
         UNCHANGED <<conversations, asked>>, raced' \subseteq Thread,
         seeded' \in BOOLEAN, failures' \in 0 .. MaxFailures
  PROVE  TypeInv' /\ req'[a] = h /\ Others(a)
BY OneHandler DEF TypeInv, TypeOK, conversations

LEMMA RespondOnly ==
  ASSUME TypeInv, NEW a \in Actor, Respond(a),
         UNCHANGED <<conversations, asked, raced>>,
         seeded' \in BOOLEAN, failures' \in 0 .. MaxFailures
  PROVE  TypeInv' /\ req'[a] = Resting /\ Others(a)
<1>1. req' = [req EXCEPT ![a] = Resting] /\ raced' \subseteq Thread
  BY DEF Respond, TypeInv, TypeOK
<1>2. QED
  BY <1>1, HandlerOnly, RestingFields, RestingOK
--------------------------------------------------------------------------------
(* What the steps do.  Most leave the conversations and the turns in work alone. *)

\* A turn in work goes on as it is, or a handler is not (or no longer) one.
Same(b) == /\ req'[b].pc = req[b].pc /\ req'[b].thread = req[b].thread
           /\ req'[b].user = req[b].user /\ req'[b].turn = req[b].turn
           /\ req'[b].history = req[b].history
Aside(b) == /\ req'[b].pc \notin Working
            /\ \/ req'[b].thread \in {None, req[b].thread}
               \/ thread[req'[b].thread].status # "unused"

Quiet == /\ UNCHANGED <<thread, checkpoint, recorded, asked, raced>>
         /\ \A b \in Actor : Same(b) \/ Aside(b)

\* No row lock is taken.
LessHeld ==
  \A b \in Actor :
    /\ req'[b].holds \subseteq req[b].holds
    /\ req'[b].pc = "model" => /\ req[b].pc = "model" /\ req'[b].thread = req[b].thread
                               /\ req'[b].holds = req[b].holds

LEMMA OneQuiet ==
  ASSUME TypeInv, NEW a \in Actor, Others(a), UNCHANGED <<conversations, asked, raced>>,
         Same(a) \/ Aside(a)
  PROVE  Quiet
BY DEF Quiet, Others, Same, conversations

LEMMA OneLess ==
  ASSUME TypeInv, NEW a \in Actor, Others(a), req'[a].holds \subseteq req[a].holds,
         req'[a].pc # "model"
  PROVE  LessHeld
BY DEF LessHeld, Others

\* Handlers that end.
LEMMA RespondStep ==
  ASSUME TypeInv, NEW a \in Actor, Respond(a), UNCHANGED <<conversations, asked, raced>>,
         seeded' \in BOOLEAN, failures' \in 0 .. MaxFailures
  PROVE  TypeInv' /\ Quiet /\ LessHeld
<1>1. TypeInv' /\ req'[a] = Resting /\ Others(a)
  BY RespondOnly
<1>2. Aside(a) /\ req'[a].holds \subseteq req[a].holds /\ req'[a].pc # "model"
  BY <1>1, RestingFields DEF Aside, Working
<1>3. QED
  BY <1>1, <1>2, OneQuiet, OneLess

LEMMA TypeFacts ==
  ASSUME TypeInv
  PROVE  seeded \in BOOLEAN /\ failures \in 0 .. MaxFailures /\ raced \subseteq Thread
         /\ thread \in [Thread -> Row] /\ checkpoint \in [Thread -> SUBSET Turn]
         /\ recorded \in [Thread -> SUBSET Turn] /\ MaxFailures \in Nat
BY BoundsAssumption DEF TypeInv, TypeOK

LEMMA EndSteps ==
  ASSUME TypeInv, NEW a \in Actor, PoolTimeout(a) \/ Refuse(a) \/ Fail(a)
  PROVE  TypeInv' /\ Quiet /\ LessHeld
<1>1. CASE PoolTimeout(a)
  BY <1>1, RespondStep, TypeFacts DEF PoolTimeout, history
<1>2. CASE Refuse(a)
  BY <1>2, RespondStep, TypeFacts DEF Refuse, history
<1>3. CASE Fail(a)
  BY <1>3, RespondStep, TypeFacts DEF Fail, history
<1>4. QED
  BY <1>1, <1>2, <1>3

LEMMA SweepFailsStep ==
  ASSUME TypeInv, SweepFails
  PROVE  TypeInv' /\ Quiet /\ LessHeld
<1>1. /\ Respond(Cron) /\ UNCHANGED <<conversations, seeded, asked, raced>>
      /\ failures' = failures + 1 /\ failures < MaxFailures
  BY DEF SweepFails
<1>2. failures' \in 0 .. MaxFailures /\ seeded' \in BOOLEAN
  BY <1>1, TypeFacts
<1>3. QED
  BY <1>1, <1>2, RespondStep, Known

LEMMA RestartStep ==
  ASSUME TypeInv, NEW p \in Process, Restart(p), failures' \in 0 .. MaxFailures
  PROVE  TypeInv' /\ Quiet /\ LessHeld
<1>1. /\ req' = [a \in Actor |-> IF req[a].proc = p THEN Resting ELSE req[a]]
      /\ UNCHANGED <<conversations, seeded, asked, raced>>
  BY DEF Restart
<1>2. \A a \in Actor : req'[a] = req[a] \/ req'[a] = Resting
  BY <1>1
<1>3. req' \in [Actor -> Handler] /\ \A a \in Actor : HandlerOK(req'[a])
  BY <1>1, <1>2, Known, RestingFields, RestingOK
<1>4. req'[Cron].pc \in {"idle", "select", "purge"}
  BY <1>2, Known, RestingFields DEF TypeInv
<1>5. TypeInv'
  BY <1>1, <1>3, <1>4 DEF TypeInv, TypeOK, HandlerOK, conversations
<1>6. \A a \in Actor : Same(a) \/ Aside(a)
  BY <1>2, RestingFields DEF Same, Aside, Working
<1>7. LessHeld
  BY <1>2, RestingFields DEF LessHeld
<1>8. QED
  BY <1>1, <1>5, <1>6, <1>7 DEF Quiet, conversations

LEMMA RestartSteps ==
  ASSUME TypeInv, NEW p \in Process, Kill(p) \/ ProbeRestart(p)
  PROVE  TypeInv' /\ Quiet /\ LessHeld
<1>1. CASE Kill(p)
  <2>1. failures' \in 0 .. MaxFailures
    BY <1>1, TypeFacts DEF Kill
  <2>2. QED
    BY <1>1, <2>1, RestartStep DEF Kill
<1>2. CASE ProbeRestart(p)
  BY <1>2, RestartStep, TypeFacts DEF ProbeRestart
<1>3. QED
  BY <1>1, <1>2

LEMMA StutterStep ==
  ASSUME TypeInv, UNCHANGED vars
  PROVE  TypeInv' /\ Quiet /\ LessHeld
<1>1. UNCHANGED <<thread, checkpoint, recorded, seeded, req, asked, raced, failures>>
  BY DEF vars
<1>2. TypeInv'
  BY <1>1 DEF TypeInv, TypeOK, HandlerOK
<1>3. QED
  BY <1>1, <1>2 DEF Quiet, LessHeld, Same

\* Handlers that begin.
LEMMA AcceptStep ==
  ASSUME TypeInv, NEW a \in Actor, NEW h \in Handler, Accept(a, h), HandlerOK(h),
         h.pc \notin Working, h.holds = {}, a = Cron => h.pc = "select",
         h.thread = None \/ thread[h.thread].status # "unused"
  PROVE  TypeInv' /\ Quiet /\ LessHeld
<1>1. /\ req' = [req EXCEPT ![a] = h]
      /\ UNCHANGED <<conversations, seeded, asked, raced, failures>>
  BY DEF Accept, history
<1>2. raced' \subseteq Thread /\ seeded' \in BOOLEAN /\ failures' \in 0 .. MaxFailures
  BY <1>1, TypeFacts
<1>3. TypeInv' /\ req'[a] = h /\ Others(a)
  BY <1>1, <1>2, HandlerOnly
<1>4. Aside(a) /\ req'[a].holds \subseteq req[a].holds /\ req'[a].pc # "model"
  BY <1>3 DEF Aside, Working
<1>5. QED
  BY <1>1, <1>3, <1>4, OneQuiet, OneLess

LEMMA BeginChatStep ==
  ASSUME TypeInv, NEW q \in Request, NEW p \in Process, NEW u \in User,
         NEW t \in Thread \cup {None}, BeginChat(q, p, u, t)
  PROVE  TypeInv' /\ Quiet /\ LessHeld
<1>1. PICK one, two, three, four, h :
        /\ one = [Resting EXCEPT !.pc = "connect"] /\ two = [one EXCEPT !.op = "chat"]
        /\ three = [two EXCEPT !.proc = p] /\ four = [three EXCEPT !.user = u]
        /\ h = [four EXCEPT !.thread = t]
  OBVIOUS
<1>2. one \in Handler /\ one.pc = "connect" /\ one.holds = {} /\ one.history = {}
  BY <1>1, SetPc, RestingFields DEF Phase
<1>3. two \in Handler /\ two.pc = "connect" /\ two.holds = {} /\ two.history = {}
  BY <1>1, <1>2, SetOp
<1>4. three \in Handler /\ three.pc = "connect" /\ three.holds = {} /\ three.history = {}
  BY <1>1, <1>3, SetProc
<1>5. /\ four \in Handler /\ four.pc = "connect" /\ four.holds = {} /\ four.history = {}
      /\ four.user = u
  BY <1>1, <1>4, SetUser
<1>6. /\ h \in Handler /\ h.pc = "connect" /\ h.holds = {} /\ h.history = {}
      /\ h.user = u /\ h.thread = t
  BY <1>1, <1>5, SetThread
<1>7. Accept(q, h) /\ (t # None => thread[t].status # "unused")
  BY <1>1 DEF BeginChat
<1>8. HandlerOK(h) /\ h.pc \notin Working
  BY <1>6 DEF HandlerOK, Working
<1>9. q \in Actor /\ q # Cron
  BY Known
<1>10. QED
  BY <1>6, <1>7, <1>8, <1>9, AcceptStep

LEMMA BeginLogoutStep ==
  ASSUME TypeInv, NEW q \in Request, NEW p \in Process, NEW u \in User, BeginLogout(q, p, u)
  PROVE  TypeInv' /\ Quiet /\ LessHeld
<1>1. PICK one, two, three, h :
        /\ one = [Resting EXCEPT !.pc = "connect"] /\ two = [one EXCEPT !.op = "logout"]
        /\ three = [two EXCEPT !.proc = p] /\ h = [three EXCEPT !.user = u]
  OBVIOUS
<1>2. /\ one \in Handler /\ one.pc = "connect" /\ one.holds = {} /\ one.history = {}
      /\ one.thread = None
  BY <1>1, SetPc, RestingFields DEF Phase
<1>3. /\ two \in Handler /\ two.pc = "connect" /\ two.holds = {} /\ two.history = {}
      /\ two.thread = None
  BY <1>1, <1>2, SetOp
<1>4. /\ three \in Handler /\ three.pc = "connect" /\ three.holds = {} /\ three.history = {}
      /\ three.thread = None
  BY <1>1, <1>3, SetProc
<1>5. /\ h \in Handler /\ h.pc = "connect" /\ h.holds = {} /\ h.history = {}
      /\ h.user = u /\ h.thread = None
  BY <1>1, <1>4, SetUser
<1>6. Accept(q, h)
  BY <1>1 DEF BeginLogout
<1>7. HandlerOK(h) /\ h.pc \notin Working
  BY <1>5 DEF HandlerOK, Working
<1>8. q \in Actor /\ q # Cron
  BY Known
<1>9. QED
  BY <1>5, <1>6, <1>7, <1>8, AcceptStep

LEMMA BeginSweepStep ==
  ASSUME TypeInv, BeginSweep
  PROVE  TypeInv' /\ Quiet /\ LessHeld
<1>1. PICK one, h : /\ one = [Resting EXCEPT !.pc = "select"] /\ h = [one EXCEPT !.op = "sweep"]
  OBVIOUS
<1>2. /\ one \in Handler /\ one.pc = "select" /\ one.holds = {} /\ one.history = {}
      /\ one.thread = None
  BY <1>1, SetPc, RestingFields DEF Phase
<1>3. /\ h \in Handler /\ h.pc = "select" /\ h.holds = {} /\ h.history = {}
      /\ h.thread = None
  BY <1>1, <1>2, SetOp
<1>4. Accept(Cron, h)
  BY <1>1 DEF BeginSweep
<1>5. HandlerOK(h) /\ h.pc \notin Working
  BY <1>3 DEF HandlerOK, Working
<1>6. QED
  BY <1>3, <1>4, <1>5, Known, AcceptStep

\* Handlers that go on.
LEMMA ConnectStep ==
  ASSUME TypeInv, NEW a \in Actor, Connect(a)
  PROVE  TypeInv' /\ Quiet /\ LessHeld
<1>1. PICK next, h : /\ next = (IF req[a].op = "chat" THEN "admit" ELSE "select")
                     /\ h = [req[a] EXCEPT !.pc = next]
  OBVIOUS
<1>2. /\ req[a].pc = "connect" /\ req' = [req EXCEPT ![a].pc = next]
      /\ UNCHANGED <<conversations, seeded, asked, raced, failures>>
  BY <1>1 DEF Connect, history
<1>3. req' = [req EXCEPT ![a] = h]
  BY <1>1, <1>2, Known
<1>4. /\ req[a] \in Handler /\ req[a].user \in User /\ req[a].history = {} /\ a # Cron
  BY <1>2, Known DEF HandlerOK, TypeInv
<1>5. next \in {"admit", "select"} /\ next \in Phase
  BY <1>1 DEF Phase
<1>6. /\ h \in Handler /\ h.pc = next /\ h.user = req[a].user /\ h.history = {}
      /\ h.thread = req[a].thread /\ h.holds = req[a].holds
  BY <1>1, <1>4, <1>5, SetPc
<1>7. HandlerOK(h)
  BY <1>4, <1>5, <1>6 DEF HandlerOK, Working
<1>8. raced' \subseteq Thread /\ seeded' \in BOOLEAN /\ failures' \in 0 .. MaxFailures
  BY <1>2, TypeFacts
<1>9. TypeInv' /\ req'[a] = h /\ Others(a)
  BY <1>2, <1>3, <1>4, <1>6, <1>7, <1>8, HandlerOnly
<1>10. Aside(a) /\ req'[a].holds \subseteq req[a].holds /\ req'[a].pc # "model"
  BY <1>5, <1>6, <1>9 DEF Aside, Working
<1>11. QED
  BY <1>2, <1>9, <1>10, OneQuiet, OneLess

LEMMA SelectStep ==
  ASSUME TypeInv, NEW a \in Actor, Select(a)
  PROVE  TypeInv' /\ Quiet /\ LessHeld
<1>1. PICK todo : todo = Condemned(a)
  OBVIOUS
<1>2. /\ req[a].pc = "select"
      /\ IF todo = {} THEN Respond(a)
         ELSE req' = [req EXCEPT ![a].pc = "purge", ![a].todo = todo]
      /\ UNCHANGED <<conversations, seeded, asked, raced, failures>>
  BY <1>1 DEF Select, history
<1>3. raced' \subseteq Thread /\ seeded' \in BOOLEAN /\ failures' \in 0 .. MaxFailures
  BY <1>2, TypeFacts
<1>4. CASE todo = {}
  BY <1>2, <1>3, <1>4, RespondStep
<1>5. CASE todo # {}
  <2>1. PICK one, h : one = [req[a] EXCEPT !.pc = "purge"] /\ h = [one EXCEPT !.todo = todo]
    OBVIOUS
  <2>2. req' = [req EXCEPT ![a] = h]
    BY <1>2, <1>5, <2>1, Known
  <2>3. req[a] \in Handler /\ req[a].history = {} /\ todo \in SUBSET Thread
    BY <1>1, <1>2, Known DEF HandlerOK, Condemned
  <2>4. /\ one \in Handler /\ one.pc = "purge" /\ one.history = {}
        /\ one.thread = req[a].thread /\ one.holds = req[a].holds
    BY <2>1, <2>3, SetPc DEF Phase
  <2>5. /\ h \in Handler /\ h.pc = "purge" /\ h.history = {}
        /\ h.thread = req[a].thread /\ h.holds = req[a].holds
    BY <2>1, <2>3, <2>4, SetTodo
  <2>6. HandlerOK(h)
    BY <2>5 DEF HandlerOK, Working
  <2>7. TypeInv' /\ req'[a] = h /\ Others(a)
    BY <1>2, <1>3, <2>2, <2>5, <2>6, HandlerOnly
  <2>8. Aside(a) /\ req'[a].holds \subseteq req[a].holds /\ req'[a].pc # "model"
    BY <2>5, <2>7 DEF Aside, Working
  <2>9. QED
    BY <1>2, <2>7, <2>8, OneQuiet, OneLess
<1>6. QED
  BY <1>4, <1>5

\* A purge takes the lock of a row nobody holds, or finds the row gone.
LEMMA DeleteStep ==
  ASSUME TypeInv, NEW a \in Actor, DeleteCheckpoint(a)
  PROVE  /\ TypeInv' /\ Quiet /\ Others(a) /\ req[a].pc = "purge" /\ req'[a].pc = "purge"
         /\ \E t \in Thread : /\ ~ HeldByOther(a, t)
                              /\ req'[a].holds \subseteq req[a].holds \cup {t}
<1>1. PICK t \in Remaining(a) :
        /\ ~ HeldByOther(a, t)
        /\ req' = IF Live(t) THEN [req EXCEPT ![a].holds = @ \cup {t}]
                  ELSE [req EXCEPT ![a].todo = @ \ {t}]
  BY DEF DeleteCheckpoint
<1>2. req[a].pc = "purge" /\ UNCHANGED <<conversations, seeded, asked, raced, failures>>
  BY DEF DeleteCheckpoint, history
<1>3. raced' \subseteq Thread /\ seeded' \in BOOLEAN /\ failures' \in 0 .. MaxFailures
  BY <1>2, TypeFacts
<1>4. /\ req[a] \in Handler /\ req[a].history = {} /\ t \in Thread
      /\ req[a].holds \in SUBSET Thread /\ req[a].todo \in SUBSET Thread
  BY <1>1, <1>2, Known, HandlerFields DEF HandlerOK, Remaining
<1>5. PICK holds, todo : holds = req[a].holds \cup {t} /\ todo = req[a].todo \ {t}
  OBVIOUS
<1>6. PICK h : h = IF Live(t) THEN [req[a] EXCEPT !.holds = holds]
                   ELSE [req[a] EXCEPT !.todo = todo]
  OBVIOUS
<1>7. /\ h \in Handler /\ h.pc = "purge" /\ h.history = {} /\ h.thread = req[a].thread
      /\ h.holds \subseteq req[a].holds \cup {t}
  <2>1. holds \in SUBSET Thread /\ todo \in SUBSET Thread
    BY <1>4, <1>5
  <2>2. CASE Live(t)
    BY <1>2, <1>4, <1>5, <1>6, <2>1, <2>2, SetHolds
  <2>3. CASE ~ Live(t)
    BY <1>2, <1>4, <1>5, <1>6, <2>1, <2>3, SetTodo
  <2>4. QED
    BY <2>2, <2>3
<1>8. req' = [req EXCEPT ![a] = h]
  BY <1>1, <1>5, <1>6, Known
<1>9. HandlerOK(h)
  BY <1>7 DEF HandlerOK, Working
<1>10. TypeInv' /\ req'[a] = h /\ Others(a)
  BY <1>2, <1>3, <1>7, <1>8, <1>9, HandlerOnly
<1>11. Aside(a)
  BY <1>7, <1>10 DEF Aside, Working
<1>12. Quiet
  BY <1>2, <1>10, <1>11, OneQuiet
<1>13. QED
  BY <1>1, <1>2, <1>4, <1>7, <1>10, <1>12

\* The survivor of a deadlock has what it waited for and the victim held.
LEMMA VictimStep ==
  ASSUME TypeInv, NEW a \in Actor, DeadlockVictim(a)
  PROVE  /\ TypeInv' /\ Quiet
         /\ \E b \in Actor \ {a} :
              /\ req'[a] = Resting /\ req[b].pc = "purge" /\ req'[b].pc = "purge"
              /\ req'[b].holds \subseteq req[b].holds \cup req[a].holds
              /\ \A c \in Actor \ {a, b} : req'[c] = req[c]
<1>1. PICK b \in Actor \ {a} :
        /\ WaitsFor(a, b) /\ WaitsFor(b, a)
        /\ req' = [req EXCEPT ![a] = Resting,
                              ![b].holds = @ \cup (Remaining(b) \cap req[a].holds)]
  BY DEF DeadlockVictim
<1>2. UNCHANGED <<conversations, seeded, asked, raced, failures>> /\ req[b].pc = "purge"
  BY <1>1 DEF DeadlockVictim, history, WaitsFor
<1>3. PICK holds, h : /\ holds = req[b].holds \cup (Remaining(b) \cap req[a].holds)
                      /\ h = [req[b] EXCEPT !.holds = holds]
  OBVIOUS
<1>4. /\ req'[a] = Resting /\ req'[b] = h /\ req' \in [Actor -> {req'[c] : c \in Actor}]
      /\ \A c \in Actor \ {a, b} : req'[c] = req[c]
  BY <1>1, <1>3, Known
<1>5. /\ req[b] \in Handler /\ req[b].history = {} /\ holds \in SUBSET Thread
      /\ holds \subseteq req[b].holds \cup req[a].holds
  BY <1>2, <1>3, Known, HandlerFields DEF HandlerOK
<1>6. /\ h \in Handler /\ h.pc = "purge" /\ h.history = {} /\ h.thread = req[b].thread
      /\ h.holds = holds
  BY <1>2, <1>3, <1>5, SetHolds
<1>7. HandlerOK(h)
  BY <1>6 DEF HandlerOK, Working
<1>8. \A c \in Actor : req'[c] \in Handler /\ HandlerOK(req'[c])
  BY <1>4, <1>6, <1>7, Known, RestingFields, RestingOK
<1>9. req'[Cron].pc \in {"idle", "select", "purge"}
  BY <1>4, <1>6, Known, RestingFields DEF TypeInv
<1>10. req' \in [Actor -> Handler]
  BY <1>4, <1>8
<1>11. TypeInv'
  BY <1>2, <1>8, <1>9, <1>10 DEF TypeInv, TypeOK, HandlerOK, conversations
<1>12. Quiet
  <2>1. Aside(a) /\ Aside(b)
    BY <1>4, <1>6, RestingFields DEF Aside, Working
  <2>2. \A c \in Actor \ {a, b} : Same(c)
    BY <1>4 DEF Same
  <2>3. QED
    BY <1>2, <2>1, <2>2 DEF Quiet, conversations
<1>13. QED
  BY <1>2, <1>4, <1>5, <1>6, <1>11, <1>12

\* A turn is numbered, with its user, and given a thread of its user or a fresh one.
LEMMA AdmitStep ==
  ASSUME TypeInv, NEW a \in Actor, Admit(a)
  PROVE  /\ TypeInv' /\ LessHeld /\ Others(a)
         /\ UNCHANGED <<conversations, raced>>
         /\ req[a].pc = "admit" /\ req'[a].pc = "read" /\ req'[a].user = req[a].user
         /\ req'[a].history = {}
         /\ \/ Owned(a) /\ req'[a].thread = req[a].thread
            \/ req'[a].thread \in Fresh
         /\ req'[a].thread \in Thread
         /\ Len(asked') = Len(asked) + 1
         /\ \A n \in 1 .. Len(asked) : asked'[n] = asked[n]
<1>1. PICK t \in IF Owned(a) THEN {req[a].thread} ELSE Fresh :
        req' = [req EXCEPT ![a].pc = "read", ![a].thread = t,
                           ![a].turn = Len(asked) + 1, ![a].seeding = ~ seeded]
  BY DEF Admit
<1>2. /\ req[a].pc = "admit" /\ Len(asked) < MaxTurns
      /\ asked' = Append(asked, req[a].user)
      /\ UNCHANGED <<conversations, seeded, raced, failures>>
  BY DEF Admit
<1>3. /\ req[a] \in Handler /\ req[a].history = {} /\ req[a].user \in User /\ a # Cron
      /\ asked \in Seq(User) /\ Len(asked) \in Nat /\ MaxTurns \in Nat
  BY <1>2, Known DEF HandlerOK, TypeInv
<1>4. (Owned(a) /\ t = req[a].thread) \/ t \in Fresh
  BY <1>1
<1>5. t \in Thread
  <2>1. CASE Owned(a) /\ t = req[a].thread
    BY <1>3, <2>1, HandlerFields DEF Owned
  <2>2. CASE t \in Fresh
    BY <2>2 DEF Fresh
  <2>3. QED
    BY <1>4, <2>1, <2>2
<1>0. PICK n \in Nat : n = Len(asked) + 1
  BY <1>3
<1>10. PICK flag \in BOOLEAN : flag = ~ seeded
  BY Zenon
<1>6. PICK one, two, three, h :
        /\ one = [req[a] EXCEPT !.pc = "read"] /\ two = [one EXCEPT !.thread = t]
        /\ three = [two EXCEPT !.turn = n] /\ h = [three EXCEPT !.seeding = flag]
  OBVIOUS
<1>7. req' = [req EXCEPT ![a] = h]
  BY <1>0, <1>1, <1>6, <1>10, Known
<1>8. /\ one \in Handler /\ one.pc = "read" /\ one.history = {} /\ one.user = req[a].user
      /\ one.holds = req[a].holds
  BY <1>3, <1>6, SetPc DEF Phase
<1>9. /\ two \in Handler /\ two.pc = "read" /\ two.history = {} /\ two.user = req[a].user
      /\ two.holds = req[a].holds /\ two.thread = t
  BY <1>5, <1>6, <1>8, SetThread
<1>11. /\ three \in Handler /\ three.pc = "read" /\ three.history = {}
       /\ three.user = req[a].user /\ three.holds = req[a].holds /\ three.thread = t
       /\ three.turn = n
  BY <1>6, <1>9, SetTurn
<1>12. /\ h \in Handler /\ h.pc = "read" /\ h.history = {} /\ h.user = req[a].user
       /\ h.holds = req[a].holds /\ h.thread = t /\ h.turn = n
  BY <1>6, <1>11 DEF Handler
<1>13. /\ asked' \in Seq(User) /\ Len(asked') = n /\ n <= MaxTurns /\ asked'[n] = req[a].user
       /\ \A i \in 1 .. Len(asked) : asked'[i] = asked[i]
  BY <1>0, <1>2, <1>3, AppendProperties
<1>14. /\ req' \in [Actor -> Handler] /\ req'[a] = h /\ Others(a)
  BY <1>7, <1>12, Known DEF Others
<1>15. ASSUME NEW b \in Actor PROVE HandlerOK(req[b])'
  <2>1. CASE b = a
    <3>1. /\ req'[b] = h /\ h.pc = "read" /\ h.history = {} /\ h.user \in User /\ h.thread \in Thread
          /\ h.turn = n /\ asked'[n] = h.user
      BY <1>3, <1>5, <1>12, <1>13, <1>14, <2>1
    <3>2. n \in 1 .. Len(asked')
      BY <1>0, <1>3, <1>13
    <3>3. QED
      BY <3>1, <3>2 DEF HandlerOK, Working
  <2>2. CASE b # a
    <3>1. req'[b] = req[b] /\ HandlerOK(req[b])
      BY <1>14, <2>2, Known DEF Others
    <3>2. \A i \in 1 .. Len(asked) : i \in 1 .. Len(asked') /\ asked'[i] = asked[i]
      BY <1>0, <1>3, <1>13
    <3>3. QED
      BY <3>1, <3>2 DEF HandlerOK
  <2>3. QED
    BY <2>1, <2>2
<1>16. req'[Cron].pc \in {"idle", "select", "purge"}
  BY <1>3, <1>14, Known DEF Others, TypeInv
<1>17. TypeInv'
  BY <1>2, <1>13, <1>14, <1>15, <1>16 DEF TypeInv, TypeOK, conversations
<1>18. LessHeld
  BY <1>12, <1>14, OneLess
<1>19. QED
  BY <1>0, <1>2, <1>4, <1>5, <1>12, <1>13, <1>14, <1>17, <1>18

LEMMA ReadStep ==
  ASSUME TypeInv, NEW a \in Actor, Read(a)
  PROVE  /\ TypeInv' /\ LessHeld /\ Others(a) /\ a \in Request
         /\ UNCHANGED <<conversations, asked>>
         /\ req[a].pc = "read" /\ req'[a].pc = "put" /\ req'[a].user = req[a].user
         /\ req'[a].thread = req[a].thread /\ req'[a].turn = req[a].turn
         /\ req'[a].history = checkpoint[req[a].thread]
         /\ req[a].thread \in Thread
         /\ raced' = raced \cup {t \in Thread : t = req[a].thread /\
                        \E b \in Request \ {a} : InTurn(b) /\ req[b].thread = t}
<1>1. PICK loaded : loaded = checkpoint[req[a].thread]
  OBVIOUS
<1>2. /\ req[a].pc = "read"
      /\ req' = [req EXCEPT ![a].pc = "put", ![a].history = loaded]
      /\ raced' = raced \cup {t \in Thread : t = req[a].thread /\
                     \E b \in Request \ {a} : InTurn(b) /\ req[b].thread = t}
      /\ UNCHANGED <<conversations, seeded, asked, failures>>
  BY <1>1 DEF Read
<1>3. /\ req[a] \in Handler /\ HandlerOK(req[a]) /\ req[a].thread \in Thread /\ a # Cron
  BY <1>2, Known DEF HandlerOK, Working, TypeInv
<1>4. loaded \in SUBSET Turn
  BY <1>1, <1>3, Known
<1>5. PICK one, h : one = [req[a] EXCEPT !.pc = "put"] /\ h = [one EXCEPT !.history = loaded]
  OBVIOUS
<1>6. /\ one \in Handler /\ one.pc = "put" /\ one.user = req[a].user /\ one.holds = req[a].holds
      /\ one.thread = req[a].thread /\ one.turn = req[a].turn
  BY <1>3, <1>5, SetPc DEF Phase
<1>7. /\ h \in Handler /\ h.pc = "put" /\ h.user = req[a].user /\ h.holds = req[a].holds
      /\ h.thread = req[a].thread /\ h.turn = req[a].turn /\ h.history = loaded
  BY <1>4, <1>5, <1>6, SetHistory
<1>8. HandlerOK(h)
  BY <1>2, <1>3, <1>7 DEF HandlerOK, Working
<1>9. req' = [req EXCEPT ![a] = h]
  BY <1>2, <1>5, Known
<1>10. raced' \subseteq Thread /\ seeded' \in BOOLEAN /\ failures' \in 0 .. MaxFailures
  BY <1>2, TypeFacts
<1>11. TypeInv' /\ req'[a] = h /\ Others(a)
  BY <1>2, <1>3, <1>7, <1>8, <1>9, <1>10, HandlerOnly
<1>12. LessHeld
  BY <1>7, <1>11, OneLess
<1>13. QED
  BY <1>1, <1>2, <1>3, <1>7, <1>11, <1>12, Known

\* The turn has the lock of its row, of a thread that is there; or it fails.
LEMMA PutStep ==
  ASSUME TypeInv, NEW a \in Actor, Put(a)
  PROVE  /\ TypeInv' /\ Others(a) /\ req[a].pc = "put" /\ req[a].thread \in Thread
         /\ UNCHANGED <<conversations, asked, raced>>
         /\ ~ HeldByOther(a, req[a].thread)
         /\ \/ Quiet /\ LessHeld
            \/ /\ ThreadThere(a) /\ req'[a].pc = "model" /\ req'[a].user = req[a].user
               /\ req'[a].thread = req[a].thread /\ req'[a].turn = req[a].turn
               /\ req'[a].history = req[a].history /\ req'[a].holds = {req[a].thread}
<1>1. PICK holds : holds = {req[a].thread}
  OBVIOUS
<1>2. /\ req[a].pc = "put" /\ ~ HeldByOther(a, req[a].thread)
      /\ IF ThreadThere(a) THEN req' = [req EXCEPT ![a].pc = "model", ![a].holds = holds]
                           ELSE Respond(a)
      /\ UNCHANGED <<conversations, seeded, asked, raced, failures>>
  BY <1>1 DEF Put, history
<1>3. /\ req[a] \in Handler /\ HandlerOK(req[a]) /\ req[a].thread \in Thread /\ a # Cron
  BY <1>2, Known DEF HandlerOK, Working, TypeInv
<1>4. raced' \subseteq Thread /\ seeded' \in BOOLEAN /\ failures' \in 0 .. MaxFailures
  BY <1>2, TypeFacts
<1>5. CASE ThreadThere(a)
  <2>1. PICK one, h : one = [req[a] EXCEPT !.pc = "model"] /\ h = [one EXCEPT !.holds = holds]
    OBVIOUS
  <2>2. /\ one \in Handler /\ one.pc = "model" /\ one.user = req[a].user
        /\ one.thread = req[a].thread /\ one.turn = req[a].turn /\ one.history = req[a].history
    BY <1>3, <2>1, SetPc DEF Phase
  <2>3. holds \in SUBSET Thread
    BY <1>1, <1>3
  <2>4. /\ h \in Handler /\ h.pc = "model" /\ h.user = req[a].user /\ h.holds = holds
        /\ h.thread = req[a].thread /\ h.turn = req[a].turn /\ h.history = req[a].history
    BY <2>1, <2>2, <2>3, SetHolds
  <2>5. HandlerOK(h)
    BY <1>2, <1>3, <2>4 DEF HandlerOK, Working
  <2>6. req' = [req EXCEPT ![a] = h]
    BY <1>2, <1>5, <2>1, Known
  <2>7. TypeInv' /\ req'[a] = h /\ Others(a)
    BY <1>2, <1>3, <1>4, <2>4, <2>5, <2>6, HandlerOnly
  <2>8. QED
    BY <1>1, <1>2, <1>3, <1>5, <2>4, <2>7
<1>6. CASE ~ ThreadThere(a)
  <2>1. Respond(a)
    BY <1>2, <1>6
  <2>2. Others(a)
    BY <1>2, <1>4, <2>1, RespondOnly
  <2>3. QED
    BY <1>2, <1>3, <1>4, <2>1, <2>2, RespondStep
<1>7. QED
  BY <1>5, <1>6

LEMMA TouchedFields ==
  ASSUME TypeInv, NEW a \in Actor, req[a].thread \in Thread, req[a].user \in User
  PROVE  LET row == thread[req[a].thread]
         IN  /\ Touched(a) \in Row
             /\ row.status = "purged" => Touched(a) = row
             /\ row.status # "purged" => Touched(a).status = "live"
             /\ row.status = "live" => Touched(a).owner = row.owner
             /\ row.status = "unused" => Touched(a).owner = req[a].user
<1>1. PICK row : row = thread[req[a].thread]
  OBVIOUS
<1>2. row \in Row /\ row.owner \in User \cup {None} /\ row.status \in {"unused", "live", "purged"}
  BY <1>1, Known DEF Row
<1>3. PICK owner : owner = IF row.status = "live" THEN row.owner ELSE req[a].user
  OBVIOUS
<1>4. Touched(a) = IF row.status = "purged" THEN row
                   ELSE [owner |-> owner, status |-> "live", expired |-> FALSE]
  BY <1>1, <1>3 DEF Touched
<1>5. owner \in User \cup {None}
  BY <1>2, <1>3
<1>6. QED
  BY <1>1, <1>2, <1>3, <1>4, <1>5 DEF Row

LEMMA AnswerStep ==
  ASSUME TypeInv, NEW a \in Actor, Answer(a)
  PROVE  /\ TypeInv' /\ LessHeld /\ Others(a) /\ req[a].pc = "model" /\ req'[a] = Resting
         /\ a \in Request /\ req[a].thread \in Thread /\ req[a].user \in User
         /\ UNCHANGED <<asked, raced>>
         /\ thread'[req[a].thread] = Touched(a)
         /\ checkpoint'[req[a].thread] = NewHistory(a)
         /\ recorded'[req[a].thread] = recorded[req[a].thread] \cup {req[a].turn}
         /\ \A t \in Thread \ {req[a].thread} :
              /\ thread'[t] = thread[t] /\ checkpoint'[t] = checkpoint[t]
              /\ recorded'[t] = recorded[t]
<1>1. PICK t : t = req[a].thread
  OBVIOUS
<1>2. /\ req[a].pc = "model" /\ Respond(a)
      /\ thread' = [thread EXCEPT ![t] = Touched(a)]
      /\ checkpoint' = [checkpoint EXCEPT ![t] = NewHistory(a)]
      /\ recorded' = [recorded EXCEPT ![t] = recorded[t] \cup {req[a].turn}]
      /\ seeded' = (seeded \/ req[a].seeding)
      /\ UNCHANGED <<asked, raced, failures>>
  BY <1>1 DEF Answer, history
<1>3. /\ req[a] \in Handler /\ req[a].thread \in Thread /\ req[a].user \in User
      /\ req[a].turn \in 1 .. Len(asked) /\ a # Cron
  BY <1>2, Known DEF HandlerOK, Working, TypeInv
<1>4. req[a].turn \in Turn /\ req[a].history \in SUBSET Turn
  BY <1>3, Known, HandlerFields DEF Turn
<1>5. NewHistory(a) \in SUBSET Turn /\ recorded[t] \cup {req[a].turn} \in SUBSET Turn
  BY <1>1, <1>3, <1>4, Known DEF NewHistory
<1>6. Touched(a) \in Row
  BY <1>3, TouchedFields
<1>7. /\ thread' \in [Thread -> Row] /\ checkpoint' \in [Thread -> SUBSET Turn]
      /\ recorded' \in [Thread -> SUBSET Turn]
  BY <1>2, <1>5, <1>6, TypeFacts
<1>8. seeded' \in BOOLEAN
  BY <1>2
<1>9. req' = [req EXCEPT ![a] = Resting]
  BY <1>2 DEF Respond
<1>10. /\ req' \in [Actor -> Handler] /\ req'[a] = Resting /\ Others(a)
       /\ (\A b \in Actor : HandlerOK(req[b]))'
       /\ req'[Cron].pc \in {"idle", "select", "purge"}
  BY <1>2, <1>3, <1>9, OneHandler, RestingFields, RestingOK
<1>11. TypeInv'
  BY <1>2, <1>7, <1>8, <1>10 DEF TypeInv, TypeOK
<1>12. LessHeld
  BY <1>10, OneLess, RestingFields
<1>13. QED
  BY <1>1, <1>2, <1>3, <1>10, <1>11, <1>12, Known

\* A purge commits with the locks of all it deletes.
LEMMA CommitStep ==
  ASSUME TypeInv, NEW a \in Actor, CommitPurge(a)
  PROVE  /\ TypeInv' /\ LessHeld /\ Others(a) /\ req[a].pc = "purge" /\ req'[a] = Resting
         /\ UNCHANGED <<recorded, asked, raced>>
         /\ req[a].todo \subseteq req[a].holds
         /\ \A t \in Thread :
              /\ t \in req[a].todo => /\ thread'[t].status = "purged"
                                      /\ checkpoint'[t] = {}
              /\ t \notin req[a].todo => /\ thread'[t] = thread[t]
                                         /\ checkpoint'[t] = checkpoint[t]
<1>1. /\ req[a].pc = "purge" /\ Remaining(a) = {} /\ Respond(a)
      /\ thread' = [t \in Thread |-> IF t \in req[a].todo THEN Purged(thread[t]) ELSE thread[t]]
      /\ checkpoint' = [t \in Thread |-> IF t \in req[a].todo THEN {} ELSE checkpoint[t]]
      /\ UNCHANGED <<recorded, seeded, asked, raced, failures>>
  BY DEF CommitPurge, history
<1>2. ASSUME NEW row PROVE Purged(row) \in Row /\ Purged(row).status = "purged"
  BY DEF Purged, Unused, Row
<1>3. thread' \in [Thread -> Row] /\ checkpoint' \in [Thread -> SUBSET Turn]
  BY <1>1, <1>2, Known
<1>4. req' = [req EXCEPT ![a] = Resting]
  BY <1>1 DEF Respond
<1>5. /\ req' \in [Actor -> Handler] /\ req'[a] = Resting /\ Others(a)
      /\ (\A b \in Actor : HandlerOK(req[b]))'
      /\ req'[Cron].pc \in {"idle", "select", "purge"}
  BY <1>1, <1>4, OneHandler, RestingFields, RestingOK
<1>6. TypeInv'
  BY <1>1, <1>3, <1>5 DEF TypeInv, TypeOK
<1>7. LessHeld
  BY <1>5, OneLess, RestingFields
<1>8. QED
  BY <1>1, <1>2, <1>5, <1>6, <1>7 DEF Remaining

LEMMA ExpireStep ==
  ASSUME TypeInv, NEW t \in Thread, Expire(t)
  PROVE  /\ TypeInv' /\ UNCHANGED <<checkpoint, recorded, req, asked, raced>>
         /\ \A s \in Thread : /\ thread'[s].status = thread[s].status
                              /\ thread'[s].owner = thread[s].owner
<1>1. PICK row : row = [thread[t] EXCEPT !.expired = TRUE]
  OBVIOUS
<1>2. /\ thread' = [thread EXCEPT ![t] = row]
      /\ UNCHANGED <<checkpoint, recorded, seeded, req, asked, raced, failures>>
  BY <1>1, Known DEF Expire, history
<1>3. /\ row \in Row /\ row.status = thread[t].status /\ row.owner = thread[t].owner
  BY <1>1, Known DEF Row
<1>4. thread' \in [Thread -> Row]
  BY <1>2, <1>3, TypeFacts
<1>5. TypeInv'
  BY <1>2, <1>4 DEF TypeInv, TypeOK, HandlerOK
<1>6. QED
  BY <1>2, <1>3, <1>5, Known

\* The steps, for proofs by cases.
LEMMA StepCases ==
  ASSUME TypeInv, [Next]_vars
  PROVE  \/ TypeInv' /\ Quiet /\ LessHeld
         \/ \E a \in Actor : \/ Admit(a) \/ Read(a) \/ Put(a) \/ Answer(a)
                             \/ DeleteCheckpoint(a) \/ CommitPurge(a) \/ DeadlockVictim(a)
         \/ \E t \in Thread : Expire(t)
<1>1. ASSUME NEW a \in Actor, Statement(a)
      PROVE  \/ TypeInv' /\ Quiet /\ LessHeld
             \/ \/ Admit(a) \/ Read(a) \/ Put(a) \/ Answer(a)
                \/ DeleteCheckpoint(a) \/ CommitPurge(a) \/ DeadlockVictim(a)
  BY <1>1, ConnectStep, EndSteps, SelectStep DEF Statement
<1>2. ASSUME NEW q \in Request, NEW p \in Process, NEW u \in User,
             BeginLogout(q, p, u) \/ \E t \in Thread \cup {None} : BeginChat(q, p, u, t)
      PROVE  TypeInv' /\ Quiet /\ LessHeld
  BY <1>2, BeginLogoutStep, BeginChatStep
<1>3. ASSUME BeginSweep \/ SweepFails PROVE TypeInv' /\ Quiet /\ LessHeld
  BY <1>3, BeginSweepStep, SweepFailsStep
<1>4. ASSUME NEW p \in Process, Kill(p) \/ ProbeRestart(p) PROVE TypeInv' /\ Quiet /\ LessHeld
  BY <1>4, RestartSteps
<1>5. ASSUME UNCHANGED vars PROVE TypeInv' /\ Quiet /\ LessHeld
  BY <1>5, StutterStep
<1>6. QED
  BY <1>1, <1>2, <1>3, <1>4, <1>5 DEF Next

LEMMA NextType ==
  ASSUME TypeInv, [Next]_vars
  PROVE  TypeInv'
BY StepCases, AdmitStep, ReadStep, PutStep, AnswerStep, DeleteStep, CommitStep, VictimStep,
   ExpireStep

LEMMA TypeHolds == Spec => []TypeInv
<1>1. TypeInv /\ [Next]_vars => TypeInv'
  BY NextType
<1>2. QED
  BY <1>1, InitType, PTL DEF Spec

\* Every variable keeps its type, and so does every handler's local state.
THEOREM TypeCorrect == Spec => []TypeOK
<1>1. TypeInv => TypeOK
  BY DEF TypeInv
<1>2. QED
  BY <1>1, TypeHolds, PTL
--------------------------------------------------------------------------------
(* Row locks. *)

Exclusive == \A a, b \in Actor : a # b => req[a].holds \cap req[b].holds = {}

\* A turn that awaits the model holds the lock of its checkpoint row.
LockInv ==
  /\ TypeInv
  /\ Exclusive
  /\ \A a \in Actor : req[a].pc = "model" => req[a].thread \in req[a].holds

\* One handler takes a lock that no other holds.
LEMMA LockTaken ==
  ASSUME LockInv, TypeInv', NEW a \in Actor, Others(a), NEW t,
         ~ HeldByOther(a, t), req'[a].holds \subseteq req[a].holds \cup {t},
         req'[a].pc = "model" => req'[a].thread \in req'[a].holds
  PROVE  LockInv'
<1>1. Exclusive'
  BY DEF LockInv, Exclusive, Others, HeldByOther
<1>2. QED
  BY <1>1 DEF LockInv, Others

LEMMA LockKept ==
  ASSUME LockInv, TypeInv', LessHeld
  PROVE  LockInv'
<1>1. Exclusive'
  BY DEF LockInv, Exclusive, LessHeld
<1>2. \A a \in Actor : req'[a].pc = "model" => req'[a].thread \in req'[a].holds
  BY DEF LockInv, LessHeld
<1>3. QED
  BY <1>1, <1>2 DEF LockInv

LEMMA NextLock ==
  ASSUME LockInv, [Next]_vars
  PROVE  LockInv'
<1>0. TypeInv /\ TypeInv'
  BY NextType DEF LockInv
<1>1. ASSUME LessHeld PROVE LockInv'
  BY <1>0, <1>1, LockKept
<1>2. ASSUME NEW a \in Actor, Admit(a) \/ Read(a) \/ Answer(a) \/ CommitPurge(a) PROVE LockInv'
  BY <1>0, <1>1, <1>2, AdmitStep, ReadStep, AnswerStep, CommitStep
<1>3. ASSUME NEW a \in Actor, Put(a) PROVE LockInv'
  <2>1. CASE LessHeld
    BY <1>1, <2>1
  <2>2. CASE ~ LessHeld
    <3>1. /\ Others(a) /\ ~ HeldByOther(a, req[a].thread)
          /\ req'[a].thread = req[a].thread /\ req'[a].holds = {req[a].thread}
      BY <1>0, <1>3, <2>2, PutStep
    <3>2. QED
      BY <1>0, <3>1, LockTaken
  <2>3. QED
    BY <2>1, <2>2
<1>4. ASSUME NEW a \in Actor, DeleteCheckpoint(a) PROVE LockInv'
  <2>1. PICK t \in Thread : ~ HeldByOther(a, t) /\ req'[a].holds \subseteq req[a].holds \cup {t}
    BY <1>0, <1>4, DeleteStep
  <2>2. Others(a) /\ req'[a].pc = "purge"
    BY <1>0, <1>4, DeleteStep
  <2>3. QED
    BY <1>0, <2>1, <2>2, LockTaken
<1>5. ASSUME NEW a \in Actor, DeadlockVictim(a) PROVE LockInv'
  <2>1. PICK b \in Actor \ {a} :
          /\ req'[a] = Resting /\ req'[b].pc = "purge"
          /\ req'[b].holds \subseteq req[b].holds \cup req[a].holds
          /\ \A c \in Actor \ {a, b} : req'[c] = req[c]
    BY <1>0, <1>5, VictimStep
  <2>2. \A c, d \in Actor : c # d /\ d # b => req'[c].holds \cap req'[d].holds = {}
    <3>1. req'[a].holds = {}
      BY <2>1, RestingFields
    <3>2. \A d \in Actor \ {a, b} : req'[d].holds \cap (req[b].holds \cup req[a].holds) = {}
      BY <2>1 DEF LockInv, Exclusive
    <3>3. QED
      BY <2>1, <3>1, <3>2 DEF LockInv, Exclusive
  <2>3. Exclusive'
    BY <2>2 DEF Exclusive
  <2>4. \A c \in Actor : req'[c].pc = "model" => req'[c].thread \in req'[c].holds
    BY <2>1, RestingFields DEF LockInv
  <2>5. QED
    BY <1>0, <2>3, <2>4 DEF LockInv
<1>6. ASSUME NEW t \in Thread, Expire(t) PROVE LockInv'
  <2>1. req' = req
    BY <1>0, <1>6, ExpireStep
  <2>2. QED
    BY <1>0, <2>1 DEF LockInv, Exclusive
<1>7. QED
  BY <1>0, <1>1, <1>2, <1>3, <1>4, <1>5, <1>6, StepCases
--------------------------------------------------------------------------------
(* Conversations and their checkpoints. *)

\* No row is purged under a turn that awaits the model.
StoreInv ==
  /\ LockInv
  /\ NoResurrection
  /\ \A a \in Actor : req[a].pc = "model" => thread[req[a].thread].status # "purged"

LEMMA NextStore ==
  ASSUME StoreInv, [Next]_vars
  PROVE  StoreInv'
<1>0. TypeInv /\ TypeInv' /\ LockInv /\ LockInv'
  BY NextLock DEF StoreInv, LockInv
<1>1. ASSUME UNCHANGED <<thread, checkpoint>>,
             \A b \in Actor : req'[b].pc = "model" =>
               req[b].pc = "model" /\ req'[b].thread = req[b].thread
      PROVE  StoreInv'
  BY <1>0, <1>1 DEF StoreInv, NoResurrection, Live
<1>2. ASSUME NEW a \in Actor, Admit(a) \/ Read(a) PROVE StoreInv'
  BY <1>0, <1>1, <1>2, AdmitStep, ReadStep DEF LessHeld, conversations
<1>3. ASSUME Quiet, LessHeld PROVE StoreInv'
  BY <1>1, <1>3 DEF Quiet, LessHeld
<1>4. ASSUME NEW a \in Actor, Put(a) PROVE StoreInv'
  <2>1. CASE Quiet /\ LessHeld
    BY <1>3, <2>1
  <2>2. CASE ~ (Quiet /\ LessHeld)
    <3>1. /\ UNCHANGED <<thread, checkpoint>> /\ Others(a) /\ ThreadThere(a)
          /\ req'[a].thread = req[a].thread
      BY <1>0, <1>4, <2>2, PutStep DEF conversations
    <3>2. \A b \in Actor : req'[b].pc = "model" => thread'[req'[b].thread].status # "purged"
      BY <3>1 DEF StoreInv, Others, ThreadThere
    <3>3. QED
      BY <1>0, <3>1, <3>2 DEF StoreInv, NoResurrection, Live
  <2>3. QED
    BY <2>1, <2>2
<1>5. ASSUME NEW a \in Actor, Answer(a) PROVE StoreInv'
  <2>1. PICK t : t = req[a].thread
    OBVIOUS
  <2>2. /\ LessHeld /\ Others(a) /\ req[a].pc = "model" /\ req'[a] = Resting /\ t \in Thread
        /\ thread'[t] = Touched(a) /\ checkpoint'[t] = NewHistory(a)
        /\ \A s \in Thread \ {t} : thread'[s] = thread[s] /\ checkpoint'[s] = checkpoint[s]
        /\ req[a].user \in User
    BY <1>0, <1>5, <2>1, AnswerStep
  <2>3. thread'[t].status = "live" /\ checkpoint'[t] # {}
    <3>1. thread[t].status # "purged"
      BY <2>1, <2>2 DEF StoreInv
    <3>2. QED
      BY <1>0, <2>1, <2>2, <3>1, TouchedFields DEF NewHistory
  <2>4. NoResurrection'
    BY <2>2, <2>3 DEF StoreInv, NoResurrection, Live
  <2>5. ASSUME NEW b \in Actor, req'[b].pc = "model" PROVE thread'[req'[b].thread].status # "purged"
    <3>1. req[b].pc = "model" /\ req'[b].thread = req[b].thread /\ req[b].thread \in Thread
      BY <1>0, <2>2, <2>5, Known DEF LessHeld, HandlerOK, Working
    <3>2. thread[req[b].thread].status # "purged"
      BY <3>1 DEF StoreInv
    <3>3. QED
      BY <2>2, <2>3, <3>1, <3>2
  <2>6. QED
    BY <1>0, <2>4, <2>5 DEF StoreInv
<1>6. ASSUME NEW a \in Actor, DeleteCheckpoint(a) PROVE StoreInv'
  BY <1>0, <1>1, <1>6, DeleteStep DEF Quiet, Others
<1>7. ASSUME NEW a \in Actor, DeadlockVictim(a) PROVE StoreInv'
  BY <1>0, <1>1, <1>7, VictimStep, RestingFields DEF Quiet
<1>8. ASSUME NEW a \in Actor, CommitPurge(a) PROVE StoreInv'
  <2>1. /\ LessHeld /\ Others(a) /\ req[a].pc = "purge" /\ req'[a] = Resting
        /\ req[a].todo \subseteq req[a].holds
        /\ \A t \in Thread :
             /\ t \in req[a].todo => thread'[t].status = "purged" /\ checkpoint'[t] = {}
             /\ t \notin req[a].todo => thread'[t] = thread[t] /\ checkpoint'[t] = checkpoint[t]
    BY <1>0, <1>8, CommitStep
  <2>2. NoResurrection'
    BY <2>1 DEF StoreInv, NoResurrection, Live
  <2>3. ASSUME NEW b \in Actor, req'[b].pc = "model" PROVE thread'[req'[b].thread].status # "purged"
    <3>1. /\ req[b].pc = "model" /\ req'[b].thread = req[b].thread /\ req[b].thread \in Thread
          /\ b # a
      BY <1>0, <2>1, <2>3, Known DEF LessHeld, HandlerOK, Working
    <3>2. req[b].thread \notin req[a].todo
      BY <1>0, <2>1, <3>1 DEF LockInv, Exclusive
    <3>3. thread[req[b].thread].status # "purged"
      BY <3>1 DEF StoreInv
    <3>4. QED
      BY <2>1, <3>1, <3>2, <3>3
  <2>4. QED
    BY <1>0, <2>2, <2>3 DEF StoreInv
<1>9. ASSUME NEW t \in Thread, Expire(t) PROVE StoreInv'
  <2>1. /\ UNCHANGED <<checkpoint, req>>
        /\ \A s \in Thread : thread'[s].status = thread[s].status
    BY <1>0, <1>9, ExpireStep
  <2>2. \A b \in Actor : req[b].pc = "model" => req[b].thread \in Thread
    BY <1>0, Known DEF HandlerOK, Working
  <2>3. QED
    BY <1>0, <2>1, <2>2 DEF StoreInv, NoResurrection, Live
<1>10. QED
  BY <1>0, <1>2, <1>3, <1>4, <1>5, <1>6, <1>7, <1>8, <1>9, StepCases

LEMMA InitStore == Init => StoreInv
<1> SUFFICES ASSUME Init PROVE StoreInv
  OBVIOUS
<1>1. \A a \in Actor : req[a] = Resting
  BY DEF Init
<1>2. LockInv
  BY <1>1, InitType, RestingFields DEF LockInv, Exclusive
<1>3. NoResurrection
  BY DEF Init, NoResurrection, Live, Unused
<1>4. QED
  BY <1>1, <1>2, <1>3, RestingFields DEF StoreInv

LEMMA StoreHolds == Spec => []StoreInv
<1>1. StoreInv /\ [Next]_vars => StoreInv'
  BY NextStore
<1>2. QED
  BY <1>1, InitStore, PTL DEF Spec

\* Checkpoint state never outlives its thread, nor a thread its checkpoint: a purge
\* holds the locks of all it deletes, and a turn that comes later finds no thread.
THEOREM PurgedStaysPurged == Spec => []NoResurrection
<1>1. StoreInv => NoResurrection
  BY DEF StoreInv
<1>2. QED
  BY <1>1, StoreHolds, PTL
--------------------------------------------------------------------------------
(* Whose conversation it is. *)

\* A turn in work goes on with what it knows.
Going(b) == /\ req'[b].thread = req[b].thread /\ req'[b].user = req[b].user
            /\ req'[b].history = req[b].history
            /\ req'[b].pc = req[b].pc \/ (InTurn(b) /\ InTurn(b)')

Calm == /\ UNCHANGED <<thread, checkpoint, recorded, asked, raced>>
        /\ \A b \in Actor : Going(b) \/ Aside(b)

LEMMA CalmCases ==
  ASSUME TypeInv, [Next]_vars
  PROVE  \/ Calm
         \/ \E a \in Actor : Admit(a) \/ Read(a) \/ Answer(a) \/ CommitPurge(a)
         \/ \E t \in Thread : Expire(t)
<1>1. ASSUME Quiet PROVE Calm
  BY <1>1 DEF Quiet, Calm, Same, Going
<1>2. ASSUME NEW a \in Actor, Put(a) PROVE Calm
  <2>1. CASE Quiet
    BY <1>1, <2>1
  <2>2. CASE ~ Quiet
    <3>1. /\ Others(a) /\ UNCHANGED <<conversations, asked, raced>>
          /\ req[a].pc = "put" /\ req'[a].pc = "model" /\ req'[a].user = req[a].user
          /\ req'[a].thread = req[a].thread /\ req'[a].history = req[a].history
      BY <1>2, <2>2, PutStep
    <3>2. Going(a)
      BY <3>1 DEF Going, InTurn
    <3>3. \A b \in Actor \ {a} : Going(b)
      BY <3>1 DEF Going, Others
    <3>4. QED
      BY <3>1, <3>2, <3>3 DEF Calm, conversations
  <2>3. QED
    BY <2>1, <2>2
<1>3. ASSUME NEW a \in Actor, DeleteCheckpoint(a) \/ DeadlockVictim(a) PROVE Calm
  BY <1>1, <1>3, DeleteStep, VictimStep
<1>4. QED
  BY <1>1, <1>2, <1>3, StepCases

\* A thread no turn has committed yet is the turn's that minted it.
Minted ==
  \A a, b \in Actor :
    /\ a # b /\ req[a].pc \in Working
    /\ thread[req[a].thread].status = "unused"
    => req[b].thread # req[a].thread

\* A turn works on a thread of its user.
Claimant ==
  \A a \in Actor :
    req[a].pc \in Working /\ thread[req[a].thread].status = "live"
    => thread[req[a].thread].owner = req[a].user

ClaimInv == StoreInv /\ Minted /\ Claimant

LEMMA CalmClaim ==
  ASSUME ClaimInv, Calm
  PROVE  Minted' /\ Claimant'
<1>0. TypeInv
  BY DEF ClaimInv, StoreInv, LockInv
<1>1. ASSUME NEW a \in Actor, req'[a].pc \in Working
      PROVE  /\ req[a].pc \in Working /\ req'[a].thread = req[a].thread
             /\ req'[a].user = req[a].user /\ req[a].thread \in Thread
  <2>1. Going(a)
    BY <1>1 DEF Calm, Aside
  <2>2. req[a].pc \in Working
    BY <1>1, <2>1 DEF Going, InTurn, Working
  <2>3. QED
    BY <1>0, <2>1, <2>2, Known DEF Going, HandlerOK
<1>2. ASSUME NEW a \in Actor, NEW b \in Actor, a # b, req'[a].pc \in Working,
             thread'[req'[a].thread].status = "unused"
      PROVE  req'[b].thread # req'[a].thread
  <2>1. /\ req[a].pc \in Working /\ req'[a].thread = req[a].thread /\ req[a].thread \in Thread
        /\ thread[req[a].thread].status = "unused"
    BY <1>1, <1>2 DEF Calm
  <2>2. req[b].thread # req[a].thread
    BY <1>2, <2>1 DEF ClaimInv, Minted
  <2>3. Going(b) \/ Aside(b)
    BY DEF Calm
  <2>4. QED
    BY <2>1, <2>2, <2>3, NamesAssumption DEF Going, Aside
<1>3. Claimant'
  BY <1>1 DEF ClaimInv, Claimant, Calm
<1>4. QED
  BY <1>2, <1>3 DEF Minted

LEMMA AdmitClaim ==
  ASSUME ClaimInv, NEW a \in Actor, Admit(a)
  PROVE  Minted' /\ Claimant'
<1>0. TypeInv
  BY DEF ClaimInv, StoreInv, LockInv
<1>1. /\ Others(a) /\ thread' = thread /\ req'[a].user = req[a].user
      /\ (Owned(a) /\ req'[a].thread = req[a].thread) \/ req'[a].thread \in Fresh
  BY <1>0, AdmitStep DEF conversations
<1>2. \/ /\ thread[req'[a].thread].status = "live"
         /\ thread[req'[a].thread].owner = req'[a].user
      \/ /\ thread[req'[a].thread].status = "unused"
         /\ \A b \in Actor : req[b].thread # req'[a].thread
  BY <1>1 DEF Owned, Live, Fresh, Claimed
<1>3. Minted'
  BY <1>1, <1>2 DEF ClaimInv, Minted, Others
<1>4. Claimant'
  BY <1>1, <1>2 DEF ClaimInv, Claimant, Others
<1>5. QED
  BY <1>3, <1>4

LEMMA ReadClaim ==
  ASSUME ClaimInv, NEW a \in Actor, Read(a)
  PROVE  Minted' /\ Claimant'
<1>0. TypeInv
  BY DEF ClaimInv, StoreInv, LockInv
<1>1. /\ Others(a) /\ thread' = thread /\ req'[a].user = req[a].user
      /\ req'[a].thread = req[a].thread /\ req[a].pc = "read" /\ req'[a].pc = "put"
  BY <1>0, ReadStep DEF conversations
<1>2. \A b \in Actor : /\ req'[b].thread = req[b].thread /\ req'[b].user = req[b].user
                       /\ req'[b].pc \in Working => req[b].pc \in Working
  BY <1>1 DEF Others, Working
<1>3. QED
  BY <1>1, <1>2 DEF ClaimInv, Minted, Claimant

\* The first answer on a thread makes it the user's; no other turn is at work on it.
LEMMA AnswerClaim ==
  ASSUME ClaimInv, NEW a \in Actor, Answer(a)
  PROVE  Minted' /\ Claimant'
<1>0. TypeInv
  BY DEF ClaimInv, StoreInv, LockInv
<1>1. PICK t : t = req[a].thread
  OBVIOUS
<1>2. /\ Others(a) /\ req[a].pc = "model" /\ req'[a] = Resting /\ t \in Thread
      /\ req[a].user \in User /\ thread'[t] = Touched(a)
      /\ \A s \in Thread \ {t} : thread'[s] = thread[s]
  BY <1>0, <1>1, AnswerStep
<1>3. thread[t].status \in {"unused", "live"}
  BY <1>0, <1>1, <1>2, Known DEF ClaimInv, StoreInv, Row
<1>4. /\ thread'[t].status = "live"
      /\ thread[t].status = "live" => thread'[t].owner = thread[t].owner
  BY <1>0, <1>1, <1>2, <1>3, TouchedFields
<1>5. ASSUME NEW b \in Actor, req'[b].pc \in Working
      PROVE  b # a /\ req'[b] = req[b] /\ req[b].pc \in Working /\ req[b].thread \in Thread
  <2>1. b # a
    BY <1>2, <1>5, RestingFields DEF Working
  <2>2. QED
    BY <1>0, <1>2, <1>5, <2>1, Known DEF Others, HandlerOK
<1>6. ASSUME NEW b \in Actor, NEW c \in Actor, b # c, req'[b].pc \in Working,
             thread'[req'[b].thread].status = "unused"
      PROVE  req'[c].thread # req'[b].thread
  <2>1. /\ req'[b] = req[b] /\ req[b].pc \in Working /\ req[b].thread \in Thread
        /\ req[b].thread # t /\ thread[req[b].thread].status = "unused"
    BY <1>2, <1>4, <1>5, <1>6
  <2>2. req[c].thread # req[b].thread
    BY <1>6, <2>1 DEF ClaimInv, Minted
  <2>3. CASE c = a
    BY <1>2, <2>1, <2>3, RestingFields, NamesAssumption
  <2>4. CASE c # a
    BY <1>2, <2>1, <2>2, <2>4 DEF Others
  <2>5. QED
    BY <2>3, <2>4
<1>7. ASSUME NEW b \in Actor, req'[b].pc \in Working, thread'[req'[b].thread].status = "live"
      PROVE  thread'[req'[b].thread].owner = req'[b].user
  <2>1. b # a /\ req'[b] = req[b] /\ req[b].pc \in Working /\ req[b].thread \in Thread
    BY <1>5, <1>7
  <2>2. CASE req[b].thread = t
    <3>1. thread[t].status # "unused"
      BY <1>1, <1>2, <2>1, <2>2 DEF ClaimInv, Minted, Working
    <3>2. thread[t].owner = req[b].user
      BY <1>3, <2>1, <2>2, <3>1 DEF ClaimInv, Claimant
    <3>3. QED
      BY <1>3, <1>4, <2>1, <2>2, <3>1, <3>2
  <2>3. CASE req[b].thread # t
    BY <1>2, <1>7, <2>1, <2>3 DEF ClaimInv, Claimant
  <2>4. QED
    BY <2>2, <2>3
<1>8. QED
  BY <1>6, <1>7 DEF Minted, Claimant

LEMMA CommitClaim ==
  ASSUME ClaimInv, NEW a \in Actor, CommitPurge(a)
  PROVE  Minted' /\ Claimant'
<1>0. TypeInv
  BY DEF ClaimInv, StoreInv, LockInv
<1>1. /\ Others(a) /\ req'[a] = Resting
      /\ \A t \in Thread : /\ t \in req[a].todo => thread'[t].status = "purged"
                           /\ t \notin req[a].todo => thread'[t] = thread[t]
  BY <1>0, CommitStep
<1>2. ASSUME NEW b \in Actor, req'[b].pc \in Working
      PROVE  /\ b # a /\ req'[b] = req[b] /\ req[b].thread \in Thread
             /\ \/ thread'[req[b].thread].status = "purged"
                \/ thread'[req[b].thread] = thread[req[b].thread]
  <2>1. b # a
    BY <1>1, <1>2, RestingFields DEF Working
  <2>2. req'[b] = req[b] /\ req[b].thread \in Thread
    BY <1>0, <1>1, <1>2, <2>1, Known DEF Others, HandlerOK
  <2>3. QED
    BY <1>1, <2>1, <2>2
<1>3. ASSUME NEW b \in Actor, NEW c \in Actor, b # c, req'[b].pc \in Working,
             thread'[req'[b].thread].status = "unused"
      PROVE  req'[c].thread # req'[b].thread
  <2>1. /\ req'[b] = req[b] /\ req[b].thread \in Thread
        /\ thread[req[b].thread].status = "unused"
    BY <1>2, <1>3
  <2>2. req[c].thread # req[b].thread
    BY <1>3, <2>1 DEF ClaimInv, Minted
  <2>3. QED
    BY <1>1, <2>1, <2>2, RestingFields, NamesAssumption DEF Others
<1>4. Claimant'
  BY <1>2 DEF ClaimInv, Claimant
<1>5. QED
  BY <1>3, <1>4 DEF Minted

LEMMA ExpireClaim ==
  ASSUME ClaimInv, NEW t \in Thread, Expire(t)
  PROVE  Minted' /\ Claimant'
<1>0. TypeInv
  BY DEF ClaimInv, StoreInv, LockInv
<1>1. /\ req' = req
      /\ \A s \in Thread : /\ thread'[s].status = thread[s].status
                           /\ thread'[s].owner = thread[s].owner
  BY <1>0, ExpireStep
<1>2. \A b \in Actor : req[b].pc \in Working => req[b].thread \in Thread
  BY <1>0, Known DEF HandlerOK
<1>3. QED
  BY <1>1, <1>2 DEF ClaimInv, Minted, Claimant

LEMMA NextClaim ==
  ASSUME ClaimInv, [Next]_vars
  PROVE  ClaimInv'
<1>1. StoreInv' /\ TypeInv
  BY NextStore DEF ClaimInv, StoreInv, LockInv
<1>2. Minted' /\ Claimant'
  BY <1>1, CalmCases, CalmClaim, AdmitClaim, ReadClaim, AnswerClaim, CommitClaim, ExpireClaim
<1>3. QED
  BY <1>1, <1>2 DEF ClaimInv
--------------------------------------------------------------------------------
(* Whose turns a history holds. *)

StoredOwned ==
  \A t \in Thread : \A n \in checkpoint[t] :
    n \in 1 .. Len(asked) /\ asked[n] = thread[t].owner
LoadedOwned ==
  \A a \in Actor : \A n \in req[a].history :
    n \in 1 .. Len(asked) /\ asked[n] = req[a].user

OwnInv == ClaimInv /\ StoredOwned /\ LoadedOwned

LEMMA CalmOwn ==
  ASSUME OwnInv, TypeInv', Calm
  PROVE  StoredOwned' /\ LoadedOwned'
<1>1. StoredOwned'
  BY DEF OwnInv, StoredOwned, Calm
<1>2. ASSUME NEW b \in Actor, NEW n \in req'[b].history
      PROVE  n \in 1 .. Len(asked') /\ asked'[n] = req'[b].user
  <2>1. CASE Going(b)
    BY <1>2, <2>1 DEF OwnInv, LoadedOwned, Calm, Going
  <2>2. CASE Aside(b)
    <3>1. (HandlerOK(req[b]))'
      BY DEF TypeInv
    <3>2. QED
      BY <1>2, <2>2, <3>1 DEF Aside, HandlerOK, Working
  <2>3. QED
    BY <2>1, <2>2 DEF Calm
<1>3. QED
  BY <1>1, <1>2 DEF LoadedOwned

LEMMA AdmitOwn ==
  ASSUME OwnInv, NEW a \in Actor, Admit(a)
  PROVE  StoredOwned' /\ LoadedOwned'
<1>0. TypeInv
  BY DEF OwnInv, ClaimInv, StoreInv, LockInv
<1>1. /\ Others(a) /\ UNCHANGED <<thread, checkpoint>> /\ req'[a].history = {}
      /\ Len(asked') = Len(asked) + 1 /\ Len(asked) \in Nat
      /\ \A n \in 1 .. Len(asked) : asked'[n] = asked[n]
  BY <1>0, AdmitStep, Known DEF conversations
<1>2. \A n \in 1 .. Len(asked) : n \in 1 .. Len(asked') /\ asked'[n] = asked[n]
  BY <1>1
<1>3. StoredOwned'
  BY <1>1, <1>2 DEF OwnInv, StoredOwned
<1>4. LoadedOwned'
  BY <1>1, <1>2 DEF OwnInv, LoadedOwned, Others
<1>5. QED
  BY <1>3, <1>4

\* A checkpoint a turn finds is of a live thread, which is its user's.
LEMMA ReadOwn ==
  ASSUME OwnInv, NEW a \in Actor, Read(a)
  PROVE  StoredOwned' /\ LoadedOwned'
<1>0. TypeInv
  BY DEF OwnInv, ClaimInv, StoreInv, LockInv
<1>1. /\ Others(a) /\ UNCHANGED <<thread, checkpoint, asked>> /\ req[a].thread \in Thread
      /\ req[a].pc = "read" /\ req'[a].user = req[a].user
      /\ req'[a].history = checkpoint[req[a].thread]
  BY <1>0, ReadStep DEF conversations
<1>2. ASSUME NEW n \in checkpoint[req[a].thread]
      PROVE  n \in 1 .. Len(asked) /\ asked[n] = req[a].user
  <2>1. thread[req[a].thread].status = "live"
    BY <1>1, <1>2 DEF OwnInv, ClaimInv, StoreInv, NoResurrection, Live
  <2>2. thread[req[a].thread].owner = req[a].user
    BY <1>1, <2>1 DEF OwnInv, ClaimInv, Claimant, Working
  <2>3. QED
    BY <1>1, <1>2, <2>2 DEF OwnInv, StoredOwned
<1>3. StoredOwned'
  BY <1>1 DEF OwnInv, StoredOwned
<1>4. LoadedOwned'
  BY <1>1, <1>2 DEF OwnInv, LoadedOwned, Others
<1>5. QED
  BY <1>3, <1>4

LEMMA AnswerOwn ==
  ASSUME OwnInv, NEW a \in Actor, Answer(a)
  PROVE  StoredOwned' /\ LoadedOwned'
<1>0. TypeInv
  BY DEF OwnInv, ClaimInv, StoreInv, LockInv
<1>1. PICK t : t = req[a].thread
  OBVIOUS
<1>2. /\ Others(a) /\ req[a].pc = "model" /\ req'[a] = Resting /\ t \in Thread
      /\ req[a].user \in User /\ thread'[t] = Touched(a) /\ asked' = asked
      /\ checkpoint'[t] = NewHistory(a)
      /\ \A s \in Thread \ {t} : thread'[s] = thread[s] /\ checkpoint'[s] = checkpoint[s]
  BY <1>0, <1>1, AnswerStep
<1>3. thread'[t].owner = req[a].user
  <2>1. thread[t].status \in {"unused", "live"}
    BY <1>0, <1>1, <1>2, Known DEF OwnInv, ClaimInv, StoreInv, Row
  <2>2. thread[t].status = "live" => thread[t].owner = req[a].user
    BY <1>1, <1>2 DEF OwnInv, ClaimInv, Claimant, Working
  <2>3. QED
    BY <1>0, <1>1, <1>2, <2>1, <2>2, TouchedFields
<1>4. \A n \in NewHistory(a) : n \in 1 .. Len(asked) /\ asked[n] = req[a].user
  <2>1. req[a].turn \in 1 .. Len(asked) /\ asked[req[a].turn] = req[a].user
    BY <1>0, <1>2, Known DEF HandlerOK, Working
  <2>2. QED
    BY <2>1 DEF NewHistory, OwnInv, LoadedOwned
<1>5. StoredOwned'
  BY <1>2, <1>3, <1>4 DEF OwnInv, StoredOwned
<1>6. LoadedOwned'
  BY <1>2, RestingFields DEF OwnInv, LoadedOwned, Others
<1>7. QED
  BY <1>5, <1>6

LEMMA CommitOwn ==
  ASSUME OwnInv, NEW a \in Actor, CommitPurge(a)
  PROVE  StoredOwned' /\ LoadedOwned'
<1>0. TypeInv
  BY DEF OwnInv, ClaimInv, StoreInv, LockInv
<1>1. /\ Others(a) /\ req'[a] = Resting /\ asked' = asked
      /\ \A t \in Thread :
           /\ t \in req[a].todo => checkpoint'[t] = {}
           /\ t \notin req[a].todo => thread'[t] = thread[t] /\ checkpoint'[t] = checkpoint[t]
  BY <1>0, CommitStep
<1>2. StoredOwned'
  BY <1>1 DEF OwnInv, StoredOwned
<1>3. LoadedOwned'
  BY <1>1, RestingFields DEF OwnInv, LoadedOwned, Others
<1>4. QED
  BY <1>2, <1>3

LEMMA ExpireOwn ==
  ASSUME OwnInv, NEW t \in Thread, Expire(t)
  PROVE  StoredOwned' /\ LoadedOwned'
<1>0. TypeInv
  BY DEF OwnInv, ClaimInv, StoreInv, LockInv
<1>1. /\ UNCHANGED <<checkpoint, req, asked>>
      /\ \A s \in Thread : thread'[s].owner = thread[s].owner
  BY <1>0, ExpireStep
<1>2. QED
  BY <1>1 DEF OwnInv, StoredOwned, LoadedOwned

LEMMA NextOwn ==
  ASSUME OwnInv, [Next]_vars
  PROVE  OwnInv'
<1>1. ClaimInv' /\ TypeInv /\ TypeInv'
  BY NextClaim, NextType DEF OwnInv, ClaimInv, StoreInv, LockInv
<1>2. StoredOwned' /\ LoadedOwned'
  BY <1>1, CalmCases, CalmOwn, AdmitOwn, ReadOwn, AnswerOwn, CommitOwn, ExpireOwn
<1>3. QED
  BY <1>1, <1>2 DEF OwnInv

\* A conversation's history, stored or loaded into a turn, only ever holds turns of
\* the thread's owner: a thread id of another user is not found, and the turn goes on
\* with a thread of its own that no other turn has.
THEOREM HistoriesOwned == Spec => []HistoryOwned
<1>1. Init => OwnInv
  <2> SUFFICES ASSUME Init PROVE OwnInv
    OBVIOUS
  <2>1. \A a \in Actor : req[a] = Resting
    BY DEF Init
  <2>2. StoreInv
    BY InitStore
  <2>3. Minted /\ Claimant /\ LoadedOwned
    BY <2>1, RestingFields DEF Minted, Claimant, LoadedOwned, Working
  <2>4. StoredOwned
    BY DEF Init, StoredOwned
  <2>5. QED
    BY <2>2, <2>3, <2>4 DEF OwnInv, ClaimInv
<1>2. OwnInv /\ [Next]_vars => OwnInv'
  BY NextOwn
<1>3. OwnInv => HistoryOwned
  BY DEF OwnInv, StoredOwned, LoadedOwned, HistoryOwned, Actor
<1>4. QED
  BY <1>1, <1>2, <1>3, PTL DEF Spec
--------------------------------------------------------------------------------
(* Turns that do not overlap. *)

RecordedKept ==
  \A t \in Thread : t \notin raced /\ thread[t].status # "purged" => recorded[t] = checkpoint[t]

\* Two turns past their reads of a thread have raced.
Apart ==
  \A a, b \in Actor :
    a # b /\ InTurn(a) /\ InTurn(b) /\ req[a].thread = req[b].thread => req[a].thread \in raced

\* What a turn read is still what is stored.
Current ==
  \A a \in Actor :
    /\ InTurn(a) /\ req[a].thread \notin raced
    /\ thread[req[a].thread].status # "purged"
    => req[a].history = checkpoint[req[a].thread]

SerialInv == StoreInv /\ RecordedKept /\ Apart /\ Current

LEMMA TurnKnown ==
  ASSUME TypeInv, NEW a \in Actor, InTurn(a)
  PROVE  a \in Request /\ req[a].pc \in Working /\ req[a].thread \in Thread
BY Known DEF TypeInv, InTurn, HandlerOK, Working

LEMMA CalmSerial ==
  ASSUME SerialInv, Calm
  PROVE  RecordedKept' /\ Apart' /\ Current'
<1>0. TypeInv
  BY DEF SerialInv, StoreInv, LockInv
<1>1. ASSUME NEW a \in Actor, InTurn(a)'
      PROVE  InTurn(a) /\ req'[a].thread = req[a].thread /\ req'[a].history = req[a].history
  BY <1>1 DEF Calm, Aside, Going, InTurn, Working
<1>2. RecordedKept'
  BY DEF SerialInv, RecordedKept, Calm
<1>3. Apart'
  BY <1>1 DEF SerialInv, Apart, Calm
<1>4. Current'
  BY <1>1 DEF SerialInv, Current, Calm
<1>5. QED
  BY <1>2, <1>3, <1>4

LEMMA AdmitSerial ==
  ASSUME SerialInv, NEW a \in Actor, Admit(a)
  PROVE  RecordedKept' /\ Apart' /\ Current'
<1>0. TypeInv
  BY DEF SerialInv, StoreInv, LockInv
<1>1. /\ Others(a) /\ UNCHANGED <<thread, checkpoint, recorded, raced>> /\ req'[a].pc = "read"
  BY <1>0, AdmitStep DEF conversations
<1>2. ASSUME NEW b \in Actor, InTurn(b)' PROVE InTurn(b) /\ req'[b] = req[b]
  BY <1>1, <1>2 DEF InTurn, Others
<1>3. RecordedKept'
  BY <1>1 DEF SerialInv, RecordedKept
<1>4. Apart'
  BY <1>1, <1>2 DEF SerialInv, Apart
<1>5. Current'
  BY <1>1, <1>2 DEF SerialInv, Current
<1>6. QED
  BY <1>3, <1>4, <1>5

LEMMA ReadSerial ==
  ASSUME SerialInv, NEW a \in Actor, Read(a)
  PROVE  RecordedKept' /\ Apart' /\ Current'
<1>0. TypeInv
  BY DEF SerialInv, StoreInv, LockInv
<1>1. PICK t : t = req[a].thread
  OBVIOUS
<1>2. /\ Others(a) /\ UNCHANGED <<thread, checkpoint, recorded>> /\ t \in Thread
      /\ req'[a].thread = t /\ req'[a].history = checkpoint[t]
      /\ raced' = raced \cup {s \in Thread : s = t /\
                     \E b \in Request \ {a} : InTurn(b) /\ req[b].thread = s}
  BY <1>0, <1>1, ReadStep DEF conversations
<1>3. raced \subseteq raced'
  BY <1>2
<1>4. ASSUME NEW b \in Actor, b # a, InTurn(b)'
      PROVE  /\ InTurn(b) /\ req'[b] = req[b]
             /\ req[b].thread = t => t \in raced'
  <2>1. InTurn(b) /\ req'[b] = req[b]
    BY <1>2, <1>4 DEF InTurn, Others
  <2>2. b \in Request \ {a}
    BY <1>0, <1>4, <2>1, TurnKnown
  <2>3. QED
    BY <1>2, <2>1, <2>2
<1>5. RecordedKept'
  BY <1>2, <1>3 DEF SerialInv, RecordedKept
<1>6. Apart'
  BY <1>2, <1>3, <1>4 DEF SerialInv, Apart
<1>7. Current'
  BY <1>2, <1>3, <1>4 DEF SerialInv, Current
<1>8. QED
  BY <1>5, <1>6, <1>7

\* What an answer overwrites is what its turn had read, or the turns had raced.
LEMMA AnswerSerial ==
  ASSUME SerialInv, NEW a \in Actor, Answer(a)
  PROVE  RecordedKept' /\ Apart' /\ Current'
<1>0. TypeInv
  BY DEF SerialInv, StoreInv, LockInv
<1>1. PICK t : t = req[a].thread
  OBVIOUS
<1>2. /\ Others(a) /\ req[a].pc = "model" /\ req'[a] = Resting /\ t \in Thread
      /\ raced' = raced /\ checkpoint'[t] = NewHistory(a)
      /\ recorded'[t] = recorded[t] \cup {req[a].turn}
      /\ \A s \in Thread \ {t} : /\ thread'[s] = thread[s] /\ checkpoint'[s] = checkpoint[s]
                                 /\ recorded'[s] = recorded[s]
  BY <1>0, <1>1, AnswerStep
<1>3. thread[t].status # "purged" /\ InTurn(a)
  BY <1>1, <1>2 DEF SerialInv, StoreInv, InTurn
<1>4. t \notin raced => recorded'[t] = checkpoint'[t]
  BY <1>1, <1>2, <1>3 DEF SerialInv, RecordedKept, Current, NewHistory
<1>5. ASSUME NEW b \in Actor, InTurn(b)'
      PROVE  /\ b # a /\ InTurn(b) /\ req'[b] = req[b] /\ req[b].thread \in Thread
             /\ req[b].thread = t => t \in raced
  <2>1. b # a
    BY <1>2, <1>5, RestingFields DEF InTurn
  <2>2. InTurn(b) /\ req'[b] = req[b]
    BY <1>2, <1>5, <2>1 DEF InTurn, Others
  <2>3. QED
    BY <1>0, <1>1, <1>3, <2>1, <2>2, TurnKnown DEF SerialInv, Apart
<1>6. RecordedKept'
  BY <1>2, <1>4 DEF SerialInv, RecordedKept
<1>7. Apart'
  BY <1>2, <1>5 DEF SerialInv, Apart
<1>8. Current'
  BY <1>2, <1>5 DEF SerialInv, Current
<1>9. QED
  BY <1>6, <1>7, <1>8

LEMMA CommitSerial ==
  ASSUME SerialInv, NEW a \in Actor, CommitPurge(a)
  PROVE  RecordedKept' /\ Apart' /\ Current'
<1>0. TypeInv
  BY DEF SerialInv, StoreInv, LockInv
<1>1. /\ Others(a) /\ req'[a] = Resting /\ UNCHANGED <<recorded, raced>>
      /\ \A t \in Thread :
           /\ t \in req[a].todo => thread'[t].status = "purged"
           /\ t \notin req[a].todo => thread'[t] = thread[t] /\ checkpoint'[t] = checkpoint[t]
  BY <1>0, CommitStep
<1>2. ASSUME NEW b \in Actor, InTurn(b)'
      PROVE  InTurn(b) /\ req'[b] = req[b] /\ req[b].thread \in Thread
  BY <1>0, <1>1, <1>2, RestingFields, TurnKnown DEF InTurn, Others
<1>3. RecordedKept'
  BY <1>1 DEF SerialInv, RecordedKept
<1>4. Apart'
  BY <1>1, <1>2 DEF SerialInv, Apart
<1>5. Current'
  BY <1>1, <1>2 DEF SerialInv, Current
<1>6. QED
  BY <1>3, <1>4, <1>5

LEMMA ExpireSerial ==
  ASSUME SerialInv, NEW t \in Thread, Expire(t)
  PROVE  RecordedKept' /\ Apart' /\ Current'
<1>0. TypeInv
  BY DEF SerialInv, StoreInv, LockInv
<1>1. /\ UNCHANGED <<checkpoint, recorded, req, raced>>
      /\ \A s \in Thread : thread'[s].status = thread[s].status
  BY <1>0, ExpireStep
<1>2. \A a \in Actor : InTurn(a) => req[a].thread \in Thread
  BY <1>0, TurnKnown
<1>3. RecordedKept' /\ Apart'
  BY <1>1 DEF SerialInv, RecordedKept, Apart, InTurn
<1>4. Current'
  BY <1>1, <1>2 DEF SerialInv, Current, InTurn
<1>5. QED
  BY <1>3, <1>4

LEMMA NextSerial ==
  ASSUME SerialInv, [Next]_vars
  PROVE  SerialInv'
<1>1. StoreInv' /\ TypeInv
  BY NextStore DEF SerialInv, StoreInv, LockInv
<1>2. RecordedKept' /\ Apart' /\ Current'
  BY <1>1, CalmCases, CalmSerial, AdmitSerial, ReadSerial, AnswerSerial, CommitSerial,
     ExpireSerial
<1>3. QED
  BY <1>1, <1>2 DEF SerialInv

\* A conversation whose turns never overlapped remembers every turn it answered:
\* what a turn loaded is still stored when its answer overwrites it.
THEOREM TurnsRemembered == Spec => []SerialTurnsKept
<1>1. Init => SerialInv
  <2> SUFFICES ASSUME Init PROVE SerialInv
    OBVIOUS
  <2>1. \A a \in Actor : req[a] = Resting
    BY DEF Init
  <2>2. Apart /\ Current
    BY <2>1, RestingFields DEF Apart, Current, InTurn
  <2>3. RecordedKept
    BY DEF Init, RecordedKept
  <2>4. QED
    BY <2>2, <2>3, InitStore DEF SerialInv
<1>2. SerialInv /\ [Next]_vars => SerialInv'
  BY NextSerial
<1>3. SerialInv => SerialTurnsKept
  BY DEF SerialInv, RecordedKept, SerialTurnsKept, Live
<1>4. QED
  BY <1>1, <1>2, <1>3, PTL DEF Spec
================================================================================
