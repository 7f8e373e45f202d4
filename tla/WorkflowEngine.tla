----------------------------- MODULE WorkflowEngine ----------------------------
(***************************************************************************)
(* The workflow engine: a validated definition compiled to a graph, and    *)
(* the turns of one conversation that walk it.  What a model or a tool     *)
(* returns is free; the graph decides which node runs next and what each   *)
(* node leaves in the state the conversation's checkpoint keeps.           *)
(*                                                                         *)
(* A message, a draft and a review carry the turn and the round that made  *)
(* them, in place of their text.  A turn that fails rolls its transaction  *)
(* back, and with it every state it put (see ChatTurn).  Between two turns *)
(* another version of the workflow may have been published (see            *)
(* WorkflowStore), so each turn may run another definition.  Turns that    *)
(* overlap walk copies of the state: one at a time is enough here.         *)
(***************************************************************************)
EXTENDS Naturals, Sequences, FiniteSets

CONSTANTS
  Step,          \* step names
  Definitions,   \* the definitions published while the conversation lasts
  MaxRounds,     \* _MAX_TOOL_CALL_ROUNDS
  WorkerRounds,  \* _WORKER_MAX_TOOL_CALL_ROUNDS
  Ceiling,       \* REVIEW_LOOP_MAX_ITERATIONS_CEILING
  StepLimit,     \* nodes a turn may run before LangGraph gives up on it
  MaxTurns       \* bound: turns that end

None == "none"

StepDef ==
  [type : {"agent"}, tools : BOOLEAN, task : BOOLEAN, next : Step \cup {None}]
    \cup [type : {"route"}, branches : Seq(Step)]
    \cup [type : {"loop"}, tools : BOOLEAN, maxIterations : Nat]

ASSUME NamesAssumption == None \notin Step
ASSUME BoundsAssumption ==
  MaxRounds \in Nat \ {0} /\ {WorkerRounds, Ceiling, StepLimit, MaxTurns} \subseteq Nat

VARIABLES
  definition,  \* the one the turn runs
  node,        \* the node to run next: <<step, role>>
  state,       \* WorkflowState as the turn has it
  saved,       \* WorkflowState in the committed checkpoint
  turn,        \* turns begun, of those that ended or still run
  taken        \* nodes the turn has run

vars == <<definition, node, state, saved, turn, taken>>

Message == [kind : {"human", "text", "call", "tool"}, turn : Nat, round : Nat]
Review == [turn : Nat, round : Nat, approved : BOOLEAN, issues : BOOLEAN]
State ==
  [messages : Seq(Message), task : Nat, draft : [turn : Nat, round : Nat],
   review : Review, exchange : Seq(Message), rounds : [Step -> Nat]]

Empty ==
  [messages |-> <<>>, task |-> 0, draft |-> [turn |-> 0, round |-> 0],
   review |-> [turn |-> 0, round |-> 0, approved |-> FALSE, issues |-> FALSE],
   exchange |-> <<>>, rounds |-> [s \in Step |-> 0]]

Rest == <<None, "rest">>
End == <<None, "end">>
Role == {"agent", "tools", "route", "worker", "reviewer", "finalize"}
--------------------------------------------------------------------------------
(* Definitions: [entry |-> a step, steps |-> a function from names to StepDefs]. *)

Targets(d, s) ==
  CASE d.steps[s].type = "agent" -> {d.steps[s].next} \ {None}
    [] d.steps[s].type = "route" -> {d.steps[s].branches[i] : i \in DOMAIN d.steps[s].branches}
    [] d.steps[s].type = "loop"  -> {}

ReachableFrom(d, from) ==
  {s \in DOMAIN d.steps :
     \A closed \in SUBSET DOMAIN d.steps :
       from \subseteq closed /\ (\A u \in closed : Targets(d, u) \subseteq closed) => s \in closed}

\* _validate_definition.
Valid(d) ==
  /\ d.entry \in DOMAIN d.steps
  /\ \A s \in DOMAIN d.steps :
       /\ Targets(d, s) \subseteq DOMAIN d.steps
       /\ d.steps[s].type = "loop" => d.steps[s].maxIterations <= Ceiling
  /\ ReachableFrom(d, {d.entry}) = DOMAIN d.steps

\* What the compiler refuses although it is valid.
Compiles(d) ==
  \A s \in DOMAIN d.steps :
    /\ d.steps[s].type = "loop" => d.steps[s].maxIterations >= 1
    /\ d.steps[s].type = "route" => d.steps[s].branches # <<>>

Acyclic(d) == \A s \in DOMAIN d.steps : s \notin ReachableFrom(d, Targets(d, s))

ASSUME DefinitionsAssumption ==
  \A d \in Definitions : /\ DOMAIN d.steps \subseteq Step /\ IsFiniteSet(DOMAIN d.steps)
                         /\ \A s \in DOMAIN d.steps : d.steps[s] \in StepDef
                         /\ Valid(d)

Def(s) == definition.steps[s]

\* Mutant of EntryNode: an edge to a review loop keeps the step's own name.
EntryNodeRaw(d, s) == <<s, d.steps[s].type>>

\* entry_nodes: a review loop is entered at its worker.
EntryNode(d, s) == IF d.steps[s].type = "loop" THEN <<s, "worker">> ELSE <<s, d.steps[s].type>>
NextNode(s) == IF Def(s).next = None THEN End ELSE EntryNode(definition, Def(s).next)

Init ==
  /\ definition \in Definitions
  /\ node = Rest
  /\ state = Empty /\ saved = Empty
  /\ turn = 0 /\ taken = 0
--------------------------------------------------------------------------------
(* A turn. *)

New(kind, round) == [kind |-> kind, turn |-> turn, round |-> round]

\* Mutant of Input: the step outputs of the last turn are kept.
InputKept == [saved EXCEPT !.messages = Append(@, [kind |-> "human", turn |-> turn + 1, round |-> 0])]

\* run_chat_turn's input, merged into the stored state.
Input ==
  [saved EXCEPT !.messages = Append(@, [kind |-> "human", turn |-> turn + 1, round |-> 0]),
                !.rounds = Empty.rounds]

BeginTurn ==
  /\ node = Rest
  /\ turn < MaxTurns
  /\ definition' \in {d \in Definitions : Compiles(d)}
  /\ turn' = turn + 1
  /\ taken' = 0
  /\ state' = Input
  /\ node' = EntryNode(definition', definition'.entry)
  /\ UNCHANGED saved

Run(update, next) ==
  /\ taken < StepLimit
  /\ taken' = taken + 1
  /\ state' = update
  /\ node' = next
  /\ UNCHANGED <<definition, saved, turn>>

IsCall(m) == m.kind = "call"

\* Mutant of CallRounds: no call is ever counted.
CallRoundsNone(messages) == 0

\* The router counts over the messages of the whole conversation.
CallRounds(messages) == Cardinality({i \in DOMAIN messages : IsCall(messages[i])})

AfterAgent(s, messages) ==
  IF /\ Def(s).tools
     /\ IsCall(messages[Len(messages)])
     /\ CallRounds(messages) < MaxRounds
  THEN <<s, "tools">> ELSE NextNode(s)

\* With output_field the response goes to the task, even a tool call.
Agent(s) ==
  /\ node = <<s, "agent">>
  /\ \E kind \in {"text"} \cup (IF Def(s).tools THEN {"call"} ELSE {}) :
       LET update == IF Def(s).task THEN [state EXCEPT !.task = turn]
                     ELSE [state EXCEPT !.messages = Append(@, New(kind, 0))]
       IN  Run(update, AfterAgent(s, update.messages))

Tools(s) ==
  /\ node = <<s, "tools">>
  /\ Run([state EXCEPT !.messages = Append(@, New("tool", 0))], <<s, "agent">>)

\* choose_route_branch returns a declared branch, and each of them for some answer.
Route(s) ==
  /\ node = <<s, "route">>
  /\ \E i \in DOMAIN Def(s).branches :
       Run([state EXCEPT !.messages = Append(@, New("text", 0))],
           EntryNode(definition, Def(s).branches[i]))

Round(s) == state.rounds[s] + 1

\* Mutant of Exchange: the calls of the former rounds are kept.
ExchangeGrown(s, n) == state.exchange \o
  [i \in 1 .. 2 * n |-> New(IF i % 2 = 1 THEN "call" ELSE "tool", Round(s))]

\* The tool calls of one draft and their results.
Exchange(s, n) == [i \in 1 .. 2 * n |-> New(IF i % 2 = 1 THEN "call" ELSE "tool", Round(s))]

Worker(s) ==
  /\ node = <<s, "worker">>
  /\ \E n \in 0 .. IF Def(s).tools THEN WorkerRounds ELSE 0 :
       Run([state EXCEPT !.draft = [turn |-> turn, round |-> Round(s)],
                         !.exchange = Exchange(s, n)],
           <<s, "reviewer">>)

\* Mutant of AfterReview: one round too many.
AfterReviewLate(s, update) ==
  IF update.review.approved \/ update.rounds[s] > Def(s).maxIterations
  THEN <<s, "finalize">> ELSE <<s, "worker">>

AfterReview(s, update) ==
  IF update.review.approved \/ update.rounds[s] >= Def(s).maxIterations
  THEN <<s, "finalize">> ELSE <<s, "worker">>

\* A verdict with or without issues; one that cannot be parsed is a rejection with one.
Reviewer(s) ==
  /\ node = <<s, "reviewer">>
  /\ \E approved, issues \in BOOLEAN :
       LET update == [state EXCEPT
             !.review = [turn |-> turn, round |-> Round(s), approved |-> approved, issues |-> issues],
             !.rounds[s] = @ + 1]
       IN  Run(update, AfterReview(s, update))

Finalize(s) ==
  /\ node = <<s, "finalize">>
  /\ Run([state EXCEPT !.messages = @ \o state.exchange \o <<New("text", state.draft.round)>>], End)

\* The reply is the last message; the turn's transaction commits the state.
EndTurn ==
  /\ node = End
  /\ saved' = state
  /\ node' = Rest
  /\ UNCHANGED <<definition, state, turn, taken>>

\* Mutant of FailTurn: what the turn put until then is committed.
FailTurnCommitted ==
  /\ node # Rest
  /\ saved' = state
  /\ node' = Rest
  /\ UNCHANGED <<definition, state, turn, taken>>

\* A model, a tool, the guardrail or the commit fails, or the graph has run StepLimit nodes.
FailTurn ==
  /\ node # Rest
  /\ state' = saved
  /\ turn' = turn - 1
  /\ node' = Rest
  /\ taken' = 0
  /\ UNCHANGED <<definition, saved>>

RunNode ==
  \E s \in DOMAIN definition.steps :
    Agent(s) \/ Tools(s) \/ Route(s) \/ Worker(s) \/ Reviewer(s) \/ Finalize(s)

Next == BeginTurn \/ RunNode \/ EndTurn \/ FailTurn

Spec == Init /\ [][Next]_vars

--------------------------------------------------------------------------------
(* Properties. *)

\* Every variable keeps its type.
TypeOK ==
  /\ definition \in Definitions
  /\ node \in ((DOMAIN definition.steps) \X Role) \cup {Rest, End}
  /\ state \in State /\ saved \in State
  /\ turn \in 0 .. MaxTurns
  /\ taken \in 0 .. StepLimit

\* The draft a review loop delivers is the one its reviewer saw last, in this turn, and
\* was approved or is the last of the rounds the loop allows.
DeliveredReviewed ==
  \A s \in DOMAIN definition.steps :
    node = <<s, "finalize">> =>
      /\ state.draft.turn = turn /\ state.review.turn = turn
      /\ state.draft.round = state.review.round
      /\ state.review.approved \/ state.review.round = Def(s).maxIterations

\* What a loop leaves in the conversation, the draft and the tool calls that ground
\* it, all comes from one round of the turn; a rejected draft leaves nothing.
OneDraftVisible ==
  \A i, j \in DOMAIN state.messages :
    LET a == state.messages[i]  b == state.messages[j]
    IN  a.turn = b.turn /\ a.round # 0 /\ b.round # 0 => a.round = b.round

Unanswered(messages) ==
  {i \in DOMAIN messages :
     IsCall(messages[i]) /\ (i = Len(messages) \/ messages[i + 1].kind # "tool")}

\* A stored conversation has a tool call without its result only where the cap on
\* tool rounds cut an agent step off: a turn that fails leaves no such call behind.
CallsAnswered ==
  \A i \in Unanswered(saved.messages) :
    Cardinality({j \in 1 .. i : IsCall(saved.messages[j])}) >= MaxRounds

\* The nodes the caps let step s run.
Budget(d, s) ==
  CASE d.steps[s].type = "agent" ->
         IF d.steps[s].tools /\ ~ d.steps[s].task THEN 2 * MaxRounds - 1 ELSE 1
    [] d.steps[s].type = "route" -> 1
    [] d.steps[s].type = "loop"  -> 2 * d.steps[s].maxIterations + 1

\* Each of them once, for the steps of a set.
NodeRuns(d, steps) == UNION {{s} \X (1 .. Budget(d, s)) : s \in steps}

\* A turn of a workflow without cycles runs no more nodes than its caps allow, whatever
\* the models answer and however long the conversation is: it ends by itself, before
\* the graph's own limit.
TurnBounded ==
  Acyclic(definition) => taken <= Cardinality(NodeRuns(definition, DOMAIN definition.steps))

\* compiler.py: the cap is on the round-trips one agent step can make per turn, so a call
\* left unanswered was the last of MaxRounds calls of its own turn.
RoundsPerTurn ==
  \A i \in Unanswered(saved.messages) :
    Cardinality({j \in 1 .. i : /\ IsCall(saved.messages[j])
                                /\ saved.messages[j].turn = saved.messages[i].turn}) >= MaxRounds
================================================================================
