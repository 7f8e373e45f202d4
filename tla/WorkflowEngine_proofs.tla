------------------------- MODULE WorkflowEngine_proofs -------------------------
(***************************************************************************)
(* Theorems about WorkflowEngine for any set of valid definitions, any     *)
(* caps and conversations of any length.                                   *)
(***************************************************************************)
EXTENDS WorkflowEngine, FiniteSetTheorems, TLAPS

\* What validation gives the engine about a step.
LEMMA StepOfDefinition ==
  ASSUME NEW d \in Definitions, NEW s \in DOMAIN d.steps
  PROVE  /\ s \in Step /\ s # None
         /\ d.steps[s] \in StepDef
         /\ Targets(d, s) \subseteq DOMAIN d.steps
         /\ d.entry \in DOMAIN d.steps
BY DefinitionsAssumption, NamesAssumption DEF Valid

\* The fields of a step, by its type.
LEMMA StepFields ==
  ASSUME NEW x \in StepDef
  PROVE  /\ x.type \in {"agent", "route", "loop"}
         /\ x.type = "agent" => x.tools \in BOOLEAN /\ x.task \in BOOLEAN
         /\ x.type = "loop" => x.tools \in BOOLEAN /\ x.maxIterations \in Nat
BY DEF StepDef

\* What holds while s is at the node to run next: it is a step of the node's type, no
\* review round has been counted before its loop is entered, and within the loop the
\* rounds, the draft and the review are those of this turn.
NodeInv(s) ==
  /\ node \in {<<s, "agent">>, <<s, "tools">>} =>
       Def(s).type = "agent" /\ state.rounds = Empty.rounds
  /\ node = <<s, "route">> => Def(s).type = "route" /\ state.rounds = Empty.rounds
  /\ node \in {<<s, "worker">>, <<s, "reviewer">>} =>
       Def(s).type = "loop" /\ state.rounds[s] < Def(s).maxIterations
  /\ node = <<s, "reviewer">> => state.draft = [turn |-> turn, round |-> state.rounds[s] + 1]
  /\ node = <<s, "finalize">> =>
       /\ Def(s).type = "loop"
       /\ state.draft.turn = turn /\ state.review.turn = turn
       /\ state.draft.round = state.review.round
       /\ state.review.approved \/ state.review.round = Def(s).maxIterations

IInv ==
  /\ TypeOK
  /\ node # Rest => turn >= 1 /\ Compiles(definition)
  /\ \A s \in DOMAIN definition.steps : NodeInv(s)

\* The state of a new conversation is well formed.
LEMMA EmptyType == Empty \in State
BY DEF Empty, State, Message, Review

LEMMA InitIInv == Init => IInv
<1> SUFFICES ASSUME Init PROVE IInv
  OBVIOUS
<1>1. TypeOK
  BY EmptyType, BoundsAssumption DEF Init, TypeOK
<1>2. ASSUME NEW s \in DOMAIN definition.steps PROVE NodeInv(s)
  BY DEF Init, Rest, NodeInv
<1>3. QED
  BY <1>1, <1>2 DEF IInv, Init

\* Entering a step with no review round counted.
LEMMA EnterStep ==
  ASSUME definition' \in Definitions, Compiles(definition'),
         NEW t \in DOMAIN definition'.steps, node' = EntryNode(definition', t),
         state' \in State, state'.rounds = Empty.rounds
  PROVE  /\ node' \in ((DOMAIN definition'.steps) \X Role)
         /\ \A s \in DOMAIN definition'.steps : NodeInv(s)'
<1>1. t \in Step /\ definition'.steps[t] \in StepDef
  BY StepOfDefinition
<1>2. CASE definition'.steps[t].type = "loop"
  <2>1. node' = <<t, "worker">>
    BY <1>2 DEF EntryNode
  <2>2. definition'.steps[t].maxIterations \in Nat /\ definition'.steps[t].maxIterations >= 1
    BY <1>1, <1>2, StepFields DEF Compiles
  <2>3. state'.rounds[t] = 0
    BY <1>1 DEF Empty
  <2>4. QED
    BY <1>2, <2>1, <2>2, <2>3 DEF NodeInv, Def, Role
<1>3. CASE definition'.steps[t].type # "loop"
  <2>1. node' = <<t, definition'.steps[t].type>>
    BY <1>3 DEF EntryNode
  <2>2. definition'.steps[t].type \in {"agent", "route"}
    BY <1>1, <1>3, StepFields
  <2>3. QED
    BY <2>1, <2>2 DEF NodeInv, Def, Role
<1>4. QED BY <1>2, <1>3

\* At rest or at the end nothing is asked of the state.
LEMMA LeaveSteps ==
  ASSUME node' \in {Rest, End}, definition' \in Definitions
  PROVE  \A s \in DOMAIN definition'.steps : NodeInv(s)'
<1> SUFFICES ASSUME NEW s \in DOMAIN definition'.steps PROVE NodeInv(s)'
  OBVIOUS
<1>1. QED
  BY DEF NodeInv, Rest, End

\* Leaving an agent step for the next one.
LEMMA LeaveAgent ==
  ASSUME IInv, NEW s \in DOMAIN definition.steps, node = <<s, "agent">>,
         definition' = definition, node' = NextNode(s),
         state' \in State, state'.rounds = Empty.rounds
  PROVE  /\ node' \in ((DOMAIN definition'.steps) \X Role) \cup {End}
         /\ \A u \in DOMAIN definition'.steps : NodeInv(u)'
<1>1. definition \in Definitions /\ Compiles(definition) /\ Def(s).type = "agent"
  <2>1. node # Rest
    BY DEF Rest
  <2>2. QED BY <2>1 DEF IInv, TypeOK, NodeInv
<1>2. CASE Def(s).next = None
  BY <1>1, <1>2, LeaveSteps DEF NextNode
<1>3. CASE Def(s).next # None
  <2>1. Def(s).next \in DOMAIN definition'.steps
    BY <1>1, <1>3, StepOfDefinition DEF Targets, Def
  <2>2. node' = EntryNode(definition', Def(s).next)
    BY <1>3 DEF NextNode
  <2>3. QED
    BY <1>1, <2>1, <2>2, EnterStep
<1>4. QED BY <1>2, <1>3

\* A message of the running turn.
LEMMA NewType ==
  ASSUME turn \in Nat, NEW kind \in {"human", "text", "call", "tool"}, NEW round \in Nat
  PROVE  New(kind, round) \in Message
BY DEF New, Message

\* Appending a message to the conversation.
LEMMA AppendType ==
  ASSUME NEW x \in State, NEW m \in Message
  PROVE  /\ [x EXCEPT !.messages = Append(@, m)] \in State
         /\ [x EXCEPT !.messages = Append(@, m)].rounds = x.rounds
<1>1. x.messages \in Seq(Message)
  BY DEF State
<1>2. Append(x.messages, m) \in Seq(Message)
  BY <1>1
<1>3. QED BY <1>2 DEF State

LEMMA BeginKeeps == IInv /\ BeginTurn => IInv'
<1> SUFFICES ASSUME IInv, BeginTurn PROVE IInv'
  OBVIOUS
<1>1. definition' \in Definitions /\ Compiles(definition') /\ definition'.entry \in DOMAIN definition'.steps
  BY DefinitionsAssumption DEF BeginTurn, Valid
<1>2. turn' \in 1 .. MaxTurns /\ taken' \in 0 .. StepLimit
  BY BoundsAssumption DEF IInv, TypeOK, BeginTurn
<1>3. state' \in State /\ state'.rounds = Empty.rounds
  <2> DEFINE human == [kind |-> "human", turn |-> turn + 1, round |-> 0]
             x == [saved EXCEPT !.messages = Append(@, human)]
  <2>1. human \in Message
    BY DEF Message, IInv, TypeOK
  <2>2. x \in State
    BY <2>1, AppendType DEF IInv, TypeOK
  <2>3. Empty.rounds \in [Step -> Nat]
    BY DEF Empty
  <2>4. state' = [x EXCEPT !.rounds = Empty.rounds]
    BY DEF BeginTurn, Input
  <2> HIDE DEF x
  <2>5. QED
    BY <2>2, <2>3, <2>4 DEF State
<1>4. node' = EntryNode(definition', definition'.entry)
  BY DEF BeginTurn
<1>5. saved' \in State
  BY DEF IInv, TypeOK, BeginTurn
<1>6. QED
  BY <1>1, <1>2, <1>3, <1>4, <1>5, EnterStep DEF IInv, TypeOK

\* What every node's run leaves alone, and what is left to show of it.
LEMMA RunFrame ==
  ASSUME IInv, NEW update, NEW next, Run(update, next), node # Rest,
         update \in State,
         next \in ((DOMAIN definition.steps) \X Role) \cup {End},
         \A s \in DOMAIN definition.steps : NodeInv(s)'
  PROVE  IInv'
BY BoundsAssumption DEF IInv, TypeOK, Run

LEMMA AgentKeeps ==
  ASSUME IInv, NEW s \in DOMAIN definition.steps, Agent(s)
  PROVE  IInv'
<1>1. /\ definition \in Definitions /\ state \in State /\ turn \in Nat
      /\ state.rounds = Empty.rounds /\ node = <<s, "agent">> /\ node # Rest
      /\ Def(s).type = "agent"
  BY DEF IInv, TypeOK, NodeInv, Agent, Rest
<1>2. PICK kind \in {"text", "call"} :
        LET update == IF Def(s).task THEN [state EXCEPT !.task = turn]
                      ELSE [state EXCEPT !.messages = Append(@, New(kind, 0))]
        IN  Run(update, AfterAgent(s, update.messages))
  BY DEF Agent
<1> DEFINE update == IF Def(s).task THEN [state EXCEPT !.task = turn]
                     ELSE [state EXCEPT !.messages = Append(@, New(kind, 0))]
<1>3. update \in State /\ update.rounds = Empty.rounds
  <2>1. CASE Def(s).task
    BY <1>1, <2>1 DEF State
  <2>2. CASE ~Def(s).task
    BY <1>1, <2>2, NewType, AppendType
  <2>3. QED BY <2>1, <2>2
<1>4. Run(update, AfterAgent(s, update.messages))
  BY <1>2
<1> HIDE DEF update
<1>5. state' = update /\ node' = AfterAgent(s, update.messages) /\ definition' = definition
  BY <1>4 DEF Run
<1>6. CASE node' = <<s, "tools">>
  <2>1. \A u \in DOMAIN definition.steps : NodeInv(u)'
    BY <1>1, <1>3, <1>5, <1>6 DEF NodeInv, Def
  <2>2. QED
    BY <1>1, <1>3, <1>4, <1>5, <1>6, <2>1, RunFrame DEF Role
<1>7. CASE node' = NextNode(s)
  <2>1. /\ node' \in ((DOMAIN definition'.steps) \X Role) \cup {End}
        /\ \A u \in DOMAIN definition'.steps : NodeInv(u)'
    BY <1>1, <1>3, <1>5, <1>7, LeaveAgent
  <2>2. QED
    BY <1>1, <1>3, <1>4, <1>5, <2>1, RunFrame
<1>8. QED
  BY <1>5, <1>6, <1>7 DEF AfterAgent

LEMMA ToolsKeeps ==
  ASSUME IInv, NEW s \in DOMAIN definition.steps, Tools(s)
  PROVE  IInv'
<1> DEFINE update == [state EXCEPT !.messages = Append(@, New("tool", 0))]
<1>1. /\ state \in State /\ turn \in Nat /\ node = <<s, "tools">> /\ node # Rest
      /\ state.rounds = Empty.rounds /\ Def(s).type = "agent"
  BY DEF IInv, TypeOK, NodeInv, Tools, Rest
<1>2. update \in State /\ update.rounds = Empty.rounds
  BY <1>1, NewType, AppendType
<1>3. Run(update, <<s, "agent">>)
  BY DEF Tools
<1> HIDE DEF update
<1>4. \A u \in DOMAIN definition.steps : NodeInv(u)'
  BY <1>1, <1>2, <1>3 DEF Run, NodeInv, Def
<1>5. QED
  BY <1>1, <1>2, <1>3, <1>4, RunFrame DEF Role

LEMMA RouteKeeps ==
  ASSUME IInv, NEW s \in DOMAIN definition.steps, Route(s)
  PROVE  IInv'
<1> DEFINE update == [state EXCEPT !.messages = Append(@, New("text", 0))]
<1>1. /\ definition \in Definitions /\ Compiles(definition)
      /\ state \in State /\ turn \in Nat /\ node # Rest
      /\ state.rounds = Empty.rounds /\ Def(s).type = "route"
  BY DEF IInv, TypeOK, NodeInv, Route, Rest
<1>2. update \in State /\ update.rounds = Empty.rounds
  BY <1>1, NewType, AppendType
<1>3. PICK i \in DOMAIN Def(s).branches : Run(update, EntryNode(definition, Def(s).branches[i]))
  BY DEF Route
<1> HIDE DEF update
<1>4. Def(s).branches[i] \in DOMAIN definition.steps
  BY <1>1, StepOfDefinition DEF Targets, Def
<1>5. /\ definition' = definition /\ state' = update
      /\ node' = EntryNode(definition', Def(s).branches[i])
  BY <1>3 DEF Run
<1>6. /\ node' \in ((DOMAIN definition'.steps) \X Role)
      /\ \A u \in DOMAIN definition'.steps : NodeInv(u)'
  BY <1>1, <1>2, <1>4, <1>5, EnterStep
<1>7. QED
  BY <1>1, <1>2, <1>3, <1>5, <1>6, RunFrame

\* The tool calls of a draft are messages.
LEMMA ExchangeType ==
  ASSUME IInv, NEW s \in Step, NEW n \in Nat
  PROVE  Exchange(s, n) \in Seq(Message)
<1>1. turn \in Nat /\ Round(s) \in Nat
  BY DEF IInv, TypeOK, State, Round
<1>2. \A i \in 1 .. 2 * n : New(IF i % 2 = 1 THEN "call" ELSE "tool", Round(s)) \in Message
  BY <1>1, NewType
<1>3. 2 * n \in Nat
  OBVIOUS
<1>4. QED
  BY <1>2, <1>3 DEF Exchange

LEMMA WorkerKeeps ==
  ASSUME IInv, NEW s \in DOMAIN definition.steps, Worker(s)
  PROVE  IInv'
<1>1. /\ definition \in Definitions /\ state \in State /\ turn \in Nat /\ node # Rest
      /\ Def(s).type = "loop" /\ state.rounds[s] < Def(s).maxIterations
  BY DEF IInv, TypeOK, NodeInv, Worker, Rest
<1>2. PICK n \in Nat :
        Run([state EXCEPT !.draft = [turn |-> turn, round |-> Round(s)],
                          !.exchange = Exchange(s, n)], <<s, "reviewer">>)
  <2>1. \A n \in 0 .. IF Def(s).tools THEN WorkerRounds ELSE 0 : n \in Nat
    OBVIOUS
  <2>2. QED BY <2>1, Zenon DEF Worker
<1> DEFINE update == [state EXCEPT !.draft = [turn |-> turn, round |-> Round(s)],
                                   !.exchange = Exchange(s, n)]
<1>3. s \in Step
  BY <1>1, StepOfDefinition
<1>4. /\ update \in State /\ update.rounds = state.rounds
      /\ update.draft = [turn |-> turn, round |-> state.rounds[s] + 1]
  <2>1. Exchange(s, n) \in Seq(Message)
    BY <1>3, ExchangeType
  <2>2. Round(s) = state.rounds[s] + 1 /\ Round(s) \in Nat
    BY <1>1, <1>3 DEF Round, State
  <2>3. QED
    BY <1>1, <2>1, <2>2 DEF State
<1>5. Run(update, <<s, "reviewer">>)
  BY <1>2
<1> HIDE DEF update
<1>6. \A u \in DOMAIN definition.steps : NodeInv(u)'
  BY <1>1, <1>4, <1>5 DEF Run, NodeInv, Def
<1>7. QED
  BY <1>1, <1>4, <1>5, <1>6, RunFrame DEF Role

LEMMA ReviewerKeeps ==
  ASSUME IInv, NEW s \in DOMAIN definition.steps, Reviewer(s)
  PROVE  IInv'
<1>1. /\ definition \in Definitions /\ state \in State /\ turn \in Nat /\ node # Rest
      /\ Def(s).type = "loop" /\ state.rounds[s] < Def(s).maxIterations
      /\ state.draft = [turn |-> turn, round |-> state.rounds[s] + 1]
  BY DEF IInv, TypeOK, NodeInv, Reviewer, Rest
<1>2. PICK approved \in BOOLEAN, issues \in BOOLEAN :
        LET update == [state EXCEPT
              !.review = [turn |-> turn, round |-> Round(s), approved |-> approved, issues |-> issues],
              !.rounds[s] = @ + 1]
        IN  Run(update, AfterReview(s, update))
  BY DEF Reviewer
<1> DEFINE review == [turn |-> turn, round |-> Round(s), approved |-> approved, issues |-> issues]
           update == [state EXCEPT !.review = review, !.rounds[s] = @ + 1]
<1>3. s \in Step /\ state.rounds[s] \in Nat /\ Def(s).maxIterations \in Nat
  BY <1>1, StepOfDefinition, StepFields DEF State, Def
<1>4. /\ update \in State /\ update.rounds[s] = state.rounds[s] + 1
      /\ update.draft = state.draft /\ update.review = review
  <2>1. review \in Review /\ Round(s) \in Nat
    BY <1>1, <1>3 DEF Review, Round
  <2>2. [state.rounds EXCEPT ![s] = @ + 1] \in [Step -> Nat]
    BY <1>1, <1>3 DEF State
  <2>3. update = [state EXCEPT !.review = review, !.rounds = [state.rounds EXCEPT ![s] = @ + 1]]
    BY <1>1 DEF State
  <2>4. QED
    BY <1>1, <1>3, <2>1, <2>2, <2>3 DEF State
<1>5. Run(update, AfterReview(s, update))
  BY <1>2
<1>6. review.turn = turn /\ review.round = state.rounds[s] + 1 /\ review.approved = approved
  BY DEF Round
<1> HIDE DEF update, review
<1>7. /\ state' = update /\ definition' = definition /\ turn' = turn
      /\ node' = AfterReview(s, update)
  BY <1>5 DEF Run
<1>8. CASE approved \/ state.rounds[s] + 1 >= Def(s).maxIterations
  <2>1. node' = <<s, "finalize">>
    BY <1>4, <1>6, <1>7, <1>8 DEF AfterReview
  <2>2. approved \/ state.rounds[s] + 1 = Def(s).maxIterations
    BY <1>1, <1>3, <1>8
  <2>3. \A u \in DOMAIN definition.steps : NodeInv(u)'
    BY <1>1, <1>4, <1>6, <1>7, <2>1, <2>2 DEF NodeInv, Def
  <2>4. QED
    BY <1>1, <1>4, <1>5, <1>7, <2>1, <2>3, RunFrame DEF Role
<1>9. CASE ~approved /\ state.rounds[s] + 1 < Def(s).maxIterations
  <2>1. node' = <<s, "worker">>
    BY <1>3, <1>4, <1>6, <1>7, <1>9 DEF AfterReview
  <2>2. \A u \in DOMAIN definition.steps : NodeInv(u)'
    BY <1>1, <1>4, <1>7, <1>9, <2>1 DEF NodeInv, Def
  <2>3. QED
    BY <1>1, <1>4, <1>5, <1>7, <2>1, <2>2, RunFrame DEF Role
<1>10. QED
  BY <1>3, <1>8, <1>9

LEMMA FinalizeKeeps ==
  ASSUME IInv, NEW s \in DOMAIN definition.steps, Finalize(s)
  PROVE  IInv'
<1> DEFINE update == [state EXCEPT
                        !.messages = @ \o state.exchange \o <<New("text", state.draft.round)>>]
<1>1. state \in State /\ turn \in Nat /\ node # Rest /\ definition \in Definitions
  BY DEF IInv, TypeOK, Finalize, Rest
<1>2. update \in State
  <2>1. New("text", state.draft.round) \in Message
    BY <1>1, NewType DEF State
  <2>2. state.messages \in Seq(Message) /\ state.exchange \in Seq(Message)
    BY <1>1 DEF State
  <2>3. state.messages \o state.exchange \o <<New("text", state.draft.round)>> \in Seq(Message)
    BY <2>1, <2>2
  <2>4. QED
    BY <1>1, <2>3 DEF State
<1>3. Run(update, End)
  BY DEF Finalize
<1> HIDE DEF update
<1>4. \A u \in DOMAIN definition.steps : NodeInv(u)'
  <2>1. node' = End /\ definition' = definition
    BY <1>3 DEF Run
  <2>2. QED BY <1>1, <2>1, LeaveSteps
<1>5. QED
  BY <1>1, <1>2, <1>3, <1>4, RunFrame

\* The end of a turn, committed or rolled back.
LEMMA TurnEndKeeps ==
  ASSUME IInv, EndTurn \/ FailTurn
  PROVE  IInv'
<1>1. definition' = definition /\ node' = Rest /\ definition' \in Definitions
  BY DEF IInv, TypeOK, EndTurn, FailTurn
<1>2. \A s \in DOMAIN definition'.steps : NodeInv(s)'
  BY <1>1, LeaveSteps
<1>3. turn' \in 0 .. MaxTurns
  BY BoundsAssumption DEF IInv, TypeOK, EndTurn, FailTurn
<1>4. state' \in State /\ saved' \in State /\ taken' \in 0 .. StepLimit
  BY BoundsAssumption DEF IInv, TypeOK, EndTurn, FailTurn
<1>5. QED
  BY <1>1, <1>2, <1>3, <1>4 DEF IInv, TypeOK

LEMMA NextIInv == IInv /\ [Next]_vars => IInv'
<1> SUFFICES ASSUME IInv, [Next]_vars PROVE IInv'
  OBVIOUS
<1>1. CASE BeginTurn
  BY <1>1, BeginKeeps
<1>2. CASE RunNode
  <2>1. PICK s \in DOMAIN definition.steps :
          Agent(s) \/ Tools(s) \/ Route(s) \/ Worker(s) \/ Reviewer(s) \/ Finalize(s)
    BY <1>2 DEF RunNode
  <2>2. QED
    BY <2>1, AgentKeeps, ToolsKeeps, RouteKeeps, WorkerKeeps, ReviewerKeeps, FinalizeKeeps
<1>3. CASE EndTurn \/ FailTurn
  BY <1>3, TurnEndKeeps
<1>4. CASE UNCHANGED vars
  BY <1>4 DEF vars, IInv, TypeOK, NodeInv, Def, Compiles
<1>5. QED
  BY <1>1, <1>2, <1>3, <1>4 DEF Next

LEMMA Invariance == Spec => []IInv
BY InitIInv, NextIInv, PTL DEF Spec

\* Every variable keeps its type: each edge of a valid definition leads to a node the
\* graph has, and every update a node makes is a state.
THEOREM EngineTypeCorrect == Spec => []TypeOK
<1>1. IInv => TypeOK
  BY DEF IInv
<1>2. QED BY <1>1, Invariance, PTL

\* Whatever the models answer and whichever definitions were published between the
\* turns, a review loop delivers the draft its reviewer saw last in this turn, approved
\* or at the last round.
THEOREM ReviewedCorrect == Spec => []DeliveredReviewed
<1>1. IInv => DeliveredReviewed
  BY DEF IInv, NodeInv, DeliveredReviewed
<1>2. QED BY <1>1, Invariance, PTL
--------------------------------------------------------------------------------
(* Tool calls and their results. *)

CutOff(messages, i) == Cardinality({j \in 1 .. i : IsCall(messages[j])}) >= MaxRounds

\* Of the calls that may lack a result, all but the last message were cut off.
CutOffBefore(messages, last) == \A i \in Unanswered(messages) : i < last => CutOff(messages, i)

ExchangeAnswered(exchange) ==
  \A k \in DOMAIN exchange :
    IsCall(exchange[k]) => k < Len(exchange) /\ exchange[k + 1].kind = "tool"

\* A call still waiting for its tool is the last message and the tools run next; a
\* draft's own calls are answered.
AnsweredInv ==
  /\ CallsAnswered
  /\ CutOffBefore(state.messages, Len(state.messages))
  /\ (\A s \in DOMAIN definition.steps : node # <<s, "tools">>) =>
       CutOffBefore(state.messages, Len(state.messages) + 1)
  /\ \A s \in DOMAIN definition.steps :
       node \in {<<s, "reviewer">>, <<s, "finalize">>} => ExchangeAnswered(state.exchange)

\* What comes after a message does not change whether it was cut off.
LEMMA CutOffKept ==
  ASSUME NEW a \in Seq(Message), NEW b \in Seq(Message), NEW i \in 1 .. Len(a),
         Len(a) <= Len(b), \A j \in 1 .. Len(a) : b[j] = a[j],
         i \in Unanswered(b)
  PROVE  /\ i \in Unanswered(a)
         /\ CutOff(a, i) => CutOff(b, i)
<1>1. i \in Unanswered(a)
  <2>1. IsCall(a[i]) /\ (i = Len(b) \/ b[i + 1].kind # "tool")
    BY DEF Unanswered
  <2>2. CASE i = Len(a)
    BY <2>1, <2>2 DEF Unanswered
  <2>3. CASE i < Len(a)
    <3>1. b[i + 1] = a[i + 1] /\ i # Len(b)
      BY <2>3
    <3>2. QED BY <2>1, <3>1 DEF Unanswered
  <2>4. QED BY <2>2, <2>3
<1>2. {j \in 1 .. i : IsCall(a[j])} = {j \in 1 .. i : IsCall(b[j])}
  OBVIOUS
<1>3. QED
  BY <1>1, <1>2 DEF CutOff

\* One more message: a message that is no call leaves nothing new unanswered, and the
\* result of a call answers it.
LEMMA AppendAnswered ==
  ASSUME NEW messages \in Seq(Message), NEW m \in Message,
         CutOffBefore(messages, Len(messages)),
         m.kind = "tool" \/ CutOffBefore(messages, Len(messages) + 1)
  PROVE  /\ CutOffBefore(Append(messages, m), Len(messages) + 1)
         /\ ~IsCall(m) => CutOffBefore(Append(messages, m), Len(messages) + 2)
<1> DEFINE longer == Append(messages, m)
<1>1. /\ longer \in Seq(Message) /\ Len(longer) = Len(messages) + 1
      /\ \A j \in 1 .. Len(messages) : longer[j] = messages[j]
      /\ longer[Len(messages) + 1] = m
  OBVIOUS
<1> HIDE DEF longer
<1>2. ASSUME NEW i \in Unanswered(longer), i < Len(messages) + 1
      PROVE  CutOff(longer, i)
  <2>1. i \in 1 .. Len(messages)
    BY <1>1, <1>2 DEF Unanswered
  <2>2. i \in Unanswered(messages)
    BY <1>1, <2>1, CutOffKept
  <2>3. i = Len(messages) => m.kind # "tool"
    BY <1>1, <1>2 DEF Unanswered
  <2>4. CutOff(messages, i)
    BY <2>1, <2>2, <2>3 DEF CutOffBefore
  <2>5. QED
    BY <1>1, <2>1, <2>4, CutOffKept
<1>3. ASSUME ~IsCall(m), NEW i \in Unanswered(longer)
      PROVE  i < Len(messages) + 1
  <2>1. i \in 1 .. Len(messages) + 1 /\ IsCall(longer[i])
    BY <1>1 DEF Unanswered
  <2>2. QED BY <1>1, <1>3, <2>1
<1>4. QED
  BY <1>2, <1>3 DEF CutOffBefore, longer

\* A delivered draft: the calls that ground it come with their results.
LEMMA DeliverAnswered ==
  ASSUME NEW messages \in Seq(Message), NEW exchange \in Seq(Message), NEW m \in Message,
         CutOffBefore(messages, Len(messages) + 1), ExchangeAnswered(exchange), ~IsCall(m)
  PROVE  LET longer == messages \o exchange \o <<m>>
         IN  CutOffBefore(longer, Len(longer) + 1)
<1> DEFINE longer == messages \o exchange \o <<m>>
           n == Len(messages)
           k == Len(exchange)
<1>1. /\ longer \in Seq(Message) /\ Len(longer) = n + k + 1
      /\ n \in Nat /\ k \in Nat
      /\ \A j \in 1 .. n : longer[j] = messages[j]
      /\ \A j \in 1 .. k : longer[n + j] = exchange[j]
      /\ longer[n + k + 1] = m
  OBVIOUS
<1> HIDE DEF longer
<1>2. ASSUME NEW i \in Unanswered(longer) PROVE CutOff(longer, i)
  <2>1. /\ i \in 1 .. n + k + 1 /\ IsCall(longer[i])
        /\ i = n + k + 1 \/ longer[i + 1].kind # "tool"
    BY <1>1 DEF Unanswered
  <2>2. i # n + k + 1
    BY <1>1, <2>1
  <2>3. ~(i \in n + 1 .. n + k)
    <3> SUFFICES ASSUME i \in n + 1 .. n + k PROVE FALSE
      OBVIOUS
    <3>1. PICK j \in 1 .. k : i = n + j
      <4>1. i - n \in 1 .. k /\ i = n + (i - n)
        BY <1>1, <2>1
      <4>2. QED BY <4>1
    <3>2. j \in DOMAIN exchange /\ IsCall(exchange[j])
      BY <1>1, <2>1, <3>1
    <3>3. j < k /\ exchange[j + 1].kind = "tool"
      BY <3>2 DEF ExchangeAnswered
    <3>4. j + 1 \in 1 .. k /\ i + 1 = n + (j + 1)
      BY <1>1, <3>1, <3>3
    <3>5. longer[n + (j + 1)] = exchange[j + 1]
      BY <1>1, <3>4
    <3>6. QED BY <2>1, <2>2, <3>3, <3>4, <3>5
  <2>4. i \in 1 .. n
    BY <1>1, <2>1, <2>2, <2>3
  <2>5. i \in Unanswered(messages) /\ (CutOff(messages, i) => CutOff(longer, i))
    <3>1. Len(messages) <= Len(longer)
      BY <1>1
    <3>2. QED BY <1>1, <2>4, <3>1, CutOffKept
  <2>6. QED
    BY <2>4, <2>5 DEF CutOffBefore
<1>3. QED
  BY <1>2 DEF CutOffBefore, longer

LEMMA InitAnswered == Init => AnsweredInv
<1> SUFFICES ASSUME Init PROVE AnsweredInv
  OBVIOUS
<1>1. Unanswered(state.messages) = {} /\ Unanswered(saved.messages) = {}
  BY DEF Init, Empty, Unanswered
<1>2. QED
  BY <1>1 DEF Init, Rest, AnsweredInv, CallsAnswered, CutOffBefore

\* A node that leaves the stored state alone and leads to no exchange.
LEMMA AnsweredFrame ==
  ASSUME AnsweredInv, saved' = saved, definition' = definition,
         \A u \in DOMAIN definition.steps : node' \notin {<<u, "reviewer">>, <<u, "finalize">>},
         CutOffBefore(state'.messages, Len(state'.messages)),
         (\A u \in DOMAIN definition.steps : node' # <<u, "tools">>) =>
            CutOffBefore(state'.messages, Len(state'.messages) + 1)
  PROVE  AnsweredInv'
<1>1. CallsAnswered'
  BY DEF AnsweredInv, CallsAnswered, Unanswered, IsCall
<1>2. CutOffBefore(state.messages, Len(state.messages))'
  BY DEF CutOffBefore, Unanswered, IsCall, CutOff
<1>3. (\A u \in DOMAIN definition.steps : node # <<u, "tools">>)' =>
        CutOffBefore(state.messages, Len(state.messages) + 1)'
  BY DEF CutOffBefore, Unanswered, IsCall, CutOff
<1>4. QED
  BY <1>1, <1>2, <1>3 DEF AnsweredInv

\* A bound one higher asks more.
LEMMA CutOffWeaker ==
  ASSUME NEW messages \in Seq(Message), CutOffBefore(messages, Len(messages) + 1)
  PROVE  CutOffBefore(messages, Len(messages))
<1>1. \A i \in Unanswered(messages) : i \in Nat
  BY DEF Unanswered
<1>2. QED
  BY <1>1 DEF CutOffBefore

\* Entering or leaving the graph's steps never leads to the tools, nor into a loop's middle.
LEMMA EntryRoles ==
  ASSUME NEW d \in Definitions, NEW t \in DOMAIN d.steps, NEW u
  PROVE  EntryNode(d, t) \notin {<<u, "tools">>, <<u, "reviewer">>, <<u, "finalize">>}
<1>1. d.steps[t].type \in {"agent", "route", "loop"}
  BY StepOfDefinition, StepFields
<1>2. QED
  BY <1>1 DEF EntryNode

LEMMA NextRoles ==
  ASSUME IInv, NEW s \in DOMAIN definition.steps, Def(s).type = "agent", NEW u
  PROVE  NextNode(s) \notin {<<u, "tools">>, <<u, "reviewer">>, <<u, "finalize">>}
<1>1. definition \in Definitions
  BY DEF IInv, TypeOK
<1>2. CASE Def(s).next = None
  BY <1>2 DEF NextNode, End
<1>3. CASE Def(s).next # None
  <2>1. Def(s).next \in DOMAIN definition.steps
    BY <1>1, <1>3, StepOfDefinition DEF Targets, Def
  <2>2. QED BY <1>1, <1>3, <2>1, EntryRoles DEF NextNode
<1>4. QED BY <1>2, <1>3

\* The router counts the calls that the cap is about.
LEMMA RoundsAreCutOff ==
  ASSUME NEW messages \in Seq(Message), ~(CallRounds(messages) < MaxRounds)
  PROVE  CutOff(messages, Len(messages))
<1> DEFINE calls == {i \in 1 .. Len(messages) : IsCall(messages[i])}
<1>1. DOMAIN messages = 1 .. Len(messages) /\ Len(messages) \in Nat
  OBVIOUS
<1>2. Cardinality(calls) \in Nat
  <2>1. IsFiniteSet(1 .. Len(messages))
    BY <1>1, FS_Interval
  <2>2. calls \subseteq 1 .. Len(messages)
    OBVIOUS
  <2> HIDE DEF calls
  <2>3. QED BY <2>1, <2>2, FS_Subset, FS_CardinalityType
<1>3. CallRounds(messages) = Cardinality(calls)
  BY <1>1 DEF CallRounds
<1>4. CutOff(messages, Len(messages)) <=> Cardinality(calls) >= MaxRounds
  BY DEF CutOff
<1> HIDE DEF calls
<1>5. QED
  BY <1>2, <1>3, <1>4, BoundsAssumption

LEMMA BeginAnswered == IInv /\ AnsweredInv /\ BeginTurn => AnsweredInv'
<1> SUFFICES ASSUME IInv, AnsweredInv, BeginTurn PROVE AnsweredInv'
  OBVIOUS
<1> DEFINE human == [kind |-> "human", turn |-> turn + 1, round |-> 0]
<1>1. saved \in State /\ saved.messages \in Seq(Message) /\ human \in Message
  BY DEF IInv, TypeOK, State, Message
<1>2. state'.messages = Append(saved.messages, human) /\ saved' = saved
  BY <1>1 DEF BeginTurn, Input, State
<1>3. ~IsCall(human)
  BY DEF IsCall
<1> HIDE DEF human
<1>4. CutOffBefore(saved.messages, Len(saved.messages) + 1)
  BY DEF AnsweredInv, CallsAnswered, CutOffBefore, CutOff
<1>5. CutOffBefore(saved.messages, Len(saved.messages))
  BY <1>1, <1>4, CutOffWeaker
<1>6. /\ CutOffBefore(state'.messages, Len(state'.messages))
      /\ CutOffBefore(state'.messages, Len(state'.messages) + 1)
  <2>1. Len(state'.messages) = Len(saved.messages) + 1
    BY <1>1, <1>2
  <2>2. Len(state'.messages) + 1 = Len(saved.messages) + 2
    BY <1>1, <2>1
  <2>3. QED
    BY <1>1, <1>2, <1>3, <1>4, <1>5, <2>1, <2>2, AppendAnswered
<1>7. \A u : node' \notin {<<u, "tools">>, <<u, "reviewer">>, <<u, "finalize">>}
  BY EntryRoles, DefinitionsAssumption DEF BeginTurn, Valid
<1>8. CallsAnswered'
  BY <1>2 DEF AnsweredInv, CallsAnswered, Unanswered, IsCall
<1>9. /\ CutOffBefore(state.messages, Len(state.messages))'
      /\ CutOffBefore(state.messages, Len(state.messages) + 1)'
  BY <1>6 DEF CutOffBefore, Unanswered, IsCall, CutOff
<1>10. QED
  BY <1>7, <1>8, <1>9 DEF AnsweredInv

LEMMA AgentAnswered ==
  ASSUME IInv, AnsweredInv, NEW s \in DOMAIN definition.steps, Agent(s)
  PROVE  AnsweredInv'
<1> DEFINE messages == state.messages
<1>1. /\ state \in State /\ turn \in Nat /\ Def(s).type = "agent" /\ node = <<s, "agent">>
      /\ messages \in Seq(Message)
  BY DEF IInv, TypeOK, NodeInv, Agent, State
<1>2. CutOffBefore(messages, Len(messages) + 1) /\ CutOffBefore(messages, Len(messages))
  BY <1>1 DEF AnsweredInv
<1>3. PICK kind \in {"text"} \cup (IF Def(s).tools THEN {"call"} ELSE {}) :
        LET update == IF Def(s).task THEN [state EXCEPT !.task = turn]
                      ELSE [state EXCEPT !.messages = Append(@, New(kind, 0))]
        IN  Run(update, AfterAgent(s, update.messages))
  BY DEF Agent
<1>4. /\ saved' = saved /\ definition' = definition
      /\ node' = AfterAgent(s, state'.messages)
      /\ state'.messages = IF Def(s).task THEN messages ELSE Append(messages, New(kind, 0))
  BY <1>1, <1>3 DEF Run, State
<1>5. New(kind, 0) \in Message /\ New(kind, 0).kind = kind
  BY <1>1, <1>3, NewType DEF New
<1> HIDE DEF messages
<1>6. /\ state'.messages \in Seq(Message)
      /\ CutOffBefore(state'.messages, Len(state'.messages))
  <2>1. CASE Def(s).task
    BY <1>1, <1>2, <1>4, <2>1
  <2>2. CASE ~Def(s).task
    <3>1. Len(Append(messages, New(kind, 0))) = Len(messages) + 1
      BY <1>1
    <3>2. QED BY <1>1, <1>2, <1>4, <1>5, <2>2, <3>1, AppendAnswered
  <2>3. QED BY <2>1, <2>2
<1>7. ASSUME node' = NextNode(s), node' # <<s, "tools">>
      PROVE  CutOffBefore(state'.messages, Len(state'.messages) + 1)
  <2>1. CASE Def(s).task
    BY <1>2, <1>4, <2>1
  <2>2. CASE ~Def(s).task /\ kind # "call"
    <3>1. ~IsCall(New(kind, 0))
      BY <1>5, <2>2 DEF IsCall
    <3>2. Len(state'.messages) + 1 = Len(messages) + 2
      BY <1>1, <1>4, <2>2
    <3>3. QED BY <1>1, <1>2, <1>4, <1>5, <2>2, <3>1, <3>2, AppendAnswered
  <2>3. CASE ~Def(s).task /\ kind = "call"
    <3>1. Def(s).tools
      BY <1>3, <2>3
    <3>2. Len(state'.messages) \in Nat /\ IsCall(state'.messages[Len(state'.messages)])
      BY <1>1, <1>4, <1>5, <2>3 DEF IsCall
    <3>3. ~(CallRounds(state'.messages) < MaxRounds)
      BY <1>4, <1>7, <3>1, <3>2 DEF AfterAgent
    <3>4. CutOff(state'.messages, Len(state'.messages))
      BY <1>6, <3>3, RoundsAreCutOff
    <3>5. ASSUME NEW i \in Unanswered(state'.messages) PROVE CutOff(state'.messages, i)
      <4>1. i \in 1 .. Len(state'.messages)
        BY <1>6, <3>5 DEF Unanswered
      <4>2. QED BY <1>6, <3>2, <3>4, <4>1 DEF CutOffBefore
    <3>6. QED BY <3>5 DEF CutOffBefore
  <2>4. QED BY <2>1, <2>2, <2>3
<1>8. node' = <<s, "tools">> \/ node' = NextNode(s)
  BY <1>4 DEF AfterAgent
<1>9. \A u \in DOMAIN definition.steps : node' \notin {<<u, "reviewer">>, <<u, "finalize">>}
  BY <1>1, <1>8, NextRoles
<1>10. (\A u \in DOMAIN definition.steps : node' # <<u, "tools">>) =>
          CutOffBefore(state'.messages, Len(state'.messages) + 1)
  BY <1>7, <1>8
<1>11. QED
  BY <1>4, <1>6, <1>9, <1>10, AnsweredFrame

LEMMA ToolsAnswered ==
  ASSUME IInv, AnsweredInv, NEW s \in DOMAIN definition.steps, Tools(s)
  PROVE  AnsweredInv'
<1> DEFINE m == New("tool", 0)
<1>1. /\ state \in State /\ turn \in Nat /\ state.messages \in Seq(Message)
      /\ m \in Message /\ m.kind = "tool" /\ ~IsCall(m)
  BY NewType DEF IInv, TypeOK, State, New, IsCall
<1>2. /\ saved' = saved /\ definition' = definition /\ node' = <<s, "agent">>
      /\ state'.messages = Append(state.messages, m)
  BY <1>1 DEF Tools, Run, State
<1>3. CutOffBefore(state.messages, Len(state.messages))
  BY DEF AnsweredInv
<1> HIDE DEF m
<1>4. /\ Len(state'.messages) = Len(state.messages) + 1
      /\ Len(state'.messages) + 1 = Len(state.messages) + 2
  BY <1>1, <1>2
<1>5. /\ CutOffBefore(state'.messages, Len(state'.messages))
      /\ CutOffBefore(state'.messages, Len(state'.messages) + 1)
  BY <1>1, <1>2, <1>3, <1>4, AppendAnswered
<1>6. QED
  BY <1>2, <1>5, AnsweredFrame

LEMMA RouteAnswered ==
  ASSUME IInv, AnsweredInv, NEW s \in DOMAIN definition.steps, Route(s)
  PROVE  AnsweredInv'
<1> DEFINE m == New("text", 0)
<1>1. /\ state \in State /\ turn \in Nat /\ state.messages \in Seq(Message)
      /\ m \in Message /\ ~IsCall(m) /\ definition \in Definitions
  BY NewType DEF IInv, TypeOK, State, New, IsCall
<1>2. PICK i \in DOMAIN Def(s).branches : node' = EntryNode(definition, Def(s).branches[i])
  BY DEF Route, Run
<1>3. /\ saved' = saved /\ definition' = definition
      /\ state'.messages = Append(state.messages, m) /\ node = <<s, "route">>
  BY <1>1 DEF Route, Run, State
<1>4. /\ CutOffBefore(state.messages, Len(state.messages))
      /\ CutOffBefore(state.messages, Len(state.messages) + 1)
  BY <1>3 DEF AnsweredInv
<1>5. Def(s).branches[i] \in DOMAIN definition.steps
  BY <1>1, <1>2, <1>3, StepOfDefinition DEF Targets, Def, IInv, NodeInv
<1> HIDE DEF m
<1>6. /\ Len(state'.messages) = Len(state.messages) + 1
      /\ Len(state'.messages) + 1 = Len(state.messages) + 2
  BY <1>1, <1>3
<1>7. /\ CutOffBefore(state'.messages, Len(state'.messages))
      /\ CutOffBefore(state'.messages, Len(state'.messages) + 1)
  BY <1>1, <1>3, <1>4, <1>6, AppendAnswered
<1>8. \A u : node' \notin {<<u, "reviewer">>, <<u, "finalize">>}
  BY <1>1, <1>2, <1>5, EntryRoles
<1>9. QED
  BY <1>3, <1>7, <1>8, AnsweredFrame

\* The calls of a draft alternate with their results.
LEMMA ExchangeIsAnswered ==
  ASSUME NEW s, NEW n \in Nat
  PROVE  ExchangeAnswered(Exchange(s, n))
<1> DEFINE e == Exchange(s, n)
<1>1. DOMAIN e = 1 .. 2 * n /\ Len(e) = 2 * n
  <2>1. PICK k \in Nat : k = 2 * n
    BY SMT
  <2>2. e = [i \in 1 .. k |-> New(IF i % 2 = 1 THEN "call" ELSE "tool", Round(s))]
    BY <2>1, Zenon DEF Exchange
  <2> HIDE DEF e
  <2>3. DOMAIN e = 1 .. k
    BY <2>2, Zenon
  <2>4. Len(e) = k
    BY <2>1, <2>2, <2>3, SMT
  <2>5. QED BY <2>1, <2>3, <2>4
<1>2. \A i \in 1 .. 2 * n : e[i].kind = IF i % 2 = 1 THEN "call" ELSE "tool"
  BY DEF Exchange, New
<1> HIDE DEF e
<1>3. ASSUME NEW k \in DOMAIN e, IsCall(e[k])
      PROVE  k < Len(e) /\ e[k + 1].kind = "tool"
  <2>1. k \in 1 .. 2 * n /\ k % 2 = 1
    BY <1>1, <1>2, <1>3 DEF IsCall
  <2>2. k # 2 * n /\ (k + 1) % 2 # 1
    BY <2>1
  <2>3. k + 1 \in 1 .. 2 * n
    BY <2>1, <2>2
  <2>4. QED BY <1>1, <1>2, <2>1, <2>2, <2>3
<1>4. QED
  BY <1>3 DEF ExchangeAnswered, e

LEMMA LoopAnswered ==
  ASSUME IInv, AnsweredInv, NEW s \in DOMAIN definition.steps, Worker(s) \/ Reviewer(s)
  PROVE  AnsweredInv'
<1>1. /\ saved' = saved /\ definition' = definition
      /\ state \in State /\ state'.messages = state.messages
      /\ node \in {<<s, "worker">>, <<s, "reviewer">>}
      /\ node' \in {<<s, "worker">>, <<s, "reviewer">>, <<s, "finalize">>}
  BY DEF IInv, TypeOK, State, Worker, Reviewer, Run, AfterReview
<1>2. ExchangeAnswered(state'.exchange) \/ node' = <<s, "worker">>
  <2>1. CASE Worker(s)
    <3>1. \A n \in 0 .. IF Def(s).tools THEN WorkerRounds ELSE 0 : n \in Nat
      OBVIOUS
    <3>2. PICK n \in Nat : state'.exchange = Exchange(s, n)
      BY <1>1, <2>1, <3>1 DEF Worker, Run, State
    <3>3. QED BY <3>2, ExchangeIsAnswered
  <2>2. CASE Reviewer(s)
    <3>1. state'.exchange = state.exchange /\ node = <<s, "reviewer">>
      BY <1>1, <2>2 DEF Reviewer, Run, State
    <3>2. QED BY <3>1 DEF AnsweredInv
  <2>3. QED BY <2>1, <2>2
<1>3. CallsAnswered'
  BY <1>1 DEF AnsweredInv, CallsAnswered, Unanswered, IsCall
<1>4. /\ CutOffBefore(state.messages, Len(state.messages))'
      /\ CutOffBefore(state.messages, Len(state.messages) + 1)'
  <2>1. /\ CutOffBefore(state.messages, Len(state.messages))
        /\ CutOffBefore(state.messages, Len(state.messages) + 1)
    BY <1>1 DEF AnsweredInv
  <2>2. QED
    BY <1>1, <2>1 DEF CutOffBefore, Unanswered, IsCall, CutOff
<1>5. (\A u \in DOMAIN definition.steps :
         node \in {<<u, "reviewer">>, <<u, "finalize">>} => ExchangeAnswered(state.exchange))'
  BY <1>1, <1>2 DEF ExchangeAnswered, IsCall
<1>6. QED
  BY <1>3, <1>4, <1>5 DEF AnsweredInv

LEMMA FinalizeAnswered ==
  ASSUME IInv, AnsweredInv, NEW s \in DOMAIN definition.steps, Finalize(s)
  PROVE  AnsweredInv'
<1> DEFINE m == New("text", state.draft.round)
<1>1. /\ state \in State /\ turn \in Nat
      /\ state.messages \in Seq(Message) /\ state.exchange \in Seq(Message)
      /\ m \in Message /\ ~IsCall(m)
  BY NewType DEF IInv, TypeOK, State, New, IsCall
<1>2. /\ saved' = saved /\ definition' = definition /\ node' = End /\ node = <<s, "finalize">>
      /\ state'.messages = state.messages \o state.exchange \o <<m>>
  BY <1>1 DEF Finalize, Run, State
<1>3. /\ CutOffBefore(state.messages, Len(state.messages) + 1)
      /\ ExchangeAnswered(state.exchange)
  BY <1>2 DEF AnsweredInv
<1> HIDE DEF m
<1>4. CutOffBefore(state'.messages, Len(state'.messages) + 1)
  BY <1>1, <1>2, <1>3, DeliverAnswered
<1>5. state'.messages \in Seq(Message)
  BY <1>1, <1>2
<1>6. CutOffBefore(state'.messages, Len(state'.messages))
  BY <1>4, <1>5, CutOffWeaker
<1>7. QED
  BY <1>2, <1>4, <1>6, AnsweredFrame DEF End

LEMMA TurnEndAnswered ==
  ASSUME IInv, AnsweredInv, EndTurn \/ FailTurn
  PROVE  AnsweredInv'
<1>1. /\ state \in State /\ saved \in State /\ definition' = definition
      /\ node' = Rest /\ state'.messages = saved'.messages
      /\ saved'.messages \in Seq(Message)
  BY DEF IInv, TypeOK, EndTurn, FailTurn, State
<1>2. ASSUME NEW i \in Unanswered(saved'.messages)
      PROVE  CutOff(saved'.messages, i)
  <2>1. CASE EndTurn
    <3>1. CutOffBefore(state.messages, Len(state.messages) + 1) /\ saved' = state
      BY <2>1 DEF EndTurn, AnsweredInv, End
    <3>2. i < Len(state.messages) + 1
      BY <1>1, <1>2, <3>1 DEF Unanswered
    <3>3. QED BY <1>2, <3>1, <3>2 DEF CutOffBefore
  <2>2. CASE FailTurn
    BY <1>2, <2>2 DEF FailTurn, AnsweredInv, CallsAnswered, CutOff
  <2>3. QED BY <2>1, <2>2
<1>3. CallsAnswered'
  BY <1>2 DEF CallsAnswered, CutOff, Unanswered, IsCall
<1>4. /\ CutOffBefore(state.messages, Len(state.messages))'
      /\ CutOffBefore(state.messages, Len(state.messages) + 1)'
  BY <1>1, <1>2 DEF CutOffBefore, Unanswered, IsCall, CutOff
<1>5. QED
  BY <1>1, <1>3, <1>4 DEF AnsweredInv, Rest

LEMMA NextAnswered == IInv /\ AnsweredInv /\ [Next]_vars => AnsweredInv'
<1> SUFFICES ASSUME IInv, AnsweredInv, [Next]_vars PROVE AnsweredInv'
  OBVIOUS
<1>1. CASE BeginTurn
  BY <1>1, BeginAnswered
<1>2. CASE RunNode
  <2>1. PICK s \in DOMAIN definition.steps :
          Agent(s) \/ Tools(s) \/ Route(s) \/ Worker(s) \/ Reviewer(s) \/ Finalize(s)
    BY <1>2 DEF RunNode
  <2>2. QED
    BY <2>1, AgentAnswered, ToolsAnswered, RouteAnswered, LoopAnswered, FinalizeAnswered
<1>3. CASE EndTurn \/ FailTurn
  BY <1>3, TurnEndAnswered
<1>4. CASE UNCHANGED vars
  BY <1>4 DEF vars, AnsweredInv, CallsAnswered, CutOffBefore, CutOff, Unanswered, IsCall,
              ExchangeAnswered
<1>5. QED
  BY <1>1, <1>2, <1>3, <1>4 DEF Next

\* However long the conversation, whichever turns fail and whatever is delivered, a stored
\* tool call lacks its result only where the cap cut an agent step off.
THEOREM AnsweredCorrect == Spec => []CallsAnswered
<1>1. AnsweredInv => CallsAnswered
  BY DEF AnsweredInv
<1>2. QED
  BY <1>1, InitAnswered, NextAnswered, Invariance, PTL DEF Spec
--------------------------------------------------------------------------------
(* The drafts a conversation shows. *)

Visible(messages) ==
  \A i, j \in DOMAIN messages :
    LET a == messages[i]  b == messages[j]
    IN  a.turn = b.turn /\ a.round # 0 /\ b.round # 0 => a.round = b.round

UpTo(messages, n) == \A i \in DOMAIN messages : messages[i].turn <= n

\* No draft has been delivered in the turn yet.
Undelivered(messages) ==
  \A i \in DOMAIN messages : messages[i].turn = turn => messages[i].round = 0

OfDraft(exchange, draft) ==
  \A i \in DOMAIN exchange : exchange[i].turn = turn /\ exchange[i].round = draft.round

\* A turn delivers at most one draft, with its last node.
VisibleInv ==
  /\ Visible(state.messages) /\ Visible(saved.messages)
  /\ UpTo(state.messages, turn)
  /\ UpTo(saved.messages, IF node = Rest THEN turn ELSE turn - 1)
  /\ node \notin {Rest, End} => Undelivered(state.messages)
  /\ \A s \in DOMAIN definition.steps :
       node \in {<<s, "reviewer">>, <<s, "finalize">>} => OfDraft(state.exchange, state.draft)

LEMMA MessageTurns ==
  ASSUME NEW messages \in Seq(Message)
  PROVE  \A i \in DOMAIN messages : messages[i].turn \in Nat /\ messages[i].round \in Nat
<1>1. \A i \in DOMAIN messages : messages[i] \in Message
  OBVIOUS
<1>2. QED
  BY <1>1 DEF Message

\* A message that is no draft's shows none.
LEMMA AppendVisible ==
  ASSUME NEW messages \in Seq(Message), NEW m \in Message, NEW n \in Nat, m.round = 0, m.turn = n,
         Visible(messages), UpTo(messages, n)
  PROVE  /\ Append(messages, m) \in Seq(Message)
         /\ Visible(Append(messages, m)) /\ UpTo(Append(messages, m), n)
         /\ Undelivered(messages) => Undelivered(Append(messages, m))
<1>1. PICK longer : longer = Append(messages, m)
  OBVIOUS
<1>2. /\ longer \in Seq(Message) /\ DOMAIN longer = 1 .. Len(messages) + 1
      /\ \A i \in DOMAIN longer :
           (i \in DOMAIN messages /\ longer[i] = messages[i]) \/ longer[i] = m
  BY <1>1
<1>3. Visible(longer)
  BY <1>2 DEF Visible
<1>4. UpTo(longer, n)
  BY <1>2 DEF UpTo
<1>5. Undelivered(messages) => Undelivered(longer)
  BY <1>2 DEF Undelivered
<1>6. QED
  BY <1>1, <1>2, <1>3, <1>4, <1>5

LEMMA InitVisible == Init => VisibleInv
<1> SUFFICES ASSUME Init PROVE VisibleInv
  OBVIOUS
<1>1. DOMAIN state.messages = {} /\ DOMAIN saved.messages = {} /\ node = Rest
  BY DEF Init, Empty
<1>2. QED
  BY <1>1 DEF Rest, VisibleInv, Visible, UpTo

LEMMA BeginVisible == IInv /\ VisibleInv /\ BeginTurn => VisibleInv'
<1> SUFFICES ASSUME IInv, VisibleInv, BeginTurn PROVE VisibleInv'
  OBVIOUS
<1>1. PICK human : human = [kind |-> "human", turn |-> turn + 1, round |-> 0]
  OBVIOUS
<1>2. /\ human \in Message /\ human.turn = turn + 1 /\ human.round = 0 /\ turn \in Nat
      /\ saved.messages \in Seq(Message) /\ saved \in State
  BY <1>1 DEF IInv, TypeOK, State, Message
<1>3. /\ state'.messages = Append(saved.messages, human) /\ saved' = saved /\ turn' = turn + 1
      /\ node = Rest /\ node' = EntryNode(definition', definition'.entry)
  BY <1>1, <1>2 DEF BeginTurn, Input, State
<1>4. UpTo(saved.messages, turn) /\ UpTo(saved.messages, turn') /\ Visible(saved.messages)
  <2>1. UpTo(saved.messages, turn) /\ Visible(saved.messages)
    BY <1>3 DEF VisibleInv
  <2>2. \A i \in DOMAIN saved.messages : saved.messages[i].turn \in Nat
    BY <1>2, MessageTurns
  <2>3. QED
    BY <1>2, <1>3, <2>1, <2>2 DEF UpTo
<1>5. Visible(state'.messages) /\ UpTo(state'.messages, turn')
  BY <1>2, <1>3, <1>4, AppendVisible
<1>6. \A i \in DOMAIN state'.messages : state'.messages[i].turn = turn' => state'.messages[i].round = 0
  <2>1. \A i \in DOMAIN saved.messages : saved.messages[i].turn # turn'
    <3>1. \A i \in DOMAIN saved.messages : saved.messages[i].turn \in Nat
      BY <1>2, MessageTurns
    <3>2. QED
      BY <1>2, <1>3, <1>4, <3>1 DEF UpTo
  <2>2. \A i \in DOMAIN state'.messages :
          \/ i \in DOMAIN saved.messages /\ state'.messages[i] = saved.messages[i]
          \/ state'.messages[i] = human
    BY <1>2, <1>3
  <2>3. QED
    BY <1>2, <2>1, <2>2
<1>7. \A u : node' \notin {<<u, "reviewer">>, <<u, "finalize">>}
  BY <1>3, EntryRoles, DefinitionsAssumption DEF BeginTurn, Valid
<1>8. node' # Rest /\ turn' - 1 = turn
  <2>1. node' \in {<<definition'.entry, "worker">>,
                   <<definition'.entry, definition'.steps[definition'.entry].type>>}
    BY <1>3 DEF EntryNode
  <2>2. definition'.entry # None
    <3>1. definition' \in Definitions /\ definition'.entry \in DOMAIN definition'.steps
      BY DefinitionsAssumption DEF BeginTurn, Valid
    <3>2. QED
      BY <3>1, StepOfDefinition
  <2>3. QED
    BY <1>2, <1>3, <2>1, <2>2 DEF Rest
<1>9. QED
  BY <1>3, <1>4, <1>5, <1>6, <1>7, <1>8 DEF VisibleInv, Visible, UpTo, Undelivered
\* A node that leads to no draft and to no rest, and adds at most a message of its own.
LEMMA QuietVisible ==
  ASSUME IInv, VisibleInv, node \notin {Rest, End}, UNCHANGED <<saved, definition, turn>>,
         \A u \in DOMAIN definition.steps : node' \notin {<<u, "reviewer">>, <<u, "finalize">>},
         node' # Rest,
         \/ state'.messages = state.messages
         \/ \E kind \in {"text", "call", "tool"} :
              state'.messages = Append(state.messages, New(kind, 0))
  PROVE  VisibleInv'
<1>1. turn \in Nat /\ state.messages \in Seq(Message)
  BY DEF IInv, TypeOK, State
<1>2. /\ Visible(state'.messages) /\ UpTo(state'.messages, turn) /\ Undelivered(state'.messages)
  <2>1. Visible(state.messages) /\ UpTo(state.messages, turn) /\ Undelivered(state.messages)
    BY DEF VisibleInv
  <2>2. ASSUME NEW kind \in {"text", "call", "tool"}
        PROVE  New(kind, 0) \in Message /\ New(kind, 0).turn = turn /\ New(kind, 0).round = 0
    BY <1>1, NewType DEF New
  <2>3. QED
    BY <1>1, <2>1, <2>2, AppendVisible
<1>3. QED
  BY <1>2 DEF VisibleInv, Visible, UpTo, Undelivered

LEMMA StepsVisible ==
  ASSUME IInv, VisibleInv, NEW s \in DOMAIN definition.steps, Agent(s) \/ Tools(s) \/ Route(s)
  PROVE  VisibleInv'
<1>1. /\ definition \in Definitions /\ state \in State /\ s # None
      /\ UNCHANGED <<saved, definition, turn>>
  <2>1. definition \in Definitions /\ state \in State
    BY DEF IInv, TypeOK
  <2>2. s # None
    BY <2>1, StepOfDefinition
  <2>3. QED
    BY <2>1, <2>2 DEF Agent, Tools, Route, Run
<1>2. node \notin {Rest, End}
  BY <1>1 DEF Agent, Tools, Route, Rest, End
<1>3. \/ state'.messages = state.messages
      \/ \E kind \in {"text", "call", "tool"} :
           state'.messages = Append(state.messages, New(kind, 0))
  BY <1>1 DEF Agent, Tools, Route, Run, State
<1>4. ASSUME NEW t \in DOMAIN definition.steps, NEW u
      PROVE  EntryNode(definition, t) \notin {Rest, <<u, "reviewer">>, <<u, "finalize">>}
  <2>1. t # None
    BY <1>1, StepOfDefinition
  <2>2. EntryNode(definition, t) # Rest
    BY <2>1 DEF EntryNode, Rest
  <2>3. QED
    BY <1>1, <2>2, EntryRoles
<1>5. \A u \in DOMAIN definition.steps : node' \notin {Rest, <<u, "reviewer">>, <<u, "finalize">>}
  <2>1. CASE Agent(s)
    <3>1. Def(s).type = "agent"
      BY <2>1 DEF Agent, IInv, NodeInv
    <3>2. node' = <<s, "tools">> \/ node' = NextNode(s)
      BY <2>1 DEF Agent, Run, AfterAgent
    <3>3. CASE node' = <<s, "tools">>
      BY <3>3, <1>1 DEF Rest
    <3>4. CASE node' = NextNode(s) /\ Def(s).next = None
      BY <3>4 DEF NextNode, End, Rest
    <3>5. CASE node' = NextNode(s) /\ Def(s).next # None
      <4>1. Def(s).next \in DOMAIN definition.steps
        BY <1>1, <3>1, <3>5, StepOfDefinition DEF Targets, Def
      <4>2. QED
        BY <1>4, <3>5, <4>1 DEF NextNode
    <3>6. QED
      BY <3>2, <3>3, <3>4, <3>5
  <2>2. CASE Tools(s)
    BY <1>1, <2>2 DEF Tools, Run, Rest
  <2>3. CASE Route(s)
    <3>1. PICK i \in DOMAIN Def(s).branches : node' = EntryNode(definition, Def(s).branches[i])
      BY <2>3 DEF Route, Run
    <3>2. Def(s).type = "route"
      BY <2>3 DEF Route, IInv, NodeInv
    <3>3. Def(s).branches[i] \in DOMAIN definition.steps
      BY <1>1, <3>1, <3>2, StepOfDefinition DEF Targets, Def
    <3>4. QED
      BY <1>4, <3>1, <3>3
  <2>4. QED
    BY <2>1, <2>2, <2>3
<1>6. CASE DOMAIN definition.steps # {}
  <2>1. node' # Rest
    BY <1>5
  <2>2. QED
    BY <1>1, <1>2, <1>3, <1>5, <2>1, QuietVisible
<1>7. QED
  BY <1>6

LEMMA LoopVisible ==
  ASSUME IInv, VisibleInv, NEW s \in DOMAIN definition.steps, Worker(s) \/ Reviewer(s)
  PROVE  VisibleInv'
<1>1. /\ definition \in Definitions /\ state \in State /\ s # None /\ turn \in Nat
      /\ UNCHANGED <<saved, definition, turn>> /\ state'.messages = state.messages
      /\ node \in {<<s, "worker">>, <<s, "reviewer">>}
      /\ node' \in {<<s, "worker">>, <<s, "reviewer">>, <<s, "finalize">>}
  <2>1. definition \in Definitions /\ state \in State /\ turn \in Nat
    BY DEF IInv, TypeOK
  <2>2. s # None
    BY <2>1, StepOfDefinition
  <2>3. QED
    BY <2>1, <2>2 DEF Worker, Reviewer, Run, AfterReview, State
<1>2. node \notin {Rest, End} /\ node' \notin {Rest, End}
  BY <1>1 DEF Rest, End
<1>3. OfDraft(state'.exchange, state'.draft)
  <2>1. CASE Worker(s)
    <3>1. \A n \in 0 .. IF Def(s).tools THEN WorkerRounds ELSE 0 : n \in Nat
      OBVIOUS
    <3>2. PICK n \in Nat :
            /\ state'.exchange = Exchange(s, n)
            /\ state'.draft = [turn |-> turn, round |-> Round(s)]
      BY <1>1, <2>1, <3>1 DEF Worker, Run, State
    <3>3. QED
      BY <3>2 DEF OfDraft, Exchange, New
  <2>2. CASE Reviewer(s)
    <3>1. state'.exchange = state.exchange /\ state'.draft = state.draft /\ node = <<s, "reviewer">>
      BY <1>1, <2>2 DEF Reviewer, Run, State
    <3>2. QED
      BY <3>1 DEF VisibleInv
  <2>3. QED
    BY <2>1, <2>2
<1>4. QED
  BY <1>1, <1>2, <1>3 DEF VisibleInv, Visible, UpTo, Undelivered, OfDraft

\* What is delivered is all of one round, and nothing of the turn was visible before.
LEMMA FinalizeVisible ==
  ASSUME IInv, VisibleInv, NEW s \in DOMAIN definition.steps, Finalize(s)
  PROVE  VisibleInv'
<1>1. /\ definition \in Definitions /\ state \in State /\ turn \in Nat
      /\ node = <<s, "finalize">> /\ state.draft.turn = turn /\ state.draft.round \in Nat
  BY DEF IInv, TypeOK, NodeInv, Finalize, State
<1>2. PICK a, b, m :
        /\ a = state.messages /\ b = state.exchange /\ m = New("text", state.draft.round)
  OBVIOUS
<1>3. /\ a \in Seq(Message) /\ b \in Seq(Message) /\ m \in Message
      /\ m.turn = turn /\ m.round = state.draft.round
  BY <1>1, <1>2, NewType DEF State, New
<1>4. PICK longer : longer = a \o b \o <<m>>
  OBVIOUS
<1>5. \A i \in DOMAIN longer :
        \/ i \in DOMAIN a /\ longer[i] = a[i]
        \/ \E j \in DOMAIN b : longer[i] = b[j]
        \/ longer[i] = m
  <2>1. PICK n \in Nat, k \in Nat : n = Len(a) /\ k = Len(b)
    BY <1>3
  <2>2. /\ DOMAIN longer = 1 .. n + k + 1 /\ DOMAIN a = 1 .. n /\ DOMAIN b = 1 .. k
        /\ \A j \in 1 .. n : longer[j] = a[j]
        /\ \A j \in 1 .. k : longer[n + j] = b[j]
        /\ longer[n + k + 1] = m
    BY <1>3, <1>4, <2>1
  <2>3. ASSUME NEW i \in n + 1 .. n + k PROVE \E j \in DOMAIN b : longer[i] = b[j]
    <3>1. i - n \in 1 .. k /\ n + (i - n) = i
      BY <2>1
    <3>2. longer[n + (i - n)] = b[i - n]
      BY <2>2, <3>1
    <3>3. QED
      BY <2>2, <3>1, <3>2
  <2>4. \A i \in 1 .. n + k + 1 : i \in 1 .. n \/ i \in n + 1 .. n + k \/ i = n + k + 1
    OBVIOUS
  <2>5. QED
    BY <2>2, <2>3, <2>4
<1>6. Visible(a) /\ UpTo(a, turn) /\ Undelivered(a) /\ OfDraft(b, state.draft)
  BY <1>1, <1>2 DEF VisibleInv, Rest, End
<1>7. \A i \in DOMAIN longer :
        \/ i \in DOMAIN a /\ longer[i] = a[i]
        \/ longer[i].turn = turn /\ longer[i].round = state.draft.round
  BY <1>3, <1>5, <1>6 DEF OfDraft
<1>8. \A i \in DOMAIN longer :
        longer[i].turn = turn /\ longer[i].round # 0 => longer[i].round = state.draft.round
  BY <1>6, <1>7 DEF Undelivered
<1>9. Visible(longer)
  BY <1>6, <1>7, <1>8 DEF Visible
<1>10. UpTo(longer, turn)
  BY <1>1, <1>6, <1>7 DEF UpTo
<1>11. /\ UNCHANGED <<saved, definition, turn>> /\ node' = End
       /\ state'.messages = longer
  BY <1>1, <1>2, <1>4 DEF Finalize, Run, State
<1>12. node # Rest /\ node' # Rest /\ \A u : node' \notin {<<u, "reviewer">>, <<u, "finalize">>}
  BY <1>1, <1>11 DEF Rest, End
<1>13. QED
  BY <1>9, <1>10, <1>11, <1>12 DEF VisibleInv, Visible, UpTo

LEMMA EndVisible ==
  ASSUME IInv, VisibleInv, EndTurn \/ FailTurn
  PROVE  VisibleInv'
<1>1. /\ node' = Rest /\ definition' = definition /\ state'.messages = saved'.messages
      /\ \A u : node' \notin {<<u, "reviewer">>, <<u, "finalize">>}
  BY DEF EndTurn, FailTurn, Rest
<1>2. Visible(saved'.messages) /\ UpTo(saved'.messages, turn')
  <2>1. CASE EndTurn
    BY <2>1 DEF EndTurn, VisibleInv, Visible, UpTo
  <2>2. CASE FailTurn
    BY <2>2 DEF FailTurn, VisibleInv, Visible, UpTo
  <2>3. QED
    BY <2>1, <2>2
<1>3. QED
  BY <1>1, <1>2 DEF VisibleInv, Visible, UpTo

LEMMA NextVisible == IInv /\ VisibleInv /\ [Next]_vars => VisibleInv'
<1> SUFFICES ASSUME IInv, VisibleInv, [Next]_vars PROVE VisibleInv'
  OBVIOUS
<1>1. CASE RunNode
  BY <1>1, StepsVisible, LoopVisible, FinalizeVisible DEF RunNode
<1>2. CASE UNCHANGED vars
  BY <1>2 DEF vars, VisibleInv, Visible, UpTo, Undelivered, OfDraft
<1>3. QED
  BY <1>1, <1>2, BeginVisible, EndVisible DEF Next

\* However long the conversation and whatever fails, what a review loop leaves in it is
\* the draft of one round and the calls of that round: a rejected draft leaves nothing.
THEOREM OneDraftCorrect == Spec => []OneDraftVisible
<1>1. VisibleInv => OneDraftVisible
  BY DEF VisibleInv, Visible, OneDraftVisible
<1>2. QED
  BY <1>1, InitVisible, NextVisible, Invariance, PTL DEF Spec
--------------------------------------------------------------------------------
(* Why a turn is bounded.  Where there is no cycle, the steps still ahead shrink     *)
(* from step to step, so what the steps left behind may have run is what the steps   *)
(* ahead leave of the whole.  A step that goes on has spent a tool call, counted     *)
(* over the conversation, or a review round.                                         *)

\* What the caps still allow when s is entered, and in all.
Left(d, s) == Cardinality(NodeRuns(d, ReachableFrom(d, {s})))
Total(d) == Cardinality(NodeRuns(d, DOMAIN d.steps))

\* The turn has run no node too many, but for those step s has run by itself.
Within(s, own) == taken + Left(definition, s) <= Total(definition) + own

StepBound(s) ==
  LET calls == CallRounds(state.messages)
      trips == Def(s).tools /\ ~ Def(s).task /\ calls < MaxRounds
  IN  /\ node = <<s, "agent">> => Within(s, 0) \/ (trips /\ Within(s, 2 * calls))
      /\ node = <<s, "tools">> => trips /\ Within(s, 2 * calls - 1)
      /\ node = <<s, "route">> => Within(s, 0)
      /\ node = <<s, "worker">> => Within(s, 2 * state.rounds[s])
      /\ node = <<s, "reviewer">> => Within(s, 2 * state.rounds[s] + 1)
      /\ node = <<s, "finalize">> =>
           state.rounds[s] <= Def(s).maxIterations /\ Within(s, 2 * state.rounds[s])

Bounded ==
  /\ node \in {Rest, End} => taken <= Total(definition)
  /\ \A s \in DOMAIN definition.steps : StepBound(s)

BoundInv ==
  /\ node # Rest => state.messages # <<>>
  /\ Acyclic(definition) => Bounded

LEMMA BudgetType ==
  ASSUME NEW d \in Definitions, NEW s \in DOMAIN d.steps
  PROVE  /\ Budget(d, s) \in Nat /\ Budget(d, s) >= 1
         /\ Budget(d, s) <= 2 * MaxRounds + 2 * Ceiling + 1
<1>1. d.steps[s] \in StepDef /\ (d.steps[s].type = "loop" => d.steps[s].maxIterations <= Ceiling)
  BY DefinitionsAssumption DEF Valid
<1>2. MaxRounds \in Nat /\ MaxRounds >= 1 /\ Ceiling \in Nat
  BY BoundsAssumption
<1>3. CASE d.steps[s].type = "agent"
  BY <1>2, <1>3 DEF Budget
<1>4. CASE d.steps[s].type = "route"
  BY <1>2, <1>4 DEF Budget
<1>5. CASE d.steps[s].type = "loop"
  <2>1. PICK n \in Nat : n = d.steps[s].maxIterations /\ n <= Ceiling
    BY <1>1, <1>5, StepFields
  <2>2. Budget(d, s) = 2 * n + 1
    BY <1>5, <2>1 DEF Budget
  <2>3. QED
    BY <1>2, <2>1, <2>2
<1>6. QED
  BY <1>1, <1>3, <1>4, <1>5, StepFields

LEMMA NodeRunsFinite ==
  ASSUME NEW d \in Definitions, NEW S, S \subseteq DOMAIN d.steps
  PROVE  IsFiniteSet(NodeRuns(d, S)) /\ Cardinality(NodeRuns(d, S)) \in Nat
<1>1. PICK most \in Nat : most = 2 * MaxRounds + 2 * Ceiling + 1
  BY BoundsAssumption
<1>2. IsFiniteSet(DOMAIN d.steps) /\ IsFiniteSet(1 .. most)
  BY DefinitionsAssumption, FS_Interval
<1>3. IsFiniteSet((DOMAIN d.steps) \X (1 .. most))
  BY <1>2, FS_Product
<1>4. NodeRuns(d, S) \subseteq (DOMAIN d.steps) \X (1 .. most)
  <2>1. ASSUME NEW s \in S PROVE {s} \X (1 .. Budget(d, s)) \subseteq (DOMAIN d.steps) \X (1 .. most)
    <3>1. Budget(d, s) \in Nat /\ Budget(d, s) <= most
      BY <1>1, BudgetType
    <3>2. 1 .. Budget(d, s) \subseteq 1 .. most
      BY <1>1, <3>1
    <3>3. QED
      BY <3>2
  <2>2. QED
    BY <2>1 DEF NodeRuns
<1>5. QED
  BY <1>3, <1>4, FS_Subset, FS_CardinalityType

\* A step apart from those of S adds its own budget.
LEMMA NodeRunsApart ==
  ASSUME NEW d \in Definitions, NEW s \in DOMAIN d.steps, NEW S, NEW T,
         S \cup {s} \subseteq T, T \subseteq DOMAIN d.steps, s \notin S
  PROVE  Cardinality(NodeRuns(d, S)) + Budget(d, s) <= Cardinality(NodeRuns(d, T))
<1> DEFINE own == {s} \X (1 .. Budget(d, s))
<1>1. IsFiniteSet(own) /\ Cardinality(own) = Budget(d, s)
  <2>1. PICK b \in Nat : b = Budget(d, s) /\ b >= 1
    BY BudgetType
  <2>2. IsFiniteSet(1 .. b) /\ Cardinality(1 .. b) = b
    BY <2>1, FS_Interval
  <2>3. IsFiniteSet({s}) /\ Cardinality({s}) = 1
    BY FS_Singleton
  <2>4. IsFiniteSet({s} \X (1 .. b)) /\ Cardinality({s} \X (1 .. b)) = 1 * b
    BY <2>2, <2>3, FS_Product
  <2>5. QED
    BY <2>1, <2>4
<1>2. NodeRuns(d, S) \cap own = {}
  BY DEF NodeRuns
<1>3. NodeRuns(d, S) \cup own \subseteq NodeRuns(d, T)
  BY DEF NodeRuns
<1>4. /\ IsFiniteSet(NodeRuns(d, S)) /\ Cardinality(NodeRuns(d, S)) \in Nat
      /\ IsFiniteSet(NodeRuns(d, T)) /\ Cardinality(NodeRuns(d, T)) \in Nat
  BY NodeRunsFinite
<1> HIDE DEF own
<1>5. /\ Cardinality(NodeRuns(d, S) \cup own)
           = Cardinality(NodeRuns(d, S)) + Cardinality(own) - Cardinality(NodeRuns(d, S) \cap own)
      /\ Cardinality(NodeRuns(d, S) \cup own) <= Cardinality(NodeRuns(d, T))
  BY <1>1, <1>3, <1>4, FS_Union, FS_Subset
<1>6. Cardinality(NodeRuns(d, S) \cap own) = 0
  BY <1>2, FS_EmptySet
<1>7. QED
  BY <1>1, <1>4, <1>5, <1>6, BudgetType

\* What is reached from a target is reached from the step, and not the step again.
LEMMA Onward ==
  ASSUME NEW d \in Definitions, Acyclic(d), NEW s \in DOMAIN d.steps, NEW t \in Targets(d, s)
  PROVE  /\ ReachableFrom(d, {t}) \subseteq ReachableFrom(d, {s})
         /\ s \notin ReachableFrom(d, {t})
<1>1. ReachableFrom(d, {t}) \subseteq ReachableFrom(d, {s})
  BY DEF ReachableFrom
<1>2. ReachableFrom(d, {t}) \subseteq ReachableFrom(d, Targets(d, s))
  BY DEF ReachableFrom
<1>3. QED
  BY <1>1, <1>2 DEF Acyclic

LEMMA LeftType ==
  ASSUME NEW d \in Definitions, NEW s \in DOMAIN d.steps
  PROVE  /\ Left(d, s) \in Nat /\ Total(d) \in Nat
         /\ Budget(d, s) <= Left(d, s) /\ Left(d, s) <= Total(d)
<1>1. s \in ReachableFrom(d, {s}) /\ ReachableFrom(d, {s}) \subseteq DOMAIN d.steps
  BY DEF ReachableFrom
<1>2. Left(d, s) \in Nat /\ Total(d) \in Nat
  BY <1>1, NodeRunsFinite DEF Left, Total
<1>3. Budget(d, s) <= Left(d, s)
  <2>1. Cardinality(NodeRuns(d, {})) + Budget(d, s) <= Left(d, s)
    BY <1>1, NodeRunsApart DEF Left
  <2>2. Cardinality(NodeRuns(d, {})) = 0
    BY FS_EmptySet DEF NodeRuns
  <2>3. QED
    BY <1>2, <2>1, <2>2, BudgetType
<1>4. Left(d, s) <= Total(d)
  <2>1. NodeRuns(d, ReachableFrom(d, {s})) \subseteq NodeRuns(d, DOMAIN d.steps)
    BY <1>1 DEF NodeRuns
  <2>2. QED
    BY <2>1, NodeRunsFinite, FS_Subset DEF Left, Total
<1>5. QED
  BY <1>2, <1>3, <1>4

LEMMA LeftOnward ==
  ASSUME NEW d \in Definitions, Acyclic(d), NEW s \in DOMAIN d.steps, NEW t \in Targets(d, s)
  PROVE  Left(d, t) + Budget(d, s) <= Left(d, s)
<1>1. s \in ReachableFrom(d, {s}) /\ ReachableFrom(d, {s}) \subseteq DOMAIN d.steps
  BY DEF ReachableFrom
<1>2. QED
  BY <1>1, Onward, NodeRunsApart DEF Left
LEMMA CallsCounted ==
  ASSUME NEW messages \in Seq(Message), NEW m \in Message
  PROVE  /\ CallRounds(messages) \in Nat
         /\ CallRounds(Append(messages, m)) = CallRounds(messages) + IF IsCall(m) THEN 1 ELSE 0
<1> DEFINE calls == {i \in DOMAIN messages : IsCall(messages[i])}
           longer == Append(messages, m)
<1>1. PICK n \in Nat : n = Len(messages) /\ DOMAIN messages = 1 .. n
  OBVIOUS
<1>2. /\ DOMAIN longer = 1 .. n + 1 /\ longer[n + 1] = m
      /\ \A i \in 1 .. n : longer[i] = messages[i]
  BY <1>1
<1>3. IsFiniteSet(calls) /\ Cardinality(calls) \in Nat
  <2>1. IsFiniteSet(1 .. n)
    BY <1>1, FS_Interval
  <2>2. calls \subseteq 1 .. n
    BY <1>1
  <2> HIDE DEF calls
  <2>3. QED
    BY <2>1, <2>2, FS_Subset, FS_CardinalityType
<1>4. {i \in DOMAIN longer : IsCall(longer[i])} = IF IsCall(m) THEN calls \cup {n + 1} ELSE calls
  BY <1>1, <1>2
<1>5. n + 1 \notin calls
  BY <1>1
<1> HIDE DEF calls, longer
<1>6. Cardinality(calls \cup {n + 1}) = Cardinality(calls) + 1
  BY <1>3, <1>5, FS_AddElement
<1>7. CallRounds(messages) = Cardinality(calls)
  BY DEF CallRounds, calls
<1>8. CallRounds(longer) = Cardinality(calls) + IF IsCall(m) THEN 1 ELSE 0
  <2>1. CASE IsCall(m)
    BY <1>4, <1>6, <2>1 DEF CallRounds
  <2>2. CASE ~ IsCall(m)
    <3>1. CallRounds(longer) = Cardinality(calls)
      BY <1>4, <2>2 DEF CallRounds
    <3>2. QED
      BY <1>3, <2>2, <3>1
  <2>3. QED
    BY <2>1, <2>2
<1>9. QED
  BY <1>3, <1>7, <1>8 DEF longer

\* Entering a step with room for it and all that is left after it.
LEMMA EnterBound ==
  ASSUME definition' \in Definitions, NEW t \in DOMAIN definition'.steps,
         node' = EntryNode(definition', t),
         state'.rounds = Empty.rounds,
         taken' \in Nat, taken' + Left(definition', t) <= Total(definition')
  PROVE  Bounded'
<1>1. t \in Step /\ t # None /\ definition'.steps[t].type \in {"agent", "route", "loop"}
  BY StepOfDefinition, StepFields
<1>2. node' \in {<<t, "agent">>, <<t, "route">>, <<t, "worker">>}
  BY <1>1 DEF EntryNode
<1>3. state'.rounds[t] = 0
  BY <1>1 DEF Empty
<1>4. Within(t, 0)'
  BY LeftType DEF Within
<1>5. ASSUME NEW s \in DOMAIN definition'.steps PROVE StepBound(s)'
  <2>1. CASE s = t
    <3>1. node' = <<t, "worker">> => Within(t, 2 * state.rounds[t])'
      BY <1>3, <1>4 DEF Within
    <3>2. QED
      BY <1>2, <1>4, <2>1, <3>1 DEF StepBound
  <2>2. CASE s # t
    BY <1>2, <2>2 DEF StepBound
  <2>3. QED
    BY <2>1, <2>2
<1>6. node' \notin {Rest, End}
  BY <1>1, <1>2 DEF Rest, End
<1>7. QED
  BY <1>5, <1>6 DEF Bounded

\* Leaving a step that has run no more than its budget, for a target or for the end.
LEMMA LeaveBound ==
  ASSUME definition \in Definitions, Acyclic(definition), definition' = definition,
         NEW s \in DOMAIN definition.steps,
         taken' \in Nat,
         taken' + Left(definition, s) <= Total(definition) + Budget(definition, s),
         \/ node' = End
         \/ /\ state'.rounds = Empty.rounds
            /\ \E t \in Targets(definition, s) : node' = EntryNode(definition, t)
  PROVE  Bounded'
<1>1. CASE node' = End
  <2>1. \A u \in DOMAIN definition.steps : u # None
    BY StepOfDefinition
  <2>2. \A u \in DOMAIN definition'.steps : StepBound(u)'
    BY <1>1, <2>1 DEF StepBound, End
  <2>3. taken' <= Total(definition')
    BY LeftType, BudgetType
  <2>4. QED
    BY <2>2, <2>3 DEF Bounded
<1>2. ASSUME NEW t \in Targets(definition, s), node' = EntryNode(definition, t),
             state'.rounds = Empty.rounds
      PROVE  Bounded'
  <2>1. t \in DOMAIN definition.steps
    BY StepOfDefinition
  <2>2. Left(definition, t) + Budget(definition, s) <= Left(definition, s)
    BY LeftOnward
  <2>3. taken' + Left(definition, t) <= Total(definition)
    BY <2>1, <2>2, LeftType, BudgetType
  <2>4. QED
    BY <1>2, <2>1, <2>3, EnterBound
<1>3. QED
  BY <1>1, <1>2

\* Where an agent step goes on.
LEMMA NextTargets ==
  ASSUME NEW s \in DOMAIN definition.steps, Def(s).type = "agent"
  PROVE  NextNode(s) = End \/ \E t \in Targets(definition, s) : NextNode(s) = EntryNode(definition, t)
BY DEF NextNode, Targets, Def

\* Staying at a node of the same step.
LEMMA StayBound ==
  ASSUME definition \in Definitions, definition' = definition,
         NEW s \in DOMAIN definition.steps, NEW role, node' = <<s, role>>,
         StepBound(s)'
  PROVE  Bounded'
<1>1. s # None
  BY StepOfDefinition
<1>2. ASSUME NEW u \in DOMAIN definition'.steps PROVE StepBound(u)'
  <2>1. CASE u = s
    BY <2>1
  <2>2. CASE u # s
    BY <2>2 DEF StepBound
  <2>3. QED
    BY <2>1, <2>2
<1>3. QED
  BY <1>1, <1>2 DEF Bounded, Rest, End

\* A call that waits for no tool was cut off by the cap.
LEMMA WaitingIsCutOff ==
  ASSUME NEW messages \in Seq(Message), messages # <<>>,
         CutOffBefore(messages, Len(messages) + 1), IsCall(messages[Len(messages)])
  PROVE  ~ (CallRounds(messages) < MaxRounds)
<1>1. Len(messages) \in Nat /\ Len(messages) >= 1 /\ DOMAIN messages = 1 .. Len(messages)
  OBVIOUS
<1>2. Len(messages) \in Unanswered(messages)
  BY <1>1 DEF Unanswered
<1>3. CutOff(messages, Len(messages))
  BY <1>1, <1>2 DEF CutOffBefore
<1>4. CallRounds(messages) \in Nat /\ CallRounds(messages) >= MaxRounds
  <2>1. messages[1] \in Message
    BY <1>1
  <2>2. CallRounds(messages) \in Nat
    BY <2>1, CallsCounted
  <2>3. CallRounds(messages) = Cardinality({i \in 1 .. Len(messages) : IsCall(messages[i])})
    BY <1>1 DEF CallRounds
  <2>4. QED
    BY <1>3, <2>2, <2>3 DEF CutOff
<1>5. QED
  BY <1>4, BoundsAssumption

LEMMA AgentBound ==
  ASSUME IInv, AnsweredInv, BoundInv, Acyclic(definition),
         NEW s \in DOMAIN definition.steps, Agent(s)
  PROVE  Bounded'
<1>1. /\ definition \in Definitions /\ state \in State /\ turn \in Nat /\ taken \in Nat
      /\ Def(s).type = "agent" /\ node = <<s, "agent">> /\ state.rounds = Empty.rounds
      /\ state.messages \in Seq(Message) /\ state.messages # <<>>
  BY BoundsAssumption DEF IInv, TypeOK, NodeInv, Agent, State, BoundInv, Rest
<1>2. PICK kind \in {"text"} \cup (IF Def(s).tools THEN {"call"} ELSE {}) :
        LET update == IF Def(s).task THEN [state EXCEPT !.task = turn]
                      ELSE [state EXCEPT !.messages = Append(@, New(kind, 0))]
        IN  Run(update, AfterAgent(s, update.messages))
  BY DEF Agent
<1>3. /\ definition' = definition /\ taken' = taken + 1
      /\ node' = AfterAgent(s, state'.messages)
      /\ state'.messages = IF Def(s).task THEN state.messages ELSE Append(state.messages, New(kind, 0))
      /\ state'.rounds = Empty.rounds
  BY <1>1, <1>2 DEF Run, State
<1>4. New(kind, 0) \in Message
  BY <1>1, <1>2, NewType
<1>5. PICK calls \in Nat : calls = CallRounds(state.messages)
  BY <1>1, <1>4, CallsCounted
<1>6. StepBound(s)
  BY <1>1 DEF BoundInv, Bounded
<1>7. PICK left \in Nat, total \in Nat : left = Left(definition, s) /\ total = Total(definition)
  BY <1>1, LeftType
<1>8. /\ Def(s).tools \in BOOLEAN /\ Def(s).task \in BOOLEAN
      /\ Budget(definition, s) = IF Def(s).tools /\ ~ Def(s).task THEN 2 * MaxRounds - 1 ELSE 1
  BY <1>1, StepOfDefinition, StepFields DEF Budget, Def
<1>9. MaxRounds \in Nat /\ MaxRounds >= 1
  BY BoundsAssumption
<1>10. \/ taken + left <= total
       \/ Def(s).tools /\ ~ Def(s).task /\ calls < MaxRounds /\ taken + left <= total + 2 * calls
  BY <1>1, <1>5, <1>6, <1>7 DEF StepBound, Within
<1>11. CASE node' = NextNode(s)
  <2>1. taken' + left <= total + Budget(definition, s)
    BY <1>1, <1>3, <1>8, <1>9, <1>10
  <2>2. QED
    BY <1>1, <1>3, <1>7, <1>11, <2>1, NextTargets, LeaveBound
<1>12. CASE node' = <<s, "tools">> /\ node' # NextNode(s)
  <2>1. /\ Def(s).tools /\ IsCall(state'.messages[Len(state'.messages)])
        /\ CallRounds(state'.messages) < MaxRounds
    BY <1>3, <1>12 DEF AfterAgent
  <2>2. ~ Def(s).task
    <3>1. CutOffBefore(state.messages, Len(state.messages) + 1)
      BY <1>1 DEF AnsweredInv
    <3>2. QED
      BY <1>1, <1>3, <1>8, <2>1, <3>1, WaitingIsCutOff
  <2>3. state'.messages = Append(state.messages, New(kind, 0))
    BY <1>3, <2>2
  <2>4. IsCall(New(kind, 0))
    BY <1>1, <1>4, <2>1, <2>3
  <2>5. CallRounds(state'.messages) = calls + 1
    BY <1>1, <1>4, <1>5, <2>3, <2>4, CallsCounted
  <2>6. taken' + left <= total + (2 * (calls + 1) - 1)
    BY <1>1, <1>3, <1>10
  <2>7. StepBound(s)'
    <3>1. Within(s, 2 * CallRounds(state.messages) - 1)'
      BY <1>3, <1>7, <2>5, <2>6 DEF Within
    <3>2. (Def(s).tools /\ ~ Def(s).task /\ CallRounds(state.messages) < MaxRounds)'
      BY <1>3, <2>1, <2>2 DEF Def
    <3>3. QED
      BY <1>12, <3>1, <3>2 DEF StepBound
  <2>8. QED
    BY <1>1, <1>3, <1>12, <2>7, StayBound
<1>13. QED
  BY <1>3, <1>11, <1>12 DEF AfterAgent

LEMMA ToolsBound ==
  ASSUME IInv, BoundInv, Acyclic(definition), NEW s \in DOMAIN definition.steps, Tools(s)
  PROVE  Bounded'
<1> DEFINE m == New("tool", 0)
<1>1. /\ definition \in Definitions /\ state \in State /\ taken \in Nat
      /\ state.messages \in Seq(Message) /\ m \in Message /\ ~ IsCall(m)
  <2>1. definition \in Definitions /\ state \in State /\ turn \in Nat /\ taken \in Nat
    BY BoundsAssumption DEF IInv, TypeOK
  <2>2. m \in Message /\ ~ IsCall(m)
    BY <2>1, NewType DEF New, IsCall
  <2>3. QED
    BY <2>1, <2>2 DEF State
<1>2. /\ definition' = definition /\ taken' = taken + 1
      /\ node = <<s, "tools">> /\ node' = <<s, "agent">>
      /\ state'.messages = Append(state.messages, m)
  BY <1>1 DEF Tools, Run, State
<1> HIDE DEF m
<1>3. PICK calls \in Nat : calls = CallRounds(state.messages) /\ calls = CallRounds(state'.messages)
  BY <1>1, <1>2, CallsCounted
<1>4. PICK left \in Nat, total \in Nat : left = Left(definition, s) /\ total = Total(definition)
  BY <1>1, LeftType
<1>5. /\ Def(s).tools /\ ~ Def(s).task /\ calls < MaxRounds
      /\ taken + left <= total + (2 * calls - 1)
  BY <1>2, <1>3, <1>4 DEF BoundInv, Bounded, StepBound, Within
<1>6. taken' + left <= total + 2 * calls
  BY <1>1, <1>2, <1>5
<1>7. StepBound(s)'
  BY <1>2, <1>3, <1>4, <1>5, <1>6 DEF StepBound, Within, Def
<1>8. QED
  BY <1>1, <1>2, <1>7, StayBound

LEMMA RouteBound ==
  ASSUME IInv, BoundInv, Acyclic(definition), NEW s \in DOMAIN definition.steps, Route(s)
  PROVE  Bounded'
<1>1. /\ definition \in Definitions /\ state \in State /\ taken \in Nat
      /\ Def(s).type = "route" /\ node = <<s, "route">> /\ state.rounds = Empty.rounds
  BY BoundsAssumption DEF IInv, TypeOK, NodeInv, Route
<1>2. PICK i \in DOMAIN Def(s).branches :
        Run([state EXCEPT !.messages = Append(@, New("text", 0))],
            EntryNode(definition, Def(s).branches[i]))
  BY DEF Route
<1>3. /\ definition' = definition /\ taken' = taken + 1
      /\ state'.rounds = Empty.rounds
      /\ node' = EntryNode(definition, Def(s).branches[i])
  BY <1>1, <1>2 DEF Run, State
<1>4. Def(s).branches[i] \in Targets(definition, s)
  BY <1>1 DEF Targets, Def
<1>5. taken + Left(definition, s) <= Total(definition)
  BY <1>1, LeftType DEF BoundInv, Bounded, StepBound, Within
<1>6. Budget(definition, s) = 1
  BY <1>1 DEF Budget, Def
<1>7. taken' + Left(definition, s) <= Total(definition) + Budget(definition, s)
  BY <1>1, <1>3, <1>5, <1>6, LeftType
<1>8. QED
  BY <1>1, <1>3, <1>4, <1>7, LeaveBound

LEMMA LoopBound ==
  ASSUME IInv, BoundInv, Acyclic(definition), NEW s \in DOMAIN definition.steps,
         Worker(s) \/ Reviewer(s)
  PROVE  Bounded'
<1>1. /\ definition \in Definitions /\ state \in State /\ taken \in Nat /\ s \in Step
      /\ state.rounds \in [Step -> Nat]
  <2>1. definition \in Definitions /\ state \in State /\ taken \in Nat
    BY BoundsAssumption DEF IInv, TypeOK
  <2>2. QED
    BY <2>1, StepOfDefinition DEF State
<1>2. PICK left \in Nat, total \in Nat : left = Left(definition, s) /\ total = Total(definition)
  BY <1>1, LeftType
<1>3. PICK rounds \in Nat : rounds = state.rounds[s]
  BY <1>1
<1>4. definition' = definition /\ taken' = taken + 1
  BY DEF Worker, Reviewer, Run
<1>5. CASE Worker(s)
  <2>1. node = <<s, "worker">> /\ node' = <<s, "reviewer">> /\ state'.rounds = state.rounds
    BY <1>1, <1>5 DEF Worker, Run, State
  <2>2. taken + left <= total + 2 * rounds
    BY <1>2, <1>3, <2>1 DEF BoundInv, Bounded, StepBound, Within
  <2>3. taken' + left <= total + (2 * rounds + 1)
    BY <1>1, <1>4, <2>2
  <2>4. StepBound(s)'
    BY <1>2, <1>3, <1>4, <2>1, <2>3 DEF StepBound, Within
  <2>5. QED
    BY <1>1, <1>4, <2>1, <2>4, StayBound
<1>6. CASE Reviewer(s)
  <2>1. /\ node = <<s, "reviewer">> /\ node' \in {<<s, "worker">>, <<s, "finalize">>}
        /\ state'.rounds[s] = rounds + 1
    <3>1. PICK review :
            LET update == [state EXCEPT !.review = review, !.rounds[s] = @ + 1]
            IN  Run(update, AfterReview(s, update))
      BY <1>6 DEF Reviewer
    <3>2. /\ state' = [state EXCEPT !.review = review, !.rounds[s] = @ + 1]
          /\ node' = AfterReview(s, state')
      BY <3>1 DEF Run
    <3>3. state'.rounds[s] = rounds + 1
      BY <1>1, <1>3, <3>2 DEF State
    <3>4. node = <<s, "reviewer">> /\ node' \in {<<s, "worker">>, <<s, "finalize">>}
      BY <1>6, <3>2 DEF Reviewer, AfterReview
    <3>5. QED
      BY <3>3, <3>4
  <2>2. taken + left <= total + (2 * rounds + 1)
    BY <1>2, <1>3, <2>1 DEF BoundInv, Bounded, StepBound, Within
  <2>3. taken' + left <= total + 2 * (rounds + 1)
    BY <1>1, <1>4, <2>2
  <2>4. rounds + 1 <= Def(s).maxIterations
    <3>1. Def(s).type = "loop" /\ rounds < Def(s).maxIterations
      BY <1>3, <2>1 DEF IInv, NodeInv
    <3>2. Def(s).maxIterations \in Nat
      BY <1>1, <3>1, StepOfDefinition, StepFields DEF Def
    <3>3. QED
      BY <3>1, <3>2
  <2>5. StepBound(s)'
    BY <1>2, <1>4, <2>1, <2>3, <2>4 DEF StepBound, Within, Def
  <2>6. QED
    BY <1>1, <1>4, <2>1, <2>5, StayBound
<1>7. QED
  BY <1>5, <1>6

LEMMA FinalizeBound ==
  ASSUME IInv, BoundInv, Acyclic(definition), NEW s \in DOMAIN definition.steps, Finalize(s)
  PROVE  Bounded'
<1>1. /\ definition \in Definitions /\ taken \in Nat /\ state.rounds[s] \in Nat
      /\ node = <<s, "finalize">> /\ Def(s).type = "loop" /\ Def(s).maxIterations \in Nat
  BY BoundsAssumption, StepOfDefinition, StepFields
     DEF IInv, TypeOK, State, NodeInv, Finalize, Def
<1>2. definition' = definition /\ taken' = taken + 1 /\ node' = End
  BY DEF Finalize, Run
<1>3. PICK left \in Nat, total \in Nat : left = Left(definition, s) /\ total = Total(definition)
  BY <1>1, LeftType
<1>4. state.rounds[s] <= Def(s).maxIterations /\ taken + left <= total + 2 * state.rounds[s]
  BY <1>1, <1>3 DEF BoundInv, Bounded, StepBound, Within
<1>5. Budget(definition, s) = 2 * Def(s).maxIterations + 1
  BY <1>1 DEF Budget, Def
<1>6. taken' + left <= total + Budget(definition, s)
  BY <1>1, <1>2, <1>4, <1>5
<1>7. QED
  BY <1>1, <1>2, <1>3, <1>6, LeaveBound

\* A turn has its question, so the conversation of a turn that runs is never empty.
LEMMA NextMessages ==
  ASSUME IInv, BoundInv, [Next]_vars
  PROVE  (node # Rest => state.messages # <<>>)'
<1>1. /\ state \in State /\ saved \in State
      /\ state.messages \in Seq(Message) /\ saved.messages \in Seq(Message)
      /\ state.exchange \in Seq(Message)
  BY DEF IInv, TypeOK, State
<1>2. ASSUME BeginTurn PROVE state'.messages # <<>>
  <2>1. \E m : state'.messages = Append(saved.messages, m)
    BY <1>1, <1>2 DEF BeginTurn, Input, State
  <2>2. QED
    BY <1>1, <2>1
<1>3. ASSUME NEW s \in DOMAIN definition.steps,
             Agent(s) \/ Tools(s) \/ Route(s) \/ Worker(s) \/ Reviewer(s) \/ Finalize(s)
      PROVE  state'.messages # <<>>
  <2>1. state.messages # <<>>
    <3>1. node # Rest
      <4>1. \/ node = <<s, "agent">> \/ node = <<s, "tools">> \/ node = <<s, "route">>
            \/ node = <<s, "worker">> \/ node = <<s, "reviewer">> \/ node = <<s, "finalize">>
        BY <1>3, Zenon DEF Agent, Tools, Route, Worker, Reviewer, Finalize
      <4>2. QED
        BY <4>1 DEF Rest
    <3>2. QED
      BY <3>1 DEF BoundInv
  <2>2. CASE Agent(s)
    <3>1. \/ state'.messages = state.messages
          \/ \E m : state'.messages = Append(state.messages, m)
      BY <1>1, <2>2 DEF Agent, Run, State
    <3>2. QED
      BY <1>1, <2>1, <3>1
  <2>3. CASE Tools(s) \/ Route(s)
    <3>1. \E m : state'.messages = Append(state.messages, m)
      BY <1>1, <2>3 DEF Tools, Route, Run, State
    <3>2. QED
      BY <1>1, <3>1
  <2>4. CASE Worker(s) \/ Reviewer(s)
    BY <1>1, <2>1, <2>4 DEF Worker, Reviewer, Run, State
  <2>5. CASE Finalize(s)
    <3>1. PICK m : state'.messages = state.messages \o state.exchange \o <<m>>
      BY <1>1, <2>5 DEF Finalize, Run, State
    <3>2. PICK base \in Seq(Message) : base = state.messages \o state.exchange
      <4>1. state.messages \o state.exchange \in Seq(Message)
        BY <1>1
      <4>2. QED
        BY <4>1, Zenon
    <3>3. Len(base \o <<m>>) = Len(base) + 1
      OBVIOUS
    <3>4. QED
      BY <3>1, <3>2, <3>3
  <2>6. QED
    BY <1>3, <2>2, <2>3, <2>4, <2>5
<1>4. CASE EndTurn \/ FailTurn
  BY <1>4 DEF EndTurn, FailTurn
<1>5. CASE UNCHANGED vars
  BY <1>5 DEF vars, BoundInv
<1>6. QED
  BY <1>2, <1>3, <1>4, <1>5 DEF Next, RunNode

LEMMA BeginBound ==
  ASSUME IInv, BeginTurn
  PROVE  Bounded'
<1>1. definition' \in Definitions /\ definition'.entry \in DOMAIN definition'.steps
  BY DefinitionsAssumption DEF BeginTurn, Valid
<1>2. node' = EntryNode(definition', definition'.entry) /\ taken' = 0
  BY DEF BeginTurn
<1>3. state'.rounds = Empty.rounds
  BY DEF BeginTurn, Input, IInv, TypeOK, State
<1>4. taken' + Left(definition', definition'.entry) <= Total(definition')
  BY <1>1, <1>2, LeftType
<1>5. QED
  BY <1>1, <1>2, <1>3, <1>4, EnterBound

LEMMA TurnEndBound ==
  ASSUME IInv, BoundInv, Acyclic(definition), EndTurn \/ FailTurn
  PROVE  Bounded'
<1>1. definition \in Definitions /\ definition' = definition /\ node' = Rest
  BY DEF IInv, TypeOK, EndTurn, FailTurn
<1>2. taken' <= Total(definition')
  <2>1. CASE EndTurn
    BY <1>1, <2>1 DEF EndTurn, BoundInv, Bounded
  <2>2. CASE FailTurn
    <3>1. Total(definition) \in Nat
      BY <1>1, NodeRunsFinite DEF Total
    <3>2. QED
      BY <1>1, <2>2, <3>1 DEF FailTurn
  <2>3. QED
    BY <2>1, <2>2
<1>3. \A s \in DOMAIN definition'.steps : StepBound(s)'
  <2>1. \A s \in DOMAIN definition.steps : s # None
    BY <1>1, StepOfDefinition
  <2>2. QED
    BY <1>1, <2>1 DEF StepBound, Rest
<1>4. QED
  BY <1>2, <1>3 DEF Bounded

LEMMA InitBound == Init => BoundInv
<1> SUFFICES ASSUME Init PROVE BoundInv
  OBVIOUS
<1>1. definition \in Definitions /\ node = Rest /\ taken = 0
  BY DEF Init
<1>2. Total(definition) \in Nat
  BY <1>1, NodeRunsFinite DEF Total
<1>3. \A s \in DOMAIN definition.steps : StepBound(s)
  <2>1. \A s \in DOMAIN definition.steps : s # None
    BY <1>1, StepOfDefinition
  <2>2. QED
    BY <1>1, <2>1 DEF StepBound, Rest
<1>4. QED
  BY <1>1, <1>2, <1>3 DEF BoundInv, Bounded

LEMMA NextBound == IInv /\ AnsweredInv /\ BoundInv /\ [Next]_vars => BoundInv'
<1> SUFFICES ASSUME IInv, AnsweredInv, BoundInv, [Next]_vars PROVE BoundInv'
  OBVIOUS
<1>1. ASSUME Acyclic(definition') PROVE Bounded'
  <2>1. CASE BeginTurn
    BY <2>1, BeginBound
  <2>2. CASE RunNode
    <3>1. PICK s \in DOMAIN definition.steps :
            Agent(s) \/ Tools(s) \/ Route(s) \/ Worker(s) \/ Reviewer(s) \/ Finalize(s)
      BY <2>2 DEF RunNode
    <3>2. Acyclic(definition)
      BY <1>1, <3>1 DEF Agent, Tools, Route, Worker, Reviewer, Finalize, Run
    <3>3. QED
      BY <3>1, <3>2, AgentBound, ToolsBound, RouteBound, LoopBound, FinalizeBound
  <2>3. CASE EndTurn \/ FailTurn
    <3>1. Acyclic(definition)
      BY <1>1, <2>3 DEF EndTurn, FailTurn
    <3>2. QED
      BY <2>3, <3>1, TurnEndBound
  <2>4. CASE UNCHANGED vars
    BY <1>1, <2>4 DEF vars, BoundInv, Bounded, StepBound, Within, Def
  <2>5. QED
    BY <2>1, <2>2, <2>3, <2>4 DEF Next
<1>2. QED
  BY <1>1, NextMessages DEF BoundInv

\* At every node the turn has run no more than everything the caps allow.
LEMMA BoundGivesTurn == IInv /\ BoundInv => TurnBounded
<1> SUFFICES ASSUME IInv, BoundInv, Acyclic(definition) PROVE taken <= Total(definition)
  BY DEF TurnBounded, Total
<1>1. definition \in Definitions /\ taken \in Nat /\ state \in State
  BY BoundsAssumption DEF IInv, TypeOK
<1>2. ASSUME NEW s \in DOMAIN definition.steps, NEW role \in Role, node = <<s, role>>
      PROVE  taken <= Total(definition)
  <2>1. PICK left \in Nat, total \in Nat : left = Left(definition, s) /\ total = Total(definition)
    BY <1>1, LeftType
  <2>2. Budget(definition, s) <= left /\ Budget(definition, s) \in Nat
    BY <1>1, <2>1, LeftType, BudgetType
  <2>3. StepBound(s) /\ NodeInv(s)
    BY DEF BoundInv, Bounded, IInv
  <2>4. CASE role \in {"agent", "tools"}
    <3>1. /\ state.messages \in Seq(Message) /\ state.messages # <<>>
          /\ Def(s).type = "agent"
      BY <1>1, <1>2, <2>3, <2>4 DEF BoundInv, State, Rest, NodeInv
    <3>2. PICK calls \in Nat : calls = CallRounds(state.messages)
      <4>1. New("text", 0) \in Message
        BY NewType DEF IInv, TypeOK
      <4>2. QED
        BY <3>1, <4>1, CallsCounted
    <3>3. Def(s).tools /\ ~ Def(s).task => Budget(definition, s) = 2 * MaxRounds - 1
      BY <3>1 DEF Budget, Def
    <3>4. \/ taken + left <= total
          \/ /\ Def(s).tools /\ ~ Def(s).task /\ calls < MaxRounds
             /\ taken + left <= total + 2 * calls
      <4>1. CASE role = "agent"
        BY <1>2, <2>1, <2>3, <3>2, <4>1 DEF StepBound, Within
      <4>2. CASE role = "tools"
        <5>1. /\ Def(s).tools /\ ~ Def(s).task /\ calls < MaxRounds
              /\ taken + left <= total + (2 * calls - 1)
          BY <1>2, <2>1, <2>3, <3>2, <4>2 DEF StepBound, Within
        <5>2. QED
          BY <1>1, <5>1
      <4>3. QED
        BY <2>4, <4>1, <4>2
    <3>5. MaxRounds \in Nat
      BY BoundsAssumption
    <3>6. QED
      BY <1>1, <2>1, <2>2, <3>3, <3>4, <3>5
  <2>5. CASE role = "route"
    BY <1>1, <1>2, <2>1, <2>3, <2>5 DEF StepBound, Within
  <2>6. CASE role \in {"worker", "reviewer", "finalize"}
    <3>1. Def(s).type = "loop"
      BY <1>2, <2>3, <2>6 DEF NodeInv
    <3>2. PICK rounds \in Nat, max \in Nat : rounds = state.rounds[s] /\ max = Def(s).maxIterations
      BY <1>1, <3>1, StepOfDefinition, StepFields DEF State, Def
    <3>3. Budget(definition, s) = 2 * max + 1
      BY <3>1, <3>2 DEF Budget, Def
    <3>4. rounds <= max /\ taken + left <= total + (2 * rounds + 1)
      <4>1. CASE role = "worker"
        <5>1. rounds < max /\ taken + left <= total + 2 * rounds
          BY <1>2, <2>1, <2>3, <3>2, <4>1 DEF StepBound, NodeInv, Within
        <5>2. QED
          BY <1>1, <5>1
      <4>2. CASE role = "reviewer"
        <5>1. rounds < max /\ taken + left <= total + (2 * rounds + 1)
          BY <1>2, <2>1, <2>3, <3>2, <4>2 DEF StepBound, NodeInv, Within
        <5>2. QED
          BY <1>1, <5>1
      <4>3. CASE role = "finalize"
        <5>1. rounds <= max /\ taken + left <= total + 2 * rounds
          BY <1>2, <2>1, <2>3, <3>2, <4>3 DEF StepBound, Within
        <5>2. QED
          BY <1>1, <5>1
      <4>4. QED
        BY <2>6, <4>1, <4>2, <4>3
    <3>5. QED
      BY <1>1, <2>1, <2>2, <3>3, <3>4
  <2>7. QED
    BY <1>2, <2>4, <2>5, <2>6 DEF Role
<1>3. CASE node \in {Rest, End}
  BY <1>3 DEF BoundInv, Bounded
<1>4. node \in {Rest, End} \/ \E s \in DOMAIN definition.steps, role \in Role : node = <<s, role>>
  BY DEF IInv, TypeOK
<1>5. QED
  BY <1>2, <1>3, <1>4

\* Whatever the models answer, whichever definitions are published and however long the
\* conversation: a turn of a workflow without cycles runs no more nodes than its caps
\* allow, so it comes to its end.
THEOREM BoundCorrect == Spec => []TurnBounded
<1>1. Spec => [](IInv /\ AnsweredInv)
  BY InitAnswered, NextAnswered, Invariance, PTL DEF Spec
<1>2. Spec => []BoundInv
  BY <1>1, InitBound, NextBound, PTL DEF Spec
<1>3. QED
  BY <1>2, BoundGivesTurn, Invariance, PTL
================================================================================
