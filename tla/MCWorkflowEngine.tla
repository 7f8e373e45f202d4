---------------------------- MODULE MCWorkflowEngine ---------------------------
EXTENDS WorkflowEngine

AgentStep(tools, task, next) == [type |-> "agent", tools |-> tools, task |-> task, next |-> next]
RouteStep(branches) == [type |-> "route", branches |-> branches]
LoopStep(tools, max) == [type |-> "loop", tools |-> tools, maxIterations |-> max]

MCStep == {"first", "second", "third"}

\* The built-in workflows.
Chat == [entry |-> "first", steps |-> [first |-> AgentStep(TRUE, FALSE, None)]]
Reviewed ==
  [entry |-> "first",
   steps |-> [first |-> AgentStep(FALSE, TRUE, "second"), second |-> LoopStep(TRUE, 2)]]
Triage ==
  [entry |-> "first",
   steps |-> [first  |-> RouteStep(<<"second", "third">>),
              second |-> AgentStep(TRUE, FALSE, None), third |-> AgentStep(FALSE, FALSE, None)]]

\* Edited ones: two tool agents in sequence, a tool agent that writes the task before
\* a loop of one round, a cycle, and a loop without a round.
Sequence ==
  [entry |-> "first",
   steps |-> [first |-> AgentStep(TRUE, FALSE, "second"), second |-> AgentStep(TRUE, FALSE, None)]]
ToolTask ==
  [entry |-> "first",
   steps |-> [first |-> AgentStep(TRUE, TRUE, "second"), second |-> LoopStep(FALSE, 1)]]
Cycle ==
  [entry |-> "first",
   steps |-> [first |-> RouteStep(<<"second", "third">>),
              second |-> AgentStep(FALSE, FALSE, "first"), third |-> AgentStep(FALSE, FALSE, None)]]
NoRound == [entry |-> "first", steps |-> [first |-> LoopStep(FALSE, 0)]]

MCDefinitions == {Chat, Reviewed, Triage, Sequence, ToolTask, Cycle, NoRound}
================================================================================
