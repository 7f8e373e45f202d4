------------------------------ MODULE MCEvalRuns -------------------------------
(* Values for the model checker: a suite of two case runs of one case, of which
   one must pass; one process that may crash while the timeout setting changes,
   or two processes of a rollout.  A process has no state but its loop, so two
   requests on two processes meet in every way they can with one request each. *)
EXTENDS EvalRuns

CONSTANTS q1, q2

MCCaseRuns == <<2>>
MCMinPasses == <<1>>
MCDeployments ==
  {[serves |-> [q \in Request |-> "p1"], timeouts |-> {1, 2}, crashes |-> 1],
   [serves |-> [q \in Request |-> IF q = q1 THEN "p1" ELSE "p2"], timeouts |-> {1}, crashes |-> 0]}
=============================================================================
