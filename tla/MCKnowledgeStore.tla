--------------------------- MODULE MCKnowledgeStore ----------------------------
(* The instance the model checker explores.  Documents do not interact, so one is
   enough: three requests race on it, beside the sweep, in one process or in two. *)
EXTENDS KnowledgeStore
================================================================================
