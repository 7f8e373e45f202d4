---------------------------- MODULE MCWorkflowStore ----------------------------
(* Values for the model checker: names are w1 (shipped), w2 (shipped or not) and w3
   (an admin's), and builds differ in the text they ship. *)
EXTENDS WorkflowStore, TLC

CONSTANTS w1, w2, w3, t1, t2

MCBuiltinsOne == <<w1>>
MCBuiltinsTwo == <<w1, w2>>
MCReleases == {[w \in Workflow |-> t] : t \in Text}
MCProcessSymmetry == Permutations(Process)
=============================================================================
