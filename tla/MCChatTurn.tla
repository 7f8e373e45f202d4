------------------------------ MODULE MCChatTurn -------------------------------
(* Values for the model checker. *)
EXTENDS ChatTurn, TLC

MCAnyDatabase == {TRUE, FALSE}
MCFreshDatabase == {FALSE}
MCSymmetry == Permutations(Process) \cup Permutations(Request) \cup Permutations(User)
              \cup Permutations(Thread)
=============================================================================
