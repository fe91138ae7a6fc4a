-------------------------- MODULE MCVotingProtocol --------------------------
(***************************************************************************)
(* TLC instance of VotingProtocol: three voters, and two of the nodes ask  *)
(* for the lock, at the same time or one after the other.  Node 2 is the   *)
(* earlier with timestamp 1; with timestamp 2 the tie goes to node 1.      *)
(***************************************************************************)
EXTENDS VotingProtocol

MCTimes == [n \in Nodes |-> CASE n = 1 -> {2} [] n = 2 -> {1, 2} [] n = 3 -> {}]
=============================================================================
