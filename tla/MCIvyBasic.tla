----------------------------- MODULE MCIvyBasic -----------------------------
(***************************************************************************)
(* The TLC instance of IvyBasic: nodes and pages are interchangeable, and  *)
(* a behaviour has at most four operations, two of them by the same node.  *)
(***************************************************************************)
EXTENDS IvyBasicInvariant, FiniteSetsExt, TLC

Symmetry == Permutations(Nodes) \cup Permutations(Pages)

MaxOpsTogether == 4
FewOps == MapThenSumSet(LAMBDA n : started[n], Nodes) <= MaxOpsTogether
=============================================================================
