----------------------------- MODULE PageAccess -----------------------------
(***************************************************************************)
(* What the Ivy protocols promise about access rights: a node gains        *)
(* READWRITE on a page only while no other node has any access to it, and  *)
(* READONLY only while no other node can write it.  How the rights travel  *)
(* (requests, forwards, invalidations) is left to the implementation.      *)
(***************************************************************************)
CONSTANTS Nodes, Pages

VARIABLE access

Others(n) == Nodes \ {n}

Init == access = [n \in Nodes |-> [p \in Pages |-> "INVALID"]]

Drop(n, p) ==
    access' = [access EXCEPT ![n][p] = "INVALID"]

Share(n, p) ==
    /\ \A m \in Others(n) : access[m][p] # "READWRITE"
    /\ access' = [access EXCEPT ![n][p] = "READONLY"]

Own(n, p) ==
    /\ \A m \in Others(n) : access[m][p] = "INVALID"
    /\ access' = [access EXCEPT ![n][p] = "READWRITE"]

Next == \E n \in Nodes, p \in Pages : Drop(n, p) \/ Share(n, p) \/ Own(n, p)

Spec == Init /\ [][Next]_access
=============================================================================
