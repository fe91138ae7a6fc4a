-------------------------- MODULE MCRicartAgrawala --------------------------
(***************************************************************************)
(* TLC instances of RicartAgrawala.                                        *)
(***************************************************************************)
EXTENDS RicartAgrawala

\* Cuts the search for a behaviour of three nodes: node 3 requests first, node 2 once
\* node 3's request is stamped, node 1 only while node 2 is in the critical section.
Staggered ==
    /\ requested[2] > 0 => lastReqTimestamp[3] > 0
    /\ requested[1] > 0 => cpc[2] = "cs"
=============================================================================
