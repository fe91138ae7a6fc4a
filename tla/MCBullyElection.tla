--------------------------- MODULE MCBullyElection ---------------------------
(***************************************************************************)
(* The bully election with drills, as the tests have them: a drill is a    *)
(* list of faults that happen in this order, each at any moment and while  *)
(* everything else goes on, or not at all.  It begins with the initial     *)
(* elections, or when these have ended.                                    *)
(***************************************************************************)
EXTENDS BullyElection, Sequences

VARIABLE drill \* the faults to come, <<kind, node>>

MCvars == <<vars, drill>>

kill(n)    == <<"kill", n>>
restart(n) == <<"restart", n>>
late(n)    == <<"late", n>>

\* Each node is about to begin its first election, but for those killed before Initiate.
Initiated(dead) == Init /\ alive = [n \in Nodes |-> n \notin dead]

\* The first elections have ended, without a fault; node 3 is the highest.
Settled ==
    /\ coord = [n \in Nodes |-> 3]
    /\ alive = [n \in Nodes |-> TRUE]
    /\ starting = {}
    /\ election = [n \in Nodes |-> "none"]
    /\ unsent = [n \in Nodes |-> {}]
    /\ vetoChan = {}
    /\ passing = {}
    /\ inFlight = {}
    /\ rivals = [n \in Nodes |-> {}]

MCInit ==
    \/ /\ Settled
       /\ drill \in {<<kill(2), kill(3), restart(3), restart(2)>>,
                     <<kill(3), kill(2), restart(2)>>,
                     <<kill(2), restart(2), kill(3)>>,
                     <<kill(2), restart(2), late(2)>>,
                     <<kill(3), late(1)>>}
    \/ Initiated({}) /\ drill = <<>>
    \/ Initiated({1}) /\ drill = <<kill(3), kill(2), restart(2), restart(3)>>
    \/ Initiated({2}) /\ drill = <<kill(3), restart(3)>>
    \/ Initiated({3}) /\ drill = <<kill(2), restart(2)>>

Happens(kind, n) ==
    \/ kind = "kill" /\ Kill(n)
    \/ kind = "restart" /\ Restart(n)
    \/ kind = "late" /\ LateVeto(n)
    \/ kind = "late" /\ LateSync(n)

NextFault ==
    /\ drill # <<>>
    /\ Happens(Head(drill)[1], Head(drill)[2])
    /\ drill' = Tail(drill)

NextStep == \E n \in Nodes : Step(n) /\ UNCHANGED drill

MCSpec == MCInit /\ [][NextStep \/ NextFault]_MCvars /\ Fairness
=============================================================================
