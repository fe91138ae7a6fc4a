---------------------------- MODULE BullyElection ----------------------------
(***************************************************************************)
(* The bully election of hw1/q2.  A node runs HandleControl, HandleData,   *)
(* SyncData and at most one election, whose goroutine holds electionLock.  *)
(* Every send is a goroutine of its own, so messages arrive in any order.  *)
(* Equal messages in flight count as one: they are told again and again.   *)
(*                                                                         *)
(* Time-outs are steps.  In time, an election runs out of time only when   *)
(* nothing of its round trip is on the way (node.timeout is the estimated  *)
(* RTT), and a node misses its coordinator only when no live one is left   *)
(* to send SYNC and no SYNC is on the way (the wait of HandleData is the   *)
(* longest one).  A message slower than the estimate makes either happen   *)
(* early; that is a fault, like a kill.                                    *)
(*                                                                         *)
(* Data is left out, and with it the SYNCs to lower nodes, which do        *)
(* nothing but carry it.                                                   *)
(***************************************************************************)
EXTENDS Integers

CONSTANT Nodes \* the node identifiers; the highest wins

ASSUME NodesAssumption == Nodes \subseteq Nat

VARIABLES
    coord,    \* CoordinatorId of each node, -1 when it has none
    alive,    \* IsAlive of each node
    starting, \* nodes whose Initialise or Restart has yet to call StartElection
    election, \* election[n]: "none", "start" (STARTs sent) or "announce"
    unsent,   \* unsent[n]: the nodes it has yet to tell that it won
    vetoChan, \* nodes with a veto in their vetoChan
    passing,  \* nodes whose HandleControl has seen the lock held and not passed the veto on
    inFlight, \* messages sent and not received, <<type, sender, receiver>>
    rivals    \* rivals[n]: the higher nodes alive for all of n's election, as long as n is

electionVars == <<election, unsent, rivals>>
vars == <<coord, alive, starting, electionVars, vetoChan, passing, inFlight>>

Message == {"START", "VETO", "WIN", "SYNC"} \X Nodes \X Nodes

TypeOK ==
    /\ coord \in [Nodes -> Nodes \cup {-1}]
    /\ alive \in [Nodes -> BOOLEAN]
    /\ starting \subseteq Nodes
    /\ election \in [Nodes -> {"none", "start", "announce"}]
    /\ unsent \in [Nodes -> SUBSET Nodes]
    /\ \A n \in Nodes : election[n] = "none" => unsent[n] = {}
    /\ vetoChan \subseteq Nodes
    /\ passing \subseteq Nodes
    /\ inFlight \subseteq Message
    /\ rivals \in [Nodes -> SUBSET Nodes]

Higher(n) == {m \in Nodes : m > n}
Lower(n)  == {m \in Nodes : m < n}

\* Initialise has seen which nodes are alive (some are killed before Initiate).
Init ==
    /\ coord = [n \in Nodes |-> -1]
    /\ alive \in [Nodes -> BOOLEAN]
    /\ starting = {n \in Nodes : alive[n]}
    /\ election = [n \in Nodes |-> "none"]
    /\ unsent = [n \in Nodes |-> {}]
    /\ vetoChan = {}
    /\ passing = {}
    /\ inFlight = {}
    /\ rivals = [n \in Nodes |-> {}]

-----------------------------------------------------------------------------
\* The election

\* What send puts on the way: nothing when the node is dead.
Sent(n, type, S) == IF alive[n] THEN {<<type, n, m>> : m \in S} ELSE {}

\* StartElection: TryLock, and the goroutine sends START to the higher nodes.  The messages
\* in flight become those of `rest' and the STARTs.
StartElection(n, rest) ==
    \/ /\ election[n] # "none"
       /\ inFlight' = rest
       /\ UNCHANGED electionVars
    \/ /\ election[n] = "none"
       /\ inFlight' = rest \cup Sent(n, "START", Higher(n))
       /\ election' = [election EXCEPT ![n] = "start"]
       /\ rivals' = [rivals EXCEPT ![n] = IF alive[n] THEN {m \in Higher(n) : alive[m]} ELSE {}]
       /\ UNCHANGED unsent

\* The last line of Initialise, or the goroutine of Restart.
BeginElection(n) ==
    /\ n \in starting
    /\ starting' = starting \ {n}
    /\ StartElection(n, inFlight)
    /\ UNCHANGED <<coord, alive, vetoChan, passing>>

\* No START of n and no veto for it is on the way.
RoundTripOver(n) ==
    /\ \A m \in Nodes : {<<"START", n, m>>, <<"VETO", m, n>>} \cap inFlight = {}
    /\ n \notin passing

\* Time-out without a veto.  It does not matter whether n is alive.
TimeOut(n) ==
    /\ election[n] = "start"
    /\ n \notin vetoChan
    /\ coord' = [coord EXCEPT ![n] = n]
    /\ election' = [election EXCEPT ![n] = "announce"]
    /\ unsent' = [unsent EXCEPT ![n] = Lower(n)]
    /\ UNCHANGED <<alive, starting, rivals, vetoChan, passing, inFlight>>

Win(n) == TimeOut(n) /\ RoundTripOver(n)

\* One WIN.
Announce(n) == \E m \in unsent[n] :
    /\ unsent' = [unsent EXCEPT ![n] = @ \ {m}]
    /\ inFlight' = inFlight \cup Sent(n, "WIN", {m})
    /\ UNCHANGED <<coord, alive, starting, election, rivals, vetoChan, passing>>

\* Mutant: one WIN is enough.
SomeTold(n) == unsent[n] # Lower(n)

AllTold(n) == unsent[n] = {}

\* The election is lost, or all are told: clear vetoChan and unlock.
EndElection(n) ==
    /\ \/ election[n] = "start" /\ n \in vetoChan
       \/ election[n] = "announce" /\ AllTold(n)
    /\ election' = [election EXCEPT ![n] = "none"]
    /\ rivals' = [rivals EXCEPT ![n] = {}]
    /\ vetoChan' = vetoChan \ {n}
    /\ UNCHANGED <<coord, alive, starting, unsent, passing, inFlight>>

-----------------------------------------------------------------------------
\* HandleControl.  A dead node drops what it receives.

Receives(m, type, n) == <<type, m, n>> \in inFlight /\ n \notin passing

DropControl(n, m) == \E type \in {"START", "VETO", "WIN"} :
    /\ Receives(m, type, n)
    /\ ~alive[n]
    /\ inFlight' = inFlight \ {<<type, m, n>>}
    /\ UNCHANGED <<coord, alive, starting, electionVars, vetoChan, passing>>

\* Mutant: a node that runs an election itself sends no veto.
NoVeto(n, m) ==
    /\ Receives(m, "START", n)
    /\ alive[n]
    /\ StartElection(n, (inFlight \ {<<"START", m, n>>}) \cup
                        (IF election[n] = "none" THEN {<<"VETO", n, m>>} ELSE {}))
    /\ UNCHANGED <<coord, alive, starting, vetoChan, passing>>

\* Only lower nodes send START.
HandleStart(n, m) ==
    /\ Receives(m, "START", n)
    /\ alive[n]
    /\ StartElection(n, (inFlight \ {<<"START", m, n>>}) \cup {<<"VETO", n, m>>})
    /\ UNCHANGED <<coord, alive, starting, vetoChan, passing>>

\* Without an election the veto is dropped.
HandleVeto(n, m) ==
    /\ Receives(m, "VETO", n)
    /\ alive[n]
    /\ inFlight' = inFlight \ {<<"VETO", m, n>>}
    /\ passing' = IF election[n] = "none" THEN passing ELSE passing \cup {n}
    /\ UNCHANGED <<coord, alive, starting, electionVars, vetoChan>>

\* vetoChan <- msg, perhaps when the election it is meant for has ended.  While the channel
\* is full this step waits for the election to clear it.
PassVeto(n) ==
    /\ n \in passing
    /\ passing' = passing \ {n}
    /\ vetoChan' = vetoChan \cup {n}
    /\ UNCHANGED <<coord, alive, starting, electionVars, inFlight>>

\* Only higher nodes send WIN.
HandleWin(n, m) ==
    /\ Receives(m, "WIN", n)
    /\ alive[n]
    /\ inFlight' = inFlight \ {<<"WIN", m, n>>}
    /\ coord' = [coord EXCEPT ![n] = m]
    /\ UNCHANGED <<alive, starting, electionVars, vetoChan, passing>>

-----------------------------------------------------------------------------
\* Data

SyncData(n) ==
    /\ coord[n] = n
    /\ alive[n]
    /\ inFlight' = inFlight \cup Sent(n, "SYNC", Higher(n))
    /\ UNCHANGED <<coord, alive, starting, electionVars, vetoChan, passing>>

\* Mutant: SYNC from a lower node is only dropped.
ObeyLower(n, m) ==
    /\ <<"SYNC", m, n>> \in inFlight
    /\ inFlight' = inFlight \ {<<"SYNC", m, n>>}
    /\ UNCHANGED <<coord, alive, starting, electionVars, vetoChan, passing>>

\* A higher node takes no orders from a lower one.
HandleData(n, m) ==
    /\ <<"SYNC", m, n>> \in inFlight
    /\ LET rest == inFlight \ {<<"SYNC", m, n>>} IN
       \/ ~alive[n] /\ inFlight' = rest /\ UNCHANGED electionVars
       \/ alive[n] /\ StartElection(n, rest)
    /\ UNCHANGED <<coord, alive, starting, vetoChan, passing>>

\* Nobody sends SYNC to n, and none is on the way.
NoDataComes(n) ==
    /\ \A m \in Nodes : alive[m] /\ coord[m] = m => m = n
    /\ \A m \in Nodes : <<"SYNC", m, n>> \notin inFlight

\* HandleData has waited for the longest time one can take.
DataTimeOut(n) ==
    /\ coord[n] # n
    /\ alive[n]
    /\ StartElection(n, inFlight)
    /\ UNCHANGED <<coord, alive, starting, vetoChan, passing>>

MissCoordinator(n) == NoDataComes(n) /\ DataTimeOut(n)

-----------------------------------------------------------------------------
\* Faults

Kill(n) ==
    /\ alive[n]
    /\ coord' = [coord EXCEPT ![n] = -1]
    /\ alive' = [alive EXCEPT ![n] = FALSE]
    /\ rivals' = [m \in Nodes |-> IF m = n THEN {} ELSE rivals[m] \ {n}]
    /\ UNCHANGED <<starting, election, unsent, vetoChan, passing, inFlight>>

Restart(n) ==
    /\ ~alive[n]
    /\ alive' = [alive EXCEPT ![n] = TRUE]
    /\ starting' = starting \cup {n}
    /\ UNCHANGED <<coord, electionVars, vetoChan, passing, inFlight>>

\* A START or a veto takes longer than the estimated RTT.
LateVeto(n) == ~RoundTripOver(n) /\ TimeOut(n)

\* A SYNC takes longer than HandleData waits.
LateSync(n) == ~NoDataComes(n) /\ DataTimeOut(n)

-----------------------------------------------------------------------------
Election(n) == BeginElection(n) \/ Win(n) \/ Announce(n) \/ EndElection(n)

Control(n, m) ==
    \/ DropControl(n, m)
    \/ HandleStart(n, m)
    \/ HandleVeto(n, m)
    \/ HandleWin(n, m)

Step(n) ==
    \/ Election(n)
    \/ \E m \in Nodes \ {n} : Control(n, m)
    \/ \E m \in Lower(n) : HandleData(n, m)
    \/ PassVeto(n)
    \/ SyncData(n)
    \/ MissCoordinator(n)

Fault(n) == Kill(n) \/ Restart(n) \/ LateVeto(n) \/ LateSync(n)

Next == \E n \in Nodes : Step(n) \/ Fault(n)

Spec == Init /\ [][Next]_vars

\* Goroutines run, timers fire, and each node gets to receive from each other; faults need
\* not happen.
Fairness == \A n \in Nodes :
    /\ WF_vars(Election(n))
    /\ WF_vars(PassVeto(n))
    /\ WF_vars(SyncData(n))
    /\ WF_vars(MissCoordinator(n))
    /\ \A m \in Nodes \ {n} : WF_vars(Control(n, m))
    /\ \A m \in Lower(n) : WF_vars(HandleData(n, m))

-----------------------------------------------------------------------------
\* Properties

\* A node that is alive all through its election makes itself the coordinator only if no
\* higher node has been alive all that time or its time-out came early: whatever the other
\* elections, faults and stale vetoes do, a veto that is in time gets through.
WinnerOutlivesHigher == [][\A n \in Nodes :
    election[n] = "start" /\ election'[n] = "announce" /\ RoundTripOver(n)
        => rivals[n] = {}]_vars

Live == {n \in Nodes : alive[n]}

\* Whatever faults fall into whatever elections, and however these overlap: once the faults
\* are over, the highest live node gets to be a coordinator and no other live node believes
\* to be one.
OneCoordinatorInTheEnd ==
    <>[](\A n \in Live : coord[n] = n <=> \A m \in Live : m <= n)

\* In the end the live nodes name the same coordinator (GetCoordinatorId returns it).  They
\* need not, and no run checks this; see the README.
CoordinatorAgreedInTheEnd == <>[](\A n, m \in Live : coord[n] = coord[m])
=============================================================================
