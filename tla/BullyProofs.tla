---------------------------- MODULE BullyProofs ----------------------------
(***************************************************************************)
(* The proofs about the bully election, for every set of nodes and any     *)
(* faults: every variable keeps its type, and a node that wins in time has *)
(* outlived every higher node.                                             *)
(***************************************************************************)
EXTENDS BullyElection, TLAPS

-----------------------------------------------------------------------------
(***************************************************************************)
(* The inductive invariant.                                                *)
(***************************************************************************)

\* A rival of n is alive, and so is n: a crash of either ends the rivalry.
RivalsLive == \A n \in Nodes : \A m \in rivals[n] : alive[n] /\ alive[m] /\ m # n

\* The veto of m in the election of n: m has yet to receive the START, or the veto is
\* on its way to n, with the HandleControl of n, or in vetoChan.
VetoUnderWay(n, m) ==
    \/ <<"START", n, m>> \in inFlight
    \/ <<"VETO", m, n>> \in inFlight
    \/ n \in passing
    \/ n \in vetoChan

\* Every rival of an election that is not over vetoes it.
RivalsVeto ==
    \A n \in Nodes : election[n] = "start" => \A m \in rivals[n] : VetoUnderWay(n, m)

\* Nobody is left to be told of a victory while there is none.
NothingToTell == \A n \in Nodes : election[n] = "start" => unsent[n] = {}

IInv == TypeOK /\ RivalsLive /\ RivalsVeto /\ NothingToTell

-----------------------------------------------------------------------------
(***************************************************************************)
(* The initial state.                                                      *)
(***************************************************************************)

LEMMA InitInvariant == Init => IInv
<1> SUFFICES ASSUME Init PROVE IInv
  OBVIOUS
<1>1. TypeOK
  BY DEF Init, TypeOK
<1> QED
  BY <1>1 DEF Init, IInv, RivalsLive, RivalsVeto, NothingToTell

-----------------------------------------------------------------------------
(***************************************************************************)
(* One lemma per action, and one for StartElection, which several share.   *)
(***************************************************************************)

\* An election that starts keeps the invariant when the messages `rest' keep the vetoes of
\* the elections that are under way: its own rivals all have a START on the way.
LEMMA Starts ==
  ASSUME IInv, NEW n \in Nodes, NEW rest \in SUBSET Message, StartElection(n, rest),
         UNCHANGED <<coord, alive, vetoChan, passing>>,
         starting' \subseteq Nodes,
         \A i \in Nodes : election[i] = "start" => \A m \in rivals[i] :
            <<"START", i, m>> \in rest \/ <<"VETO", m, i>> \in rest
            \/ i \in passing \/ i \in vetoChan
  PROVE  IInv'
<1> USE DEF IInv
<1>1. CASE inFlight' = rest /\ UNCHANGED electionVars
  BY <1>1 DEF TypeOK, RivalsLive, RivalsVeto, NothingToTell, VetoUnderWay, electionVars
<1>2. CASE /\ election[n] = "none"
           /\ inFlight' = rest \cup Sent(n, "START", Higher(n))
           /\ election' = [election EXCEPT ![n] = "start"]
           /\ rivals' = [rivals EXCEPT ![n] = IF alive[n] THEN {m \in Higher(n) : alive[m]} ELSE {}]
           /\ UNCHANGED unsent
  <2>1. Higher(n) \subseteq Nodes /\ n \notin Higher(n)
    BY NodesAssumption DEF Higher
  <2>2. Sent(n, "START", Higher(n)) \subseteq Message
    BY <2>1 DEF Sent, Message
  <2>3. TypeOK'
    BY <1>2, <2>1, <2>2 DEF TypeOK
  <2>4. RivalsLive'
    BY <1>2, <2>1 DEF TypeOK, RivalsLive
  <2>5. RivalsVeto'
    <3> SUFFICES ASSUME NEW i \in Nodes, election'[i] = "start", NEW m \in rivals'[i]
                 PROVE  VetoUnderWay(i, m)'
      BY DEF RivalsVeto
    <3>1. CASE i = n
      BY <1>2, <2>1, <3>1 DEF TypeOK, VetoUnderWay, Sent
    <3>2. CASE i # n
      BY <1>2, <3>2 DEF TypeOK, VetoUnderWay
    <3> QED
      BY <3>1, <3>2
  <2>6. NothingToTell'
    BY <1>2 DEF TypeOK, NothingToTell
  <2> QED
    BY <2>3, <2>4, <2>5, <2>6
<1> QED
  BY <1>1, <1>2 DEF StartElection

\* An election that is won, in time or not, has no rivals to hear from any more.
LEMMA TimesOut ==
  ASSUME IInv, NEW n \in Nodes, TimeOut(n)
  PROVE  IInv'
<1> USE DEF IInv
<1>1. Lower(n) \subseteq Nodes
  BY DEF Lower
<1>2. TypeOK'
  BY <1>1 DEF TimeOut, TypeOK
<1>3. RivalsLive' /\ RivalsVeto' /\ NothingToTell'
  BY DEF TimeOut, TypeOK, RivalsLive, RivalsVeto, NothingToTell, VetoUnderWay
<1> QED
  BY <1>2, <1>3

\* HandleData gives up waiting, in time or not.
LEMMA DataTimesOut ==
  ASSUME IInv, NEW n \in Nodes, DataTimeOut(n)
  PROVE  IInv'
<1>1. \A i \in Nodes : election[i] = "start" => \A j \in rivals[i] : VetoUnderWay(i, j)
  BY DEF IInv, RivalsVeto
<1> QED
  BY <1>1, Starts DEF DataTimeOut, IInv, TypeOK, VetoUnderWay

\* The elections: begun by Initialise or Restart, won, announced, and over.
LEMMA StepElection ==
  ASSUME IInv, NEW n \in Nodes, Election(n)
  PROVE  IInv'
<1> USE DEF IInv
<1>1. CASE BeginElection(n)
  <2>1. \A i \in Nodes : election[i] = "start" => \A m \in rivals[i] : VetoUnderWay(i, m)
    BY DEF RivalsVeto
  <2> QED
    BY <1>1, <2>1, Starts DEF BeginElection, TypeOK, VetoUnderWay
<1>2. CASE Win(n)
  BY <1>2, TimesOut DEF Win
<1>3. CASE Announce(n)
  <2> PICK m \in unsent[n] :
        /\ unsent' = [unsent EXCEPT ![n] = @ \ {m}]
        /\ inFlight' = inFlight \cup Sent(n, "WIN", {m})
        /\ UNCHANGED <<coord, alive, starting, election, rivals, vetoChan, passing>>
    BY <1>3 DEF Announce
  <2>1. m \in Nodes
    BY DEF TypeOK
  <2>2. Sent(n, "WIN", {m}) \subseteq Message
    BY <2>1 DEF Sent, Message
  <2>3. TypeOK'
    BY <2>2 DEF TypeOK
  <2>4. RivalsLive' /\ RivalsVeto' /\ NothingToTell'
    BY DEF TypeOK, RivalsLive, RivalsVeto, NothingToTell, VetoUnderWay
  <2> QED
    BY <2>3, <2>4
<1>4. CASE EndElection(n)
  <2>1. unsent[n] = {}
    BY <1>4 DEF EndElection, AllTold, NothingToTell
  <2>3. TypeOK'
    BY <1>4, <2>1 DEF EndElection, TypeOK
  <2>4. RivalsLive' /\ RivalsVeto' /\ NothingToTell'
    BY <1>4 DEF EndElection, TypeOK, RivalsLive, RivalsVeto, NothingToTell, VetoUnderWay
  <2> QED
    BY <2>3, <2>4
<1> QED
  BY <1>1, <1>2, <1>3, <1>4 DEF Election

\* What a node receives: a START is answered by a veto before it is forgotten, and a veto
\* is dropped only by a node that runs no election or is dead, which has no rivals.
LEMMA StepControl ==
  ASSUME IInv, NEW n \in Nodes, NEW m \in Nodes, m # n, Control(n, m)
  PROVE  IInv'
<1> USE DEF IInv
<1>0. \A i \in Nodes : election[i] = "start" => \A j \in rivals[i] : VetoUnderWay(i, j)
  BY DEF RivalsVeto
<1>1. CASE DropControl(n, m)
  <2> PICK type \in {"START", "VETO", "WIN"} :
        /\ ~alive[n]
        /\ inFlight' = inFlight \ {<<type, m, n>>}
        /\ UNCHANGED <<coord, alive, starting, electionVars, vetoChan, passing>>
    BY <1>1 DEF DropControl
  <2>1. TypeOK'
    BY DEF TypeOK, electionVars
  <2>2. RivalsLive' /\ NothingToTell'
    BY DEF RivalsLive, NothingToTell, electionVars
  <2>3. RivalsVeto'
    BY DEF RivalsVeto, RivalsLive, VetoUnderWay, electionVars
  <2> QED
    BY <2>1, <2>2, <2>3
<1>2. CASE HandleStart(n, m)
  <2> DEFINE rest == (inFlight \ {<<"START", m, n>>}) \cup {<<"VETO", n, m>>}
  <2>1. rest \in SUBSET Message
    BY DEF TypeOK, Message
  <2>2. \A i \in Nodes : election[i] = "start" => \A j \in rivals[i] :
          <<"START", i, j>> \in rest \/ <<"VETO", j, i>> \in rest
          \/ i \in passing \/ i \in vetoChan
    BY <1>0 DEF VetoUnderWay
  <2>3. StartElection(n, rest) /\ UNCHANGED <<coord, alive, starting, vetoChan, passing>>
    BY <1>2 DEF HandleStart
  <2> HIDE DEF rest
  <2> QED
    BY <2>1, <2>2, <2>3, Starts DEF TypeOK
<1>3. CASE HandleVeto(n, m)
  <2>1. TypeOK'
    BY <1>3 DEF HandleVeto, TypeOK, electionVars
  <2>2. RivalsLive' /\ NothingToTell'
    BY <1>3 DEF HandleVeto, RivalsLive, NothingToTell, electionVars
  <2>3. RivalsVeto'
    BY <1>3 DEF HandleVeto, RivalsVeto, VetoUnderWay, electionVars
  <2> QED
    BY <2>1, <2>2, <2>3
<1>4. CASE HandleWin(n, m)
  <2>1. TypeOK'
    BY <1>4 DEF HandleWin, TypeOK, electionVars
  <2>2. RivalsLive' /\ NothingToTell'
    BY <1>4 DEF HandleWin, RivalsLive, NothingToTell, electionVars
  <2>3. RivalsVeto'
    BY <1>4 DEF HandleWin, RivalsVeto, VetoUnderWay, electionVars
  <2> QED
    BY <2>1, <2>2, <2>3
<1> QED
  BY <1>1, <1>2, <1>3, <1>4 DEF Control

\* SYNC from a lower node is dropped or starts an election, which leaves the vetoes alone.
LEMMA StepData ==
  ASSUME IInv, NEW n \in Nodes, NEW m \in Nodes, HandleData(n, m)
  PROVE  IInv'
<1> USE DEF IInv
<1> DEFINE rest == inFlight \ {<<"SYNC", m, n>>}
<1>1. rest \in SUBSET Message
  BY DEF TypeOK
<1>2. \A i \in Nodes : election[i] = "start" => \A j \in rivals[i] :
        <<"START", i, j>> \in rest \/ <<"VETO", j, i>> \in rest
        \/ i \in passing \/ i \in vetoChan
  BY DEF RivalsVeto, VetoUnderWay
<1>3. /\ \/ inFlight' = rest /\ UNCHANGED electionVars
         \/ StartElection(n, rest)
      /\ UNCHANGED <<coord, alive, starting, vetoChan, passing>>
  BY DEF HandleData
<1>4. CASE inFlight' = rest /\ UNCHANGED electionVars
  BY <1>1, <1>2, <1>3, <1>4 DEF TypeOK, RivalsLive, RivalsVeto, NothingToTell, VetoUnderWay,
                                electionVars
<1> HIDE DEF rest
<1> QED
  BY <1>1, <1>2, <1>3, <1>4, Starts DEF TypeOK

\* The veto is passed on, data is synchronised.
LEMMA StepOther ==
  ASSUME IInv, NEW n \in Nodes, PassVeto(n) \/ SyncData(n)
  PROVE  IInv'
<1> USE DEF IInv
<1>1. CASE PassVeto(n)
  <2>1. TypeOK'
    BY <1>1 DEF PassVeto, TypeOK, electionVars
  <2>2. RivalsLive' /\ NothingToTell'
    BY <1>1 DEF PassVeto, RivalsLive, NothingToTell, electionVars
  <2>3. RivalsVeto'
    BY <1>1 DEF PassVeto, RivalsVeto, VetoUnderWay, electionVars
  <2> QED
    BY <2>1, <2>2, <2>3
<1>2. CASE SyncData(n)
  <2>1. Sent(n, "SYNC", Higher(n)) \subseteq Message
    BY DEF Sent, Higher, Message
  <2>2. TypeOK'
    BY <1>2, <2>1 DEF SyncData, TypeOK, electionVars
  <2>3. RivalsLive' /\ NothingToTell'
    BY <1>2 DEF SyncData, RivalsLive, NothingToTell, electionVars
  <2>4. RivalsVeto'
    BY <1>2 DEF SyncData, RivalsVeto, VetoUnderWay, electionVars
  <2> QED
    BY <2>2, <2>3, <2>4
<1> QED
  BY <1>1, <1>2

\* Crashes, restarts and time-outs that come early.
LEMMA StepFault ==
  ASSUME IInv, NEW n \in Nodes, Fault(n)
  PROVE  IInv'
<1> USE DEF IInv
<1>1. CASE Kill(n)
  <2>2. TypeOK'
    BY <1>1 DEF Kill, TypeOK
  <2>3. RivalsLive'
    BY <1>1 DEF Kill, RivalsLive, TypeOK
  <2>4. RivalsVeto' /\ NothingToTell'
    BY <1>1 DEF Kill, RivalsVeto, NothingToTell, VetoUnderWay, TypeOK
  <2> QED
    BY <2>2, <2>3, <2>4
<1>2. CASE Restart(n)
  <2>1. TypeOK'
    BY <1>2 DEF Restart, TypeOK, electionVars
  <2>2. RivalsLive'
    BY <1>2 DEF Restart, RivalsLive, TypeOK, electionVars
  <2>3. RivalsVeto' /\ NothingToTell'
    BY <1>2 DEF Restart, RivalsVeto, NothingToTell, VetoUnderWay, electionVars
  <2> QED
    BY <2>1, <2>2, <2>3
<1>3. CASE LateVeto(n)
  BY <1>3, TimesOut DEF LateVeto
<1>4. CASE LateSync(n)
  BY <1>4, DataTimesOut DEF LateSync
<1> QED
  BY <1>1, <1>2, <1>3, <1>4 DEF Fault

\* Every step keeps the invariant.
LEMMA StepInvariant ==
  ASSUME IInv, [Next]_vars
  PROVE  IInv'
<1>1. CASE UNCHANGED vars
  BY <1>1 DEF IInv, TypeOK, RivalsLive, RivalsVeto, NothingToTell, VetoUnderWay, vars, electionVars
<1>2. ASSUME NEW n \in Nodes, Step(n) PROVE IInv'
  <2>1. Lower(n) \subseteq Nodes
    BY DEF Lower
  <2>2. CASE MissCoordinator(n)
    BY <2>2, DataTimesOut DEF MissCoordinator
  <2> QED
    BY <1>2, <2>1, <2>2, StepElection, StepControl, StepData, StepOther DEF Step
<1> QED
  BY <1>1, <1>2, StepFault DEF Next

-----------------------------------------------------------------------------
(***************************************************************************)
(* The theorems.                                                           *)
(***************************************************************************)

\* The inductive invariant: every higher node that has been alive since an election started
\* has its veto under way, whatever the other elections and faults do meanwhile.
THEOREM Invariance == Spec => []IInv
  BY InitInvariant, StepInvariant, PTL DEF Spec

\* Every variable keeps its type, and a node with no election has nobody left to tell.
THEOREM TypeCorrect == Spec => []TypeOK
<1>1. IInv => TypeOK
  BY DEF IInv
<1> QED
  BY <1>1, Invariance, PTL

\* A step that makes a node the coordinator of its own election, in time, finds it without
\* rivals.
LEMMA WinSteps ==
  ASSUME IInv, [Next]_vars
  PROVE  \A n \in Nodes :
           election[n] = "start" /\ election'[n] = "announce" /\ RoundTripOver(n)
             => rivals[n] = {}
<1> SUFFICES ASSUME NEW n \in Nodes, election[n] = "start", election'[n] = "announce",
                    RoundTripOver(n)
             PROVE  rivals[n] = {}
  OBVIOUS
<1>1. n \notin vetoChan
  <2>1. ~UNCHANGED election
    OBVIOUS
  <2>2. PICK i \in Nodes : Step(i) \/ Fault(i)
    BY <2>1 DEF Next, vars, electionVars
  <2>3. ASSUME NEW rest, StartElection(i, rest) PROVE FALSE
    BY <2>3 DEF StartElection, IInv, TypeOK, electionVars
  <2>4. ~BeginElection(i) /\ ~DataTimeOut(i)
    BY <2>3 DEF BeginElection, DataTimeOut
  <2>5. ~PassVeto(i) /\ ~SyncData(i) /\ ~Kill(i) /\ ~Restart(i) /\ ~Announce(i)
    BY <2>1 DEF PassVeto, SyncData, Kill, Restart, Announce, electionVars
  <2>6. \A m : ~Control(i, m) /\ ~HandleData(i, m)
    BY <2>1, <2>3 DEF Control, DropControl, HandleStart, HandleVeto, HandleWin, HandleData,
                      electionVars
  <2>7. ~EndElection(i)
    BY DEF EndElection, IInv, TypeOK
  <2>8. TimeOut(i)
    BY <2>2, <2>4, <2>5, <2>6, <2>7
       DEF Step, Fault, Election, MissCoordinator, Win, LateVeto, LateSync
  <2> QED
    BY <2>8 DEF TimeOut, IInv, TypeOK
<1>2. \A m \in rivals[n] : m \in Nodes /\ VetoUnderWay(n, m)
  BY DEF IInv, TypeOK, RivalsVeto
<1>3. \A m \in Nodes : ~VetoUnderWay(n, m)
  BY <1>1 DEF RoundTripOver, VetoUnderWay
<1> QED
  BY <1>2, <1>3

\* A node whose time-out is not early wins only when no higher node has been alive all
\* through its election.
THEOREM WinnerOutlivesHigherHolds == Spec => WinnerOutlivesHigher
<1>1. IInv /\ [Next]_vars =>
        [\A n \in Nodes :
            election[n] = "start" /\ election'[n] = "announce" /\ RoundTripOver(n)
              => rivals[n] = {}]_vars
  BY WinSteps
<1> QED
  BY <1>1, Invariance, PTL DEF Spec, WinnerOutlivesHigher
=============================================================================
