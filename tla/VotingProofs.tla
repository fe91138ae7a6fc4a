---------------------------- MODULE VotingProofs ----------------------------
(***************************************************************************)
(* The proofs about the voting lock, for every finite set of nodes and any *)
(* number of requests: exclusion, and the conservation of votes behind it. *)
(***************************************************************************)
EXTENDS VotingProtocol, FiniteSetTheorems, TLAPS

-----------------------------------------------------------------------------
(***************************************************************************)
(* The inductive invariant.                                                *)
(***************************************************************************)

\* A request that has been made: electionCount counts those of its node.
Made(r) == r \in Request /\ r.election < electionCount[r.node]

\* The session of a node is its last request.
SessionIsLast ==
    \A n \in Nodes :
        /\ electionCount[n] > 0 =>
             /\ session[n] \in Request
             /\ session[n].node = n
             /\ session[n].election = electionCount[n] - 1
        /\ cpc[n] # "idle" => electionCount[n] > 0

\* Voters and messages are about requests that have been made.
OnlyMadeRequests ==
    /\ \A v \in Nodes : votedForReq[v] # NoRequest => Made(votedForReq[v])
    /\ \A v \in Nodes : \A r \in voteBacklog[v] : Made(r)
    /\ \A m \in BagToSet(inFlight) : Made(m.req)

\* Two requests of a backlog differ in what they are sorted by.
BacklogSorted ==
    \A v \in Nodes : \A r, s \in voteBacklog[v] :
        r.timestamp = s.timestamp /\ r.node = s.node => r = s

\* The number of messages m in a bag B.
Copies(m, B) == IF BagIn(m, B) THEN B[m] ELSE 0

\* r is under way, and what it counts for v.
Live(r) == cpc[r.node] # "idle" /\ session[r.node] = r
Counted(v, r) == IF Live(r) THEN votes[r.node][v] ELSE 0

\* The vote of v for r: on its way, on its way back, or counted.
Held(v, r) ==
    Copies(Msg("vote", v, r), inFlight) + Copies(Msg("release", v, r), inFlight) + Counted(v, r)

Given(v, r) == IF votedForReq[v] = r THEN 1 ELSE 0

\* A request under way holds exactly the votes it has been given, where one that has been
\* rescinded and not arrived counts for -1.  When the request is over, such a -1 is
\* forgotten, and the late vote is returned for a second time.
VotesConserved ==
    \A v \in Nodes, r \in Request :
        /\ Held(v, r) >= Given(v, r)
        /\ Live(r) => Held(v, r) = Given(v, r)

\* Nothing changes the votes of a node in its critical section.
HolderHasMajority == \A n \in Nodes : cpc[n] = "cs" => HasMajority(n)

Protocol ==
    /\ SessionIsLast
    /\ OnlyMadeRequests
    /\ BacklogSorted
    /\ VotesConserved
    /\ HolderHasMajority
    /\ panic # "VoteTwice"

IInv == TypeOK /\ Protocol

-----------------------------------------------------------------------------
(***************************************************************************)
(* Bags of messages.                                                       *)
(***************************************************************************)

\* A number of copies is a natural number, and positive just for what is in the bag.
LEMMA CopiesType ==
  ASSUME NEW B, IsABag(B), NEW e
  PROVE  Copies(e, B) \in Nat /\ (Copies(e, B) > 0 <=> BagIn(e, B))
  BY DEF Copies, IsABag, BagIn, BagToSet

\* Sending one copy of every message of S.
LEMMA SendCopies ==
  ASSUME NEW B, IsABag(B), NEW S
  PROVE  /\ IsABag(B (+) SetToBag(S))
         /\ BagToSet(B (+) SetToBag(S)) = BagToSet(B) \cup S
         /\ \A e : Copies(e, B (+) SetToBag(S)) = Copies(e, B) + IF e \in S THEN 1 ELSE 0
  BY DEF Copies, IsABag, BagIn, BagToSet, SetToBag, (+)

\* Taking one copy of m.
LEMMA TakeCopy ==
  ASSUME NEW B, IsABag(B), NEW m, BagIn(m, B)
  PROVE  /\ IsABag(B (-) SetToBag({m}))
         /\ BagToSet(B (-) SetToBag({m})) \subseteq BagToSet(B)
         /\ \A e : Copies(e, B (-) SetToBag({m})) = Copies(e, B) - IF e = m THEN 1 ELSE 0
  BY DEF Copies, IsABag, BagIn, BagToSet, SetToBag, (-)

\* Handling the message m, of which there is a copy, and sending those of S.
LEMMA HandledCopies ==
  ASSUME TypeOK, NEW m, BagIn(m, inFlight), NEW S, Handled(m, S)
  PROVE  /\ IsABag(inFlight')
         /\ BagToSet(inFlight') \subseteq BagToSet(inFlight) \cup S
         /\ \A e : Copies(e, inFlight') = Copies(e, inFlight) - (IF e = m THEN 1 ELSE 0)
                                                              + (IF e \in S THEN 1 ELSE 0)
<1> DEFINE B == inFlight (-) SetToBag({m})
<1>1. /\ IsABag(B) /\ BagToSet(B) \subseteq BagToSet(inFlight)
      /\ \A e : Copies(e, B) = Copies(e, inFlight) - IF e = m THEN 1 ELSE 0
  BY TakeCopy DEF TypeOK
<1>2. inFlight' = B (+) SetToBag(S)
  BY DEF Handled
<1> HIDE DEF B
<1>3. /\ IsABag(B (+) SetToBag(S))
      /\ BagToSet(B (+) SetToBag(S)) = BagToSet(B) \cup S
      /\ \A e : Copies(e, B (+) SetToBag(S)) = Copies(e, B) + IF e \in S THEN 1 ELSE 0
  BY <1>1, SendCopies
<1> QED
  BY <1>1, <1>2, <1>3

\* Messages are told apart by what they say, to whom, and about which request.
LEMMA MsgEq ==
  ASSUME NEW a, NEW b, NEW v, NEW w, NEW r, NEW q
  PROVE  Msg(a, v, r) = Msg(b, w, q) <=> a = b /\ v = w /\ r = q
  BY DEF Msg

LEMMA MsgType ==
  ASSUME NEW a \in Actions, NEW v \in Nodes, NEW r \in Request
  PROVE  /\ Msg(a, v, r) \in [action : Actions, voter : Nodes, req : Request]
         /\ Msg(a, v, r).req = r /\ Msg(a, v, r).voter = v
  BY DEF Msg

LEMMA NoRequestIsNone == NoRequest \notin Request
  BY NodesAssumption DEF NoRequest, Request

\* The terms of a balance are numbers.
LEMMA BalanceTypes ==
  ASSUME TypeOK, NEW v \in Nodes, NEW r \in Request
  PROVE  /\ Copies(Msg("vote", v, r), inFlight) \in Nat
         /\ Copies(Msg("release", v, r), inFlight) \in Nat
         /\ votes[r.node][v] \in -1..1
         /\ Counted(v, r) \in -1..1
         /\ Given(v, r) \in 0..1
         /\ r.node \in Nodes
<1>1. r.node \in Nodes
  BY DEF Request
<1>2. votes[r.node][v] \in -1..1
  BY <1>1 DEF TypeOK
<1> QED
  BY <1>1, <1>2, CopiesType DEF TypeOK, Counted, Given

-----------------------------------------------------------------------------
(***************************************************************************)
(* The backlog.                                                            *)
(***************************************************************************)

\* A nonempty set of natural numbers has a least one.
LEMMA LeastNumber ==
  ASSUME NEW S \in SUBSET Nat, S # {}
  PROVE  \E k \in S : \A j \in S : k <= j
<1>1. PICK k \in S : \A j \in S : ~ (<<j, k>> \in OpToRel(<, Nat))
  BY NatLessThanWellFounded, WFMin
<1>2. \A j \in S : ~ (j < k)
  BY <1>1 DEF OpToRel
<1> QED
  BY <1>2

\* The first request of a backlog is one of it: the earliest timestamps have a least node.
LEMMA FirstIsQueued ==
  ASSUME NEW Q \in SUBSET Request, Q # {},
         \A r, s \in Q : r.timestamp = s.timestamp /\ r.node = s.node => r = s
  PROVE  First(Q) \in Q
<1> DEFINE Stamps == {r.timestamp : r \in Q}
<1>1. PICK r \in Q : \A s \in Q : r.timestamp <= s.timestamp
  <2>1. Stamps \in SUBSET Nat /\ Stamps # {}
    BY DEF Request
  <2>2. PICK k \in Stamps : \A j \in Stamps : k <= j
    BY <2>1, LeastNumber
  <2> QED
    BY <2>2
<1> DEFINE Earliest == {s \in Q : s.timestamp = r.timestamp}
           Senders == {s.node : s \in Earliest}
<1>2. PICK f \in Earliest : \A s \in Earliest : f.node <= s.node
  <2>1. Senders \in SUBSET Nat /\ Senders # {}
    <3>1. r \in Earliest
      BY <1>1
    <3>2. \A s \in Earliest : s.node \in Nat
      BY NodesAssumption DEF Request
    <3> QED
      BY <3>1, <3>2
  <2>2. PICK k \in Senders : \A j \in Senders : k <= j
    BY <2>1, LeastNumber
  <2> QED
    BY <2>2
<1>3. \A s \in Q \ {f} : Before(f, s)
  <2> SUFFICES ASSUME NEW s \in Q \ {f} PROVE Before(f, s)
    OBVIOUS
  <2>1. f \in Q /\ f.timestamp = r.timestamp
    BY <1>2
  <2>2. s.timestamp \in Nat /\ f.timestamp \in Nat /\ s.node \in Nat /\ f.node \in Nat
    BY <2>1, NodesAssumption DEF Request
  <2>3. f.timestamp <= s.timestamp
    BY <1>1, <2>1
  <2>4. s.timestamp = f.timestamp => f.node <= s.node /\ f.node # s.node
    BY <1>2, <2>1
  <2> QED
    BY <2>2, <2>3, <2>4 DEF Before
<1> QED
  BY <1>2, <1>3 DEF First

-----------------------------------------------------------------------------
(***************************************************************************)
(* The initial state.                                                      *)
(***************************************************************************)

LEMMA InitInvariant == Init => IInv
<1> SUFFICES ASSUME Init PROVE IInv
  OBVIOUS
<1>1. IsABag(inFlight) /\ BagToSet(inFlight) = {}
  BY DEF Init, IsABag, EmptyBag, SetToBag, BagToSet
<1>2. TypeOK
  BY <1>1 DEF Init, TypeOK
<1>3. SessionIsLast /\ OnlyMadeRequests /\ BacklogSorted /\ HolderHasMajority
  BY <1>1 DEF Init, SessionIsLast, OnlyMadeRequests, BacklogSorted, HolderHasMajority
<1>4. VotesConserved
  <2> SUFFICES ASSUME NEW v \in Nodes, NEW r \in Request PROVE Held(v, r) = 0 /\ Given(v, r) = 0
    BY DEF VotesConserved
  <2>1. Copies(Msg("vote", v, r), inFlight) = 0 /\ Copies(Msg("release", v, r), inFlight) = 0
    BY <1>1 DEF Copies, BagIn
  <2>2. Counted(v, r) = 0
    BY <1>2, BalanceTypes DEF Init, Counted, Live
  <2>3. Given(v, r) = 0
    BY NoRequestIsNone DEF Init, Given
  <2> QED
    BY <2>1, <2>2, <2>3 DEF Held
<1> QED
  BY <1>2, <1>3, <1>4 DEF Init, IInv, Protocol

-----------------------------------------------------------------------------
(***************************************************************************)
(* The steps.                                                              *)
(***************************************************************************)

\* What there is to show of a step that leaves the sessions and the clients' states alone.
LEMMA ConservedBySameSessions ==
  ASSUME TypeOK, VotesConserved, UNCHANGED <<cpc, session>>,
         \A v \in Nodes, r \in Request :
            Held(v, r)' - Given(v, r)' = Held(v, r) - Given(v, r),
         \A v \in Nodes, r \in Request :
            Held(v, r)' \in Int /\ Given(v, r)' \in Int
  PROVE  VotesConserved'
<1> SUFFICES ASSUME NEW v \in Nodes, NEW r \in Request
             PROVE  /\ Held(v, r)' >= Given(v, r)'
                    /\ Live(r)' => Held(v, r)' = Given(v, r)'
  BY DEF VotesConserved
<1>1. Live(r)' = Live(r)
  BY DEF Live
<1>2. Held(v, r) \in Int /\ Given(v, r) \in Int
  BY BalanceTypes DEF Held
<1>3. Held(v, r)' - Given(v, r)' = Held(v, r) - Given(v, r)
      /\ Held(v, r)' \in Int /\ Given(v, r)' \in Int
  OBVIOUS
<1>4. Held(v, r) >= Given(v, r) /\ (Live(r) => Held(v, r) = Given(v, r))
  BY DEF VotesConserved
<1> HIDE DEF Held, Given
<1> QED
  BY <1>1, <1>2, <1>3, <1>4

\* The next request of n is not one that has been made.
LEMMA AcquireLockInvariant ==
  ASSUME IInv, NEW n \in Nodes, AcquireLock(n)
  PROVE  IInv'
<1>1. PICK t \in Times[n] :
        /\ cpc[n] = "idle"
        /\ cpc' = [cpc EXCEPT ![n] = "wait"]
        /\ session' = [session EXCEPT ![n] =
                [node |-> n, timestamp |-> t, election |-> electionCount[n]]]
        /\ votes' = [votes EXCEPT ![n] = [v \in Nodes |-> 0]]
        /\ electionCount' = [electionCount EXCEPT ![n] = @ + 1]
        /\ inFlight' = inFlight (+) SetToBag({Msg("request", v,
                [node |-> n, timestamp |-> t, election |-> electionCount[n]]) : v \in Nodes})
        /\ UNCHANGED <<voterVars, panic>>
  BY DEF AcquireLock
<1>2. PICK r \in Request : r = [node |-> n, timestamp |-> t, election |-> electionCount[n]]
  BY BoundsAssumption DEF IInv, TypeOK, Request
<1> DEFINE S == {Msg("request", v, r) : v \in Nodes}
<1>3. /\ r.node = n /\ r.election = electionCount[n]
      /\ session' = [session EXCEPT ![n] = r] /\ inFlight' = inFlight (+) SetToBag(S)
  BY <1>1, <1>2
<1>4. /\ IsABag(inFlight')
      /\ BagToSet(inFlight') = BagToSet(inFlight) \cup S
      /\ \A e : Copies(e, inFlight') = Copies(e, inFlight) + IF e \in S THEN 1 ELSE 0
  BY <1>3, SendCopies DEF IInv, TypeOK
<1>5. TypeOK'
  <2>1. S \subseteq [action : Actions, voter : Nodes, req : Request]
    BY MsgType DEF Actions
  <2>2. BagToSet(inFlight') \subseteq [action : Actions, voter : Nodes, req : Request]
    BY <1>4, <2>1 DEF IInv, TypeOK
  <2>3. electionCount' \in [Nodes -> Nat] /\ cpc' \in [Nodes -> {"idle", "wait", "cs"}]
    BY <1>1 DEF IInv, TypeOK
  <2>4. session' \in [Nodes -> Request \cup {NoRequest}] /\ votes' \in [Nodes -> [Nodes -> -1..1]]
    BY <1>1, <1>3 DEF IInv, TypeOK
  <2> QED
    BY <1>1, <1>4, <2>2, <2>3, <2>4 DEF IInv, TypeOK, voterVars
<1>6. \A s : Made(s) => Made(s)'
  BY <1>1 DEF IInv, TypeOK, Made, Request
<1>7. OnlyMadeRequests'
  <2>1. \A m \in S : Made(m.req)'
    <3>1. Made(r)'
      BY <1>1, <1>3 DEF IInv, TypeOK, Made
    <3>2. \A m \in S : m.req = r
      BY DEF Msg
    <3> QED
      BY <3>1, <3>2
  <2> QED
    BY <1>1, <1>4, <1>6, <2>1 DEF IInv, Protocol, OnlyMadeRequests, voterVars
<1>8. SessionIsLast'
  BY <1>1, <1>3 DEF IInv, TypeOK, Protocol, SessionIsLast
<1>9. VotesConserved'
  <2> SUFFICES ASSUME NEW v \in Nodes, NEW s \in Request
               PROVE  /\ Held(v, s)' >= Given(v, s)'
                      /\ Live(s)' => Held(v, s)' = Given(v, s)'
    BY DEF VotesConserved
  <2>1. /\ Copies(Msg("vote", v, s), inFlight') = Copies(Msg("vote", v, s), inFlight)
        /\ Copies(Msg("release", v, s), inFlight') = Copies(Msg("release", v, s), inFlight)
    <3>1. Msg("vote", v, s) \notin S /\ Msg("release", v, s) \notin S
      BY MsgEq
    <3> QED
      BY <1>4, <3>1, BalanceTypes DEF IInv
  <2>2. Given(v, s)' = Given(v, s)
    BY <1>1 DEF Given, voterVars
  <2>3. CASE s = r
    <3>1. ~ Made(r)
      BY <1>3 DEF IInv, TypeOK, Made
    <3>2. Given(v, r) = 0
      BY <1>2, <3>1, NoRequestIsNone DEF IInv, Protocol, OnlyMadeRequests, Given
    <3>3. Copies(Msg("vote", v, r), inFlight) = 0 /\ Copies(Msg("release", v, r), inFlight) = 0
      BY <1>2, <3>1, MsgType DEF IInv, Protocol, OnlyMadeRequests, Copies, BagIn, Actions
    <3>4. Counted(v, r)' = 0
      BY <1>1, <1>3 DEF IInv, TypeOK, Counted, Live
    <3> QED
      BY <2>1, <2>2, <2>3, <3>2, <3>3, <3>4 DEF Held
  <2>4. CASE s # r
    <3>1. ~ Live(s)' \/ s.node # n
      BY <1>1, <1>3, <2>4 DEF IInv, TypeOK, Live
    <3>2. Counted(v, s)' = Counted(v, s) /\ (Live(s)' => Live(s))
      BY <1>1, <1>3, <3>1, BalanceTypes DEF IInv, TypeOK, Counted, Live
    <3>3. Held(v, s)' = Held(v, s)
      BY <2>1, <3>2 DEF Held
    <3> QED
      BY <2>2, <3>2, <3>3 DEF IInv, Protocol, VotesConserved
  <2> QED
    BY <2>3, <2>4
<1>10. HolderHasMajority'
  <2> SUFFICES ASSUME NEW k \in Nodes, (cpc[k] = "cs")' PROVE HasMajority(k)'
    BY DEF HolderHasMajority
  <2>1. cpc[k] = "cs" /\ votes'[k] = votes[k]
    BY <1>1 DEF IInv, TypeOK
  <2> QED
    BY <2>1 DEF IInv, Protocol, HolderHasMajority, HasMajority, Voters
<1> QED
  BY <1>1, <1>5, <1>7, <1>8, <1>9, <1>10
  DEF IInv, Protocol, BacklogSorted, voterVars

LEMMA EnterCSInvariant ==
  ASSUME IInv, NEW n \in Nodes, EnterCS(n)
  PROVE  IInv'
<1>1. TypeOK'
  BY DEF IInv, TypeOK, EnterCS, voterVars
<1>2. SessionIsLast'
  BY DEF IInv, TypeOK, Protocol, SessionIsLast, EnterCS, SessionLocked
<1>3. OnlyMadeRequests' /\ BacklogSorted'
  BY DEF IInv, Protocol, OnlyMadeRequests, BacklogSorted, Made, EnterCS, voterVars
<1>4. VotesConserved'
  <2> SUFFICES ASSUME NEW v \in Nodes, NEW s \in Request
               PROVE  /\ Held(v, s)' >= Given(v, s)'
                      /\ Live(s)' => Held(v, s)' = Given(v, s)'
    BY DEF VotesConserved
  <2>1. Live(s)' = Live(s)
    BY BalanceTypes DEF IInv, TypeOK, Live, EnterCS, SessionLocked
  <2>2. Held(v, s)' = Held(v, s) /\ Given(v, s)' = Given(v, s)
    BY <2>1 DEF Held, Counted, Given, EnterCS, voterVars
  <2> QED
    BY <2>1, <2>2 DEF IInv, Protocol, VotesConserved
<1>5. HolderHasMajority'
  BY DEF IInv, TypeOK, Protocol, HolderHasMajority, HasMajority, Voters, EnterCS, SessionLocked
<1> QED
  BY <1>1, <1>2, <1>3, <1>4, <1>5 DEF IInv, Protocol, EnterCS

\* Every vote counted is returned, and one rescinded that has not arrived is forgotten.
LEMMA ReleaseLockInvariant ==
  ASSUME IInv, NEW n \in Nodes, ReleaseLock(n)
  PROVE  IInv'
<1> DEFINE r == session[n]
           S == {Msg("release", v, r) : v \in Voters(n)}
<1>1. r \in Request /\ r.node = n /\ Made(r)
  BY DEF IInv, TypeOK, Protocol, SessionIsLast, ReleaseLock, Made
<1>2. /\ cpc[n] = "cs" /\ cpc' = [cpc EXCEPT ![n] = "idle"]
      /\ inFlight' = inFlight (+) SetToBag(S)
      /\ UNCHANGED <<session, votes, electionCount, voterVars, panic>>
  BY DEF ReleaseLock
<1> HIDE DEF r
<1>3. /\ IsABag(inFlight')
      /\ BagToSet(inFlight') = BagToSet(inFlight) \cup S
      /\ \A e : Copies(e, inFlight') = Copies(e, inFlight) + IF e \in S THEN 1 ELSE 0
  BY <1>2, SendCopies DEF IInv, TypeOK
<1>4. TypeOK'
  <2>1. S \subseteq [action : Actions, voter : Nodes, req : Request]
    BY <1>1, MsgType DEF Actions, Voters
  <2> QED
    BY <1>2, <1>3, <2>1 DEF IInv, TypeOK, voterVars
<1>5. SessionIsLast'
  BY <1>2 DEF IInv, TypeOK, Protocol, SessionIsLast
<1>6. OnlyMadeRequests'
  BY <1>1, <1>2, <1>3 DEF IInv, Protocol, OnlyMadeRequests, Made, Msg, voterVars
<1>7. VotesConserved'
  <2> SUFFICES ASSUME NEW v \in Nodes, NEW s \in Request
               PROVE  /\ Held(v, s)' >= Given(v, s)'
                      /\ Live(s)' => Held(v, s)' = Given(v, s)'
    BY DEF VotesConserved
  <2>1. /\ Copies(Msg("vote", v, s), inFlight') = Copies(Msg("vote", v, s), inFlight)
        /\ Copies(Msg("release", v, s), inFlight')
            = Copies(Msg("release", v, s), inFlight) + IF s = r /\ v \in Voters(n) THEN 1 ELSE 0
    <3>1. Msg("vote", v, s) \notin S /\ (Msg("release", v, s) \in S <=> s = r /\ v \in Voters(n))
      BY MsgEq
    <3> QED
      BY <1>3, <3>1, BalanceTypes DEF IInv
  <2>2. Given(v, s)' = Given(v, s)
    BY <1>2 DEF Given, voterVars
  <2>3. Held(v, s) >= Given(v, s) /\ (Live(s) => Held(v, s) = Given(v, s))
    BY DEF IInv, Protocol, VotesConserved
  <2>4. CASE s = r
    <3>1. ~ Live(s)' /\ Live(s)
      BY <1>1, <1>2, <2>4 DEF IInv, TypeOK, Live, r
    <3>2. Counted(v, s)' = 0 /\ Counted(v, s) = votes[n][v]
      BY <1>1, <2>4, <3>1 DEF Counted
    <3>3. v \in Voters(n) <=> votes[n][v] = 1
      BY DEF Voters
    <3>4. votes[n][v] \in -1..1
      BY DEF IInv, TypeOK
    <3> QED
      BY <2>1, <2>2, <2>3, <2>4, <3>1, <3>2, <3>3, <3>4, BalanceTypes DEF IInv, Held
  <2>5. CASE s # r
    <3>1. Live(s)' = Live(s)
      BY <1>2, <2>5, BalanceTypes DEF IInv, TypeOK, Live, r
    <3>2. Counted(v, s)' = Counted(v, s)
      BY <1>2, <3>1 DEF Counted
    <3> QED
      BY <2>1, <2>2, <2>3, <2>5, <3>1, <3>2, BalanceTypes DEF IInv, Held
  <2> QED
    BY <2>4, <2>5
<1>8. HolderHasMajority'
  BY <1>2 DEF IInv, TypeOK, Protocol, HolderHasMajority, HasMajority, Voters
<1> QED
  BY <1>2, <1>4, <1>5, <1>6, <1>7, <1>8 DEF IInv, Protocol, BacklogSorted, voterVars

\* A panic stops everything where it is.
LEMMA RaiseInvariant ==
  ASSUME IInv, NEW p, Raise(p),
         p \in {"InvalidRelease", "RescindTwice", "SameRequestTwice"}
  PROVE  IInv'
<1>1. TypeOK'
  BY DEF IInv, TypeOK, Raise, clientVars, voterVars
<1>2. SessionIsLast' /\ OnlyMadeRequests' /\ BacklogSorted' /\ panic' # "VoteTwice"
  BY DEF IInv, Protocol, SessionIsLast, OnlyMadeRequests, BacklogSorted, Made, Raise,
         clientVars, voterVars
<1>3. VotesConserved' /\ HolderHasMajority'
  BY DEF IInv, Protocol, VotesConserved, Held, Given, Counted, Live,
         HolderHasMajority, HasMajority, Voters, Raise, clientVars, voterVars
<1> QED
  BY <1>1, <1>2, <1>3 DEF IInv, Protocol

\* What a message that is handled and those it makes the node send have in common: they are
\* well formed and about requests that have been made.
LEMMA HandledMessages ==
  ASSUME IInv, NEW m, BagIn(m, inFlight), NEW S, Handled(m, S),
         \A k \in S : k \in [action : Actions, voter : Nodes, req : Request] /\ Made(k.req)
  PROVE  /\ IsABag(inFlight')
         /\ BagToSet(inFlight') \subseteq [action : Actions, voter : Nodes, req : Request]
         /\ \A k \in BagToSet(inFlight') : Made(k.req)
  BY HandledCopies DEF IInv, Protocol, TypeOK, OnlyMadeRequests

\* The message at hand is about a request that has been made, to a node.
LEMMA InFlightMade ==
  ASSUME IInv, NEW a, NEW v, NEW r, BagIn(Msg(a, v, r), inFlight)
  PROVE  v \in Nodes /\ r \in Request /\ r.node \in Nodes /\ Made(r)
<1>1. Msg(a, v, r) \in [action : Actions, voter : Nodes, req : Request] /\ Made(Msg(a, v, r).req)
  BY DEF IInv, Protocol, TypeOK, OnlyMadeRequests, BagIn
<1>2. v \in Nodes /\ r \in Request /\ Made(r)
  BY <1>1 DEF Msg
<1> QED
  BY <1>2 DEF Request

\* The voter votes for the request, or queues it.
LEMMA VoterHandleRequestInvariant ==
  ASSUME IInv, NEW v, NEW r, VoterHandleRequest(v, r)
  PROVE  IInv'
<1> DEFINE m == Msg("request", v, r)
<1>1. BagIn(m, inFlight) /\ v \in Nodes /\ r \in Request /\ Made(r)
  BY InFlightMade DEF VoterHandleRequest
<1>2. CASE /\ votedForReq[v] = NoRequest
           /\ votedForReq' = [votedForReq EXCEPT ![v] = r]
           /\ Handled(m, {Msg("vote", v, r)})
           /\ UNCHANGED <<attemptingRescind, voteBacklog, clientVars, panic>>
  <2>1. /\ IsABag(inFlight')
        /\ BagToSet(inFlight') \subseteq [action : Actions, voter : Nodes, req : Request]
        /\ \A k \in BagToSet(inFlight') : Made(k.req)
    BY <1>1, <1>2, HandledMessages, MsgType DEF Actions
  <2>2. TypeOK'
    BY <1>1, <1>2, <2>1 DEF IInv, TypeOK, clientVars
  <2>3. OnlyMadeRequests'
    BY <1>1, <1>2, <2>1 DEF IInv, TypeOK, Protocol, OnlyMadeRequests, Made, clientVars
  <2>4. VotesConserved'
    <3> SUFFICES ASSUME NEW w \in Nodes, NEW s \in Request
                 PROVE  /\ Held(w, s)' - Given(w, s)' = Held(w, s) - Given(w, s)
                        /\ Held(w, s)' \in Int /\ Given(w, s)' \in Int
      BY <1>2, ConservedBySameSessions DEF IInv, Protocol, clientVars
    <3>1. /\ Copies(Msg("vote", w, s), inFlight')
                = Copies(Msg("vote", w, s), inFlight) + IF w = v /\ s = r THEN 1 ELSE 0
          /\ Copies(Msg("release", w, s), inFlight') = Copies(Msg("release", w, s), inFlight)
      BY <1>1, <1>2, HandledCopies, MsgEq, BalanceTypes DEF IInv
    <3>2. Given(w, s)' = Given(w, s) + IF w = v /\ s = r THEN 1 ELSE 0
      BY <1>1, <1>2, NoRequestIsNone DEF IInv, TypeOK, Given
    <3>3. Counted(w, s)' = Counted(w, s)
      BY <1>2 DEF Counted, Live, clientVars
    <3> QED
      BY <3>1, <3>2, <3>3, BalanceTypes DEF IInv, Held
  <2>5. SessionIsLast' /\ BacklogSorted' /\ HolderHasMajority' /\ panic' # "VoteTwice"
    BY <1>2 DEF IInv, Protocol, SessionIsLast, BacklogSorted, HolderHasMajority, HasMajority,
                Voters, clientVars
  <2> QED
    BY <2>2, <2>3, <2>4, <2>5 DEF IInv, Protocol
<1>3. CASE votedForReq[v] # NoRequest /\ Raise("SameRequestTwice")
  BY <1>3, RaiseInvariant
<1>4. CASE /\ votedForReq[v] # NoRequest
           /\ ~InsertPanics(v, r)
           /\ voteBacklog' = [voteBacklog EXCEPT ![v] = @ \cup {r}]
           /\ attemptingRescind' = [attemptingRescind EXCEPT ![v] = @ \/ Overtakes(v, r)]
           /\ Handled(m, IF Overtakes(v, r) /\ ~attemptingRescind[v]
                         THEN {Msg("rescind", v, votedForReq[v])} ELSE {})
           /\ UNCHANGED <<votedForReq, clientVars, panic>>
  <2> DEFINE S == IF Overtakes(v, r) /\ ~attemptingRescind[v]
                  THEN {Msg("rescind", v, votedForReq[v])} ELSE {}
  <2>0. S \subseteq {Msg("rescind", v, votedForReq[v])} /\ Handled(m, S)
    BY <1>4
  <2> HIDE DEF S
  <2>1. /\ IsABag(inFlight')
        /\ BagToSet(inFlight') \subseteq [action : Actions, voter : Nodes, req : Request]
        /\ \A k \in BagToSet(inFlight') : Made(k.req)
    <3>1. votedForReq[v] \in Request /\ Made(votedForReq[v])
      BY <1>1, <1>4 DEF IInv, TypeOK, Protocol, OnlyMadeRequests
    <3>2. \A k \in S : k \in [action : Actions, voter : Nodes, req : Request] /\ Made(k.req)
      BY <1>1, <2>0, <3>1, MsgType DEF Actions
    <3> QED
      BY <1>1, <2>0, <3>2, HandledMessages
  <2>2. TypeOK'
    <3>1. \A w \in Nodes : voteBacklog'[w] \subseteq Request
      BY <1>1, <1>4 DEF IInv, TypeOK
    <3>2. attemptingRescind' \in [Nodes -> BOOLEAN]
      BY <1>1, <1>4 DEF IInv, TypeOK, Overtakes, Before
    <3> QED
      BY <1>4, <2>1, <3>1, <3>2 DEF IInv, TypeOK, clientVars
  <2>3. OnlyMadeRequests'
    BY <1>1, <1>4, <2>1 DEF IInv, TypeOK, Protocol, OnlyMadeRequests, Made, clientVars
  <2>4. VotesConserved'
    <3> SUFFICES ASSUME NEW w \in Nodes, NEW s \in Request
                 PROVE  /\ Held(w, s)' - Given(w, s)' = Held(w, s) - Given(w, s)
                        /\ Held(w, s)' \in Int /\ Given(w, s)' \in Int
      BY <1>4, ConservedBySameSessions DEF IInv, Protocol, clientVars
    <3>1. /\ Copies(Msg("vote", w, s), inFlight') = Copies(Msg("vote", w, s), inFlight)
          /\ Copies(Msg("release", w, s), inFlight') = Copies(Msg("release", w, s), inFlight)
      <4>1. \A a \in {"vote", "release"} : Msg(a, w, s) \notin S /\ Msg(a, w, s) # m
        BY <2>0, MsgEq
      <4> QED
        BY <1>1, <2>0, <4>1, HandledCopies, BalanceTypes DEF IInv
    <3>2. Given(w, s)' = Given(w, s) /\ Counted(w, s)' = Counted(w, s)
      BY <1>4 DEF Given, Counted, Live, clientVars
    <3> QED
      BY <3>1, <3>2, BalanceTypes DEF IInv, Held
  <2>5. BacklogSorted'
    BY <1>1, <1>4 DEF IInv, Protocol, BacklogSorted, InsertPanics
  <2>6. SessionIsLast' /\ HolderHasMajority' /\ panic' # "VoteTwice"
    BY <1>4 DEF IInv, Protocol, SessionIsLast, HolderHasMajority, HasMajority, Voters, clientVars
  <2> QED
    BY <2>2, <2>3, <2>4, <2>5, <2>6 DEF IInv, Protocol
<1> QED
  BY <1>2, <1>3, <1>4 DEF VoterHandleRequest

\* The voter has its vote back, and votes for the first of its backlog.
LEMMA VoterHandleReleaseInvariant ==
  ASSUME IInv, NEW v, NEW r, VoterHandleRelease(v, r)
  PROVE  IInv'
<1> DEFINE m == Msg("release", v, r)
           next == First(voteBacklog[v])
<1>1. BagIn(m, inFlight) /\ v \in Nodes /\ r \in Request /\ Made(r)
  BY InFlightMade DEF VoterHandleRelease
<1>2. CASE Raise("InvalidRelease")
  BY <1>2, RaiseInvariant
<1>3. CASE /\ r = votedForReq[v]
           /\ attemptingRescind' = [attemptingRescind EXCEPT ![v] = FALSE]
           /\ votedForReq' = [votedForReq EXCEPT ![v] = NoRequest]
           /\ Handled(m, {})
           /\ UNCHANGED <<voteBacklog, clientVars, panic>>
  <2>1. /\ IsABag(inFlight')
        /\ BagToSet(inFlight') \subseteq [action : Actions, voter : Nodes, req : Request]
        /\ \A k \in BagToSet(inFlight') : Made(k.req)
    BY <1>1, <1>3, HandledMessages
  <2>2. TypeOK'
    BY <1>1, <1>3, <2>1 DEF IInv, TypeOK, clientVars
  <2>3. OnlyMadeRequests'
    BY <1>1, <1>3, <2>1 DEF IInv, TypeOK, Protocol, OnlyMadeRequests, Made, clientVars
  <2>4. VotesConserved'
    <3> SUFFICES ASSUME NEW w \in Nodes, NEW s \in Request
                 PROVE  /\ Held(w, s)' - Given(w, s)' = Held(w, s) - Given(w, s)
                        /\ Held(w, s)' \in Int /\ Given(w, s)' \in Int
      BY <1>3, ConservedBySameSessions DEF IInv, Protocol, clientVars
    <3>1. /\ Copies(Msg("vote", w, s), inFlight') = Copies(Msg("vote", w, s), inFlight)
          /\ Copies(Msg("release", w, s), inFlight')
                = Copies(Msg("release", w, s), inFlight) - IF w = v /\ s = r THEN 1 ELSE 0
      BY <1>1, <1>3, HandledCopies, MsgEq, BalanceTypes DEF IInv
    <3>2. Given(w, s)' = Given(w, s) - IF w = v /\ s = r THEN 1 ELSE 0
      BY <1>1, <1>3, NoRequestIsNone DEF IInv, TypeOK, Given
    <3>3. Counted(w, s)' = Counted(w, s)
      BY <1>3 DEF Counted, Live, clientVars
    <3> QED
      BY <3>1, <3>2, <3>3, BalanceTypes DEF IInv, Held
  <2>5. SessionIsLast' /\ BacklogSorted' /\ HolderHasMajority' /\ panic' # "VoteTwice"
    BY <1>3 DEF IInv, Protocol, SessionIsLast, BacklogSorted, HolderHasMajority, HasMajority,
                Voters, clientVars
  <2> QED
    BY <2>2, <2>3, <2>4, <2>5 DEF IInv, Protocol
<1>4. CASE /\ r = votedForReq[v]
           /\ voteBacklog[v] # {}
           /\ attemptingRescind' = [attemptingRescind EXCEPT ![v] = FALSE]
           /\ voteBacklog' = [voteBacklog EXCEPT ![v] = @ \ {next}]
           /\ votedForReq' = [votedForReq EXCEPT ![v] = next]
           /\ Handled(m, {Msg("vote", v, next)})
           /\ UNCHANGED <<clientVars, panic>>
  <2>0. PICK q \in Request : q = next /\ Made(q)
    <3>1. next \in voteBacklog[v]
      BY <1>1, <1>4, FirstIsQueued DEF IInv, TypeOK, Protocol, BacklogSorted
    <3> QED
      BY <1>1, <3>1 DEF IInv, Protocol, OnlyMadeRequests, Made
  <2> HIDE DEF next
  <2>1. /\ IsABag(inFlight')
        /\ BagToSet(inFlight') \subseteq [action : Actions, voter : Nodes, req : Request]
        /\ \A k \in BagToSet(inFlight') : Made(k.req)
    BY <1>1, <1>4, <2>0, HandledMessages, MsgType DEF Actions
  <2>2. TypeOK'
    BY <1>1, <1>4, <2>0, <2>1 DEF IInv, TypeOK, clientVars
  <2>3. OnlyMadeRequests'
    BY <1>1, <1>4, <2>0, <2>1 DEF IInv, TypeOK, Protocol, OnlyMadeRequests, Made, clientVars
  <2>4. VotesConserved'
    <3> SUFFICES ASSUME NEW w \in Nodes, NEW s \in Request
                 PROVE  /\ Held(w, s)' - Given(w, s)' = Held(w, s) - Given(w, s)
                        /\ Held(w, s)' \in Int /\ Given(w, s)' \in Int
      BY <1>4, ConservedBySameSessions DEF IInv, Protocol, clientVars
    <3>1. /\ Copies(Msg("vote", w, s), inFlight')
                = Copies(Msg("vote", w, s), inFlight) + IF w = v /\ s = q THEN 1 ELSE 0
          /\ Copies(Msg("release", w, s), inFlight')
                = Copies(Msg("release", w, s), inFlight) - IF w = v /\ s = r THEN 1 ELSE 0
      BY <1>1, <1>4, <2>0, HandledCopies, MsgEq, BalanceTypes DEF IInv
    <3>2. Given(w, s)' = Given(w, s) - (IF w = v /\ s = r THEN 1 ELSE 0)
                                     + (IF w = v /\ s = q THEN 1 ELSE 0)
      BY <1>1, <1>4, <2>0 DEF IInv, TypeOK, Given
    <3>3. Counted(w, s)' = Counted(w, s)
      BY <1>4 DEF Counted, Live, clientVars
    <3> QED
      BY <3>1, <3>2, <3>3, BalanceTypes, SMTT(30) DEF IInv, Held
  <2>5. BacklogSorted'
    BY <1>1, <1>4 DEF IInv, Protocol, BacklogSorted
  <2>6. SessionIsLast' /\ HolderHasMajority' /\ panic' # "VoteTwice"
    BY <1>4 DEF IInv, Protocol, SessionIsLast, HolderHasMajority, HasMajority, Voters, clientVars
  <2> QED
    BY <2>2, <2>3, <2>4, <2>5, <2>6 DEF IInv, Protocol
<1> QED
  BY <1>2, <1>3, <1>4 DEF VoterHandleRelease

\* A vote arrives: counted by the request it is for while that one waits, returned after that.
\* It is not counted already, or there would be two of it.
LEMMA HandleVoteInvariant ==
  ASSUME IInv, NEW v, NEW r, HandleVote(v, r)
  PROVE  IInv'
<1> DEFINE m == Msg("vote", v, r)
           n == r.node
<1>1. BagIn(m, inFlight) /\ v \in Nodes /\ r \in Request /\ n \in Nodes /\ Made(r)
  BY InFlightMade DEF HandleVote
<1>2. CASE Handled(m, {Msg("release", v, r)}) /\ UNCHANGED <<clientVars, voterVars, panic>>
  <2>1. /\ IsABag(inFlight')
        /\ BagToSet(inFlight') \subseteq [action : Actions, voter : Nodes, req : Request]
        /\ \A k \in BagToSet(inFlight') : Made(k.req)
    BY <1>1, <1>2, HandledMessages, MsgType DEF Actions
  <2>2. TypeOK' /\ OnlyMadeRequests'
    BY <1>2, <2>1 DEF IInv, TypeOK, Protocol, OnlyMadeRequests, Made, clientVars, voterVars
  <2>3. VotesConserved'
    <3> SUFFICES ASSUME NEW w \in Nodes, NEW s \in Request
                 PROVE  /\ Held(w, s)' - Given(w, s)' = Held(w, s) - Given(w, s)
                        /\ Held(w, s)' \in Int /\ Given(w, s)' \in Int
      BY <1>2, ConservedBySameSessions DEF IInv, Protocol, clientVars
    <3>1. /\ Copies(Msg("vote", w, s), inFlight')
                = Copies(Msg("vote", w, s), inFlight) - IF w = v /\ s = r THEN 1 ELSE 0
          /\ Copies(Msg("release", w, s), inFlight')
                = Copies(Msg("release", w, s), inFlight) + IF w = v /\ s = r THEN 1 ELSE 0
      BY <1>1, <1>2, HandledCopies, MsgEq, BalanceTypes DEF IInv
    <3>2. Given(w, s)' = Given(w, s) /\ Counted(w, s)' = Counted(w, s)
      BY <1>2 DEF Given, Counted, Live, clientVars, voterVars
    <3> QED
      BY <3>1, <3>2, BalanceTypes DEF IInv, Held
  <2>4. SessionIsLast' /\ BacklogSorted' /\ HolderHasMajority' /\ panic' # "VoteTwice"
    BY <1>2 DEF IInv, Protocol, SessionIsLast, BacklogSorted, HolderHasMajority, HasMajority,
                Voters, clientVars, voterVars
  <2> QED
    BY <2>2, <2>3, <2>4 DEF IInv, Protocol
<1>3. ~ (Open(n, r) /\ votes[n][v] = 1)
  <2> SUFFICES ASSUME Open(n, r), votes[n][v] = 1 PROVE FALSE
    OBVIOUS
  <2>1. Live(r) /\ Counted(v, r) = 1
    BY DEF Open, Live, Counted
  <2>2. Copies(m, inFlight) > 0
    BY <1>1, CopiesType DEF IInv, TypeOK
  <2>3. Held(v, r) = Given(v, r)
    BY <1>1, <2>1 DEF IInv, Protocol, VotesConserved
  <2> QED
    BY <1>1, <2>1, <2>2, <2>3, BalanceTypes DEF IInv, Held
<1>4. CASE /\ Open(n, r)
           /\ votes[n][v] < 1
           /\ votes' = [votes EXCEPT ![n][v] = @ + 1]
           /\ Handled(m, {})
           /\ UNCHANGED <<cpc, session, electionCount, voterVars, panic>>
  <2>1. /\ IsABag(inFlight')
        /\ BagToSet(inFlight') \subseteq [action : Actions, voter : Nodes, req : Request]
        /\ \A k \in BagToSet(inFlight') : Made(k.req)
    BY <1>1, <1>4, HandledMessages
  <2>2. votes' \in [Nodes -> [Nodes -> -1..1]]
    <3>1. votes[n][v] \in -1..1
      BY <1>1 DEF IInv, TypeOK
    <3>2. votes[n][v] + 1 \in -1..1
      BY <1>4, <3>1
    <3> QED
      BY <1>1, <1>4, <3>2 DEF IInv, TypeOK
  <2>3. TypeOK' /\ OnlyMadeRequests'
    BY <1>4, <2>1, <2>2 DEF IInv, TypeOK, Protocol, OnlyMadeRequests, Made, voterVars
  <2>4. VotesConserved'
    <3> SUFFICES ASSUME NEW w \in Nodes, NEW s \in Request
                 PROVE  /\ Held(w, s)' - Given(w, s)' = Held(w, s) - Given(w, s)
                        /\ Held(w, s)' \in Int /\ Given(w, s)' \in Int
      BY <1>4, ConservedBySameSessions DEF IInv, Protocol
    <3>1. /\ Copies(Msg("vote", w, s), inFlight')
                = Copies(Msg("vote", w, s), inFlight) - IF w = v /\ s = r THEN 1 ELSE 0
          /\ Copies(Msg("release", w, s), inFlight') = Copies(Msg("release", w, s), inFlight)
      BY <1>1, <1>4, HandledCopies, MsgEq, BalanceTypes DEF IInv
    <3>2. Given(w, s)' = Given(w, s)
      BY <1>4 DEF Given, voterVars
    <3>3. Counted(w, s)' = Counted(w, s) + IF w = v /\ s = r THEN 1 ELSE 0
      <4>1. Live(s)' = Live(s) /\ (Live(s) /\ s.node = n => s = r) /\ Live(r)
        BY <1>4 DEF Live, Open
      <4>2. votes'[s.node][w] = votes[s.node][w] + IF w = v /\ s.node = n THEN 1 ELSE 0
        <5>1. s.node \in Nodes /\ votes[s.node][w] \in Int
          BY BalanceTypes DEF IInv
        <5>2. votes'[s.node][w] = IF w = v /\ s.node = n THEN votes[n][v] + 1 ELSE votes[s.node][w]
          BY <1>1, <1>4, <5>1 DEF IInv, TypeOK
        <5> QED
          BY <5>1, <5>2
      <4> QED
        BY <4>1, <4>2 DEF Counted
    <3> QED
      BY <3>1, <3>2, <3>3, BalanceTypes DEF IInv, Held
  <2>5. HolderHasMajority'
    <3> SUFFICES ASSUME NEW k \in Nodes, cpc'[k] = "cs" PROVE HasMajority(k)'
      BY DEF HolderHasMajority
    <3>1. HasMajority(k)
      BY <1>4 DEF IInv, Protocol, HolderHasMajority
    <3>2. votes'[k] = votes[k]
      BY <1>4, <3>1 DEF Open, IInv, TypeOK
    <3> QED
      BY <3>1, <3>2 DEF HasMajority, Voters
  <2>6. SessionIsLast' /\ BacklogSorted' /\ panic' # "VoteTwice"
    BY <1>4 DEF IInv, Protocol, SessionIsLast, BacklogSorted, voterVars
  <2> QED
    BY <2>3, <2>4, <2>5, <2>6 DEF IInv, Protocol
<1> QED
  BY <1>2, <1>3, <1>4 DEF HandleVote

\* A rescind arrives: the vote is returned, also one that has not arrived itself.
LEMMA HandleRescindInvariant ==
  ASSUME IInv, NEW v, NEW r, HandleRescind(v, r)
  PROVE  IInv'
<1> DEFINE m == Msg("rescind", v, r)
           n == r.node
<1>1. BagIn(m, inFlight) /\ v \in Nodes /\ r \in Request /\ n \in Nodes /\ Made(r)
  BY InFlightMade DEF HandleRescind
<1>2. CASE Handled(m, {}) /\ UNCHANGED <<clientVars, voterVars, panic>>
  <2>1. /\ IsABag(inFlight')
        /\ BagToSet(inFlight') \subseteq [action : Actions, voter : Nodes, req : Request]
        /\ \A k \in BagToSet(inFlight') : Made(k.req)
    BY <1>1, <1>2, HandledMessages
  <2>2. TypeOK' /\ OnlyMadeRequests'
    BY <1>2, <2>1 DEF IInv, TypeOK, Protocol, OnlyMadeRequests, Made, clientVars, voterVars
  <2>3. VotesConserved'
    <3> SUFFICES ASSUME NEW w \in Nodes, NEW s \in Request
                 PROVE  /\ Held(w, s)' - Given(w, s)' = Held(w, s) - Given(w, s)
                        /\ Held(w, s)' \in Int /\ Given(w, s)' \in Int
      BY <1>2, ConservedBySameSessions DEF IInv, Protocol, clientVars
    <3>1. /\ Copies(Msg("vote", w, s), inFlight') = Copies(Msg("vote", w, s), inFlight)
          /\ Copies(Msg("release", w, s), inFlight') = Copies(Msg("release", w, s), inFlight)
      BY <1>1, <1>2, HandledCopies, MsgEq, BalanceTypes DEF IInv
    <3>2. Given(w, s)' = Given(w, s) /\ Counted(w, s)' = Counted(w, s)
      BY <1>2 DEF Given, Counted, Live, clientVars, voterVars
    <3> QED
      BY <3>1, <3>2, BalanceTypes DEF IInv, Held
  <2>4. SessionIsLast' /\ BacklogSorted' /\ HolderHasMajority' /\ panic' # "VoteTwice"
    BY <1>2 DEF IInv, Protocol, SessionIsLast, BacklogSorted, HolderHasMajority, HasMajority,
                Voters, clientVars, voterVars
  <2> QED
    BY <2>2, <2>3, <2>4 DEF IInv, Protocol
<1>3. CASE Raise("RescindTwice")
  BY <1>3, RaiseInvariant
<1>4. CASE /\ Open(n, r)
           /\ votes[n][v] > -1
           /\ votes' = [votes EXCEPT ![n][v] = RemoveVote(@)]
           /\ Handled(m, {Msg("release", v, r), Msg("resend", v, r)})
           /\ UNCHANGED <<cpc, session, electionCount, voterVars, panic>>
  <2> DEFINE S == {Msg("release", v, r), Msg("resend", v, r)}
  <2>1. /\ IsABag(inFlight')
        /\ BagToSet(inFlight') \subseteq [action : Actions, voter : Nodes, req : Request]
        /\ \A k \in BagToSet(inFlight') : Made(k.req)
    <3>1. \A k \in S : k \in [action : Actions, voter : Nodes, req : Request] /\ Made(k.req)
      BY <1>1, MsgType DEF Actions
    <3> QED
      BY <1>1, <1>4, <3>1, HandledMessages
  <2>2. votes' \in [Nodes -> [Nodes -> -1..1]]
    <3>1. votes[n][v] \in -1..1
      BY <1>1 DEF IInv, TypeOK
    <3>2. votes[n][v] - 1 \in -1..1
      BY <1>4, <3>1
    <3> QED
      BY <1>1, <1>4, <3>2 DEF IInv, TypeOK, RemoveVote
  <2>3. TypeOK' /\ OnlyMadeRequests'
    BY <1>4, <2>1, <2>2 DEF IInv, TypeOK, Protocol, OnlyMadeRequests, Made, voterVars
  <2>4. VotesConserved'
    <3> SUFFICES ASSUME NEW w \in Nodes, NEW s \in Request
                 PROVE  /\ Held(w, s)' - Given(w, s)' = Held(w, s) - Given(w, s)
                        /\ Held(w, s)' \in Int /\ Given(w, s)' \in Int
      BY <1>4, ConservedBySameSessions DEF IInv, Protocol
    <3>1. /\ Copies(Msg("vote", w, s), inFlight') = Copies(Msg("vote", w, s), inFlight)
          /\ Copies(Msg("release", w, s), inFlight')
                = Copies(Msg("release", w, s), inFlight) + IF w = v /\ s = r THEN 1 ELSE 0
      <4>1. /\ Msg("vote", w, s) \notin S
            /\ Msg("release", w, s) \in S <=> w = v /\ s = r
            /\ Msg("vote", w, s) # m /\ Msg("release", w, s) # m
        BY MsgEq
      <4> HIDE DEF S, m
      <4>2. Handled(m, S)
        BY <1>4 DEF S, m
      <4> QED
        BY <1>1, <4>1, <4>2, HandledCopies, BalanceTypes DEF IInv
    <3>2. Given(w, s)' = Given(w, s)
      BY <1>4 DEF Given, voterVars
    <3>3. Counted(w, s)' = Counted(w, s) - IF w = v /\ s = r THEN 1 ELSE 0
      <4>1. Live(s)' = Live(s) /\ (Live(s) /\ s.node = n => s = r) /\ Live(r)
        BY <1>4 DEF Live, Open
      <4>2. votes'[s.node][w] = votes[s.node][w] - IF w = v /\ s.node = n THEN 1 ELSE 0
        <5>1. s.node \in Nodes /\ votes[s.node][w] \in Int
          BY BalanceTypes DEF IInv
        <5>2. votes'[s.node][w] = IF w = v /\ s.node = n THEN votes[n][v] - 1 ELSE votes[s.node][w]
          BY <1>1, <1>4, <5>1 DEF IInv, TypeOK, RemoveVote
        <5> QED
          BY <5>1, <5>2
      <4> QED
        BY <4>1, <4>2 DEF Counted
    <3> QED
      BY <3>1, <3>2, <3>3, BalanceTypes DEF IInv, Held
  <2>5. HolderHasMajority'
    <3> SUFFICES ASSUME NEW k \in Nodes, cpc'[k] = "cs" PROVE HasMajority(k)'
      BY DEF HolderHasMajority
    <3>1. HasMajority(k)
      BY <1>4 DEF IInv, Protocol, HolderHasMajority
    <3>2. votes'[k] = votes[k]
      BY <1>4, <3>1 DEF Open, IInv, TypeOK
    <3> QED
      BY <3>1, <3>2 DEF HasMajority, Voters
  <2>6. SessionIsLast' /\ BacklogSorted' /\ panic' # "VoteTwice"
    BY <1>4 DEF IInv, Protocol, SessionIsLast, BacklogSorted, voterVars
  <2> QED
    BY <2>3, <2>4, <2>5, <2>6 DEF IInv, Protocol
<1> QED
  BY <1>2, <1>3, <1>4 DEF HandleRescind

\* The second request is about the session of now: there is one.
LEMMA ResendRequestInvariant ==
  ASSUME IInv, NEW v, NEW r, ResendRequest(v, r)
  PROVE  IInv'
<1> DEFINE m == Msg("resend", v, r)
<1>1. BagIn(m, inFlight) /\ v \in Nodes /\ r \in Request /\ r.node \in Nodes /\ Made(r)
  BY InFlightMade DEF ResendRequest
<1>2. PICK q \in Request : q = session[r.node] /\ Made(q)
  <2>1. electionCount[r.node] > 0
    BY <1>1 DEF Made, Request, IInv, TypeOK
  <2> QED
    BY <1>1, <2>1 DEF IInv, TypeOK, Protocol, SessionIsLast, Made
<1>3. Handled(m, {Msg("request", v, q)}) /\ UNCHANGED <<clientVars, voterVars, panic>>
  BY <1>2 DEF ResendRequest
<1>4. /\ IsABag(inFlight')
      /\ BagToSet(inFlight') \subseteq [action : Actions, voter : Nodes, req : Request]
      /\ \A k \in BagToSet(inFlight') : Made(k.req)
  BY <1>1, <1>2, <1>3, HandledMessages, MsgType DEF Actions
<1>5. TypeOK' /\ OnlyMadeRequests'
  BY <1>3, <1>4 DEF IInv, TypeOK, Protocol, OnlyMadeRequests, Made, clientVars, voterVars
<1>6. VotesConserved'
  <2> SUFFICES ASSUME NEW w \in Nodes, NEW s \in Request
               PROVE  /\ Held(w, s)' - Given(w, s)' = Held(w, s) - Given(w, s)
                      /\ Held(w, s)' \in Int /\ Given(w, s)' \in Int
    BY <1>3, ConservedBySameSessions DEF IInv, Protocol, clientVars
  <2>1. /\ Copies(Msg("vote", w, s), inFlight') = Copies(Msg("vote", w, s), inFlight)
        /\ Copies(Msg("release", w, s), inFlight') = Copies(Msg("release", w, s), inFlight)
    BY <1>1, <1>3, HandledCopies, MsgEq, BalanceTypes DEF IInv
  <2>2. Given(w, s)' = Given(w, s) /\ Counted(w, s)' = Counted(w, s)
    BY <1>3 DEF Given, Counted, Live, clientVars, voterVars
  <2> QED
    BY <2>1, <2>2, BalanceTypes DEF IInv, Held
<1>7. SessionIsLast' /\ BacklogSorted' /\ HolderHasMajority' /\ panic' # "VoteTwice"
  BY <1>3 DEF IInv, Protocol, SessionIsLast, BacklogSorted, HolderHasMajority, HasMajority,
              Voters, clientVars, voterVars
<1> QED
  BY <1>5, <1>6, <1>7 DEF IInv, Protocol

LEMMA StutterInvariant ==
  ASSUME IInv, UNCHANGED vars
  PROVE  IInv'
<1>1. TypeOK' /\ SessionIsLast' /\ OnlyMadeRequests' /\ BacklogSorted' /\ panic' # "VoteTwice"
  BY DEF IInv, TypeOK, Protocol, SessionIsLast, OnlyMadeRequests, BacklogSorted, Made,
         vars, clientVars, voterVars
<1>2. VotesConserved' /\ HolderHasMajority'
  BY DEF IInv, Protocol, VotesConserved, Held, Given, Counted, Live,
         HolderHasMajority, HasMajority, Voters, vars, clientVars, voterVars
<1> QED
  BY <1>1, <1>2 DEF IInv, Protocol

LEMMA StepInvariant == IInv /\ [Next]_vars => IInv'
<1> SUFFICES ASSUME IInv, [Next]_vars PROVE IInv'
  OBVIOUS
<1>1. ASSUME NEW n \in Nodes, Client(n) PROVE IInv'
  BY <1>1, AcquireLockInvariant, EnterCSInvariant, ReleaseLockInvariant DEF Client
<1>2. ASSUME NEW m \in BagToSet(inFlight), Deliver(m) PROVE IInv'
  BY <1>2, VoterHandleRequestInvariant, VoterHandleReleaseInvariant, HandleVoteInvariant,
     HandleRescindInvariant, ResendRequestInvariant DEF Deliver
<1>3. CASE UNCHANGED vars
  BY <1>3, StutterInvariant
<1> QED
  BY <1>1, <1>2, <1>3 DEF Next

-----------------------------------------------------------------------------
(***************************************************************************)
(* The theorems.                                                           *)
(***************************************************************************)

\* The inductive invariant holds of every reachable state.
THEOREM Invariance == Spec => []IInv
<1>1. IInv /\ [Next]_vars => IInv'
  BY StepInvariant
<1> QED
  BY InitInvariant, <1>1, PTL DEF Spec

\* The variables have their types: a count of one vote never leaves -1..1, and whatever is
\* sent is about a request, also when a session of the past sends it again.
THEOREM TypeCorrect == Spec => []TypeOK
<1>1. IInv => TypeOK
  BY DEF IInv
<1> QED
  BY <1>1, Invariance, PTL

LEMMA CountedIsGiven ==
  ASSUME IInv, NEW n \in Nodes, NEW v \in Nodes, cpc[n] # "idle", votes[n][v] = 1
  PROVE  votedForReq[v] = session[n] /\ session[n] \in Request /\ session[n].node = n
<1>1. session[n] \in Request /\ session[n].node = n
  BY DEF IInv, TypeOK, Protocol, SessionIsLast
<1>2. Live(session[n]) /\ Counted(v, session[n]) = 1
  BY <1>1 DEF Live, Counted
<1>3. Held(v, session[n]) = Given(v, session[n])
  BY <1>1, <1>2 DEF IInv, Protocol, VotesConserved
<1>4. Given(v, session[n]) # 0
  BY <1>1, <1>2, <1>3, BalanceTypes DEF IInv, Held
<1> QED
  BY <1>1, <1>4 DEF Given

\* A vote that a request under way counts is the one its voter has given and not got back,
\* and no vote is counted twice.
THEOREM CountedVotesAreGivenHolds == Spec => []CountedVotesAreGiven
<1>1. IInv => CountedVotesAreGiven
  BY CountedIsGiven DEF IInv, Protocol, CountedVotesAreGiven
<1> QED
  BY <1>1, Invariance, PTL

\* A voter that waits to have its vote back will not wait in vain: the vote or its release is
\* on the way, or a request under way counts it.
THEOREM NoVoteIsLostHolds == Spec => []NoVoteIsLost
<1>1. ASSUME IInv, NEW v \in Nodes, votedForReq[v] # NoRequest
      PROVE  LET r == votedForReq[v] IN
             \/ BagIn(Msg("vote", v, r), inFlight)
             \/ BagIn(Msg("release", v, r), inFlight)
             \/ cpc[r.node] # "idle" /\ session[r.node] = r /\ votes[r.node][v] = 1
  <2> DEFINE r == votedForReq[v]
  <2>1. r \in Request
    BY <1>1 DEF IInv, TypeOK
  <2>2. Held(v, r) >= 1
    BY <1>1, <2>1 DEF IInv, Protocol, VotesConserved, Given
  <2>3. \/ Copies(Msg("vote", v, r), inFlight) > 0
        \/ Copies(Msg("release", v, r), inFlight) > 0
        \/ Counted(v, r) = 1
    BY <1>1, <2>1, <2>2, BalanceTypes DEF IInv, Held
  <2>4. Counted(v, r) = 1 => Live(r) /\ votes[r.node][v] = 1
    BY DEF Counted
  <2> QED
    BY <1>1, <2>3, <2>4, CopiesType DEF IInv, TypeOK, Live
<1>2. IInv => NoVoteIsLost
  BY <1>1 DEF NoVoteIsLost
<1> QED
  BY <1>2, Invariance, PTL

\* Two majorities have a voter in common.
LEMMA MajoritiesMeet ==
  ASSUME NEW S \in SUBSET Nodes, NEW T \in SUBSET Nodes,
         Cardinality(S) >= Majority, Cardinality(T) >= Majority
  PROVE  S \cap T # {}
<1>1. IsFiniteSet(Nodes) /\ IsFiniteSet(S) /\ IsFiniteSet(T)
  BY NodesAssumption, FS_Subset
<1>2. Cardinality(S) \in Nat /\ Cardinality(T) \in Nat /\ Cardinality(Nodes) \in Nat
  BY <1>1, FS_CardinalityType
<1>3. Cardinality(S) + Cardinality(T) > Cardinality(Nodes)
  BY <1>2 DEF Majority
<1> QED
  BY <1>1, <1>3, FS_MajoritiesIntersect

\* At most one node is in its critical section: a voter of both majorities has given its one
\* vote to both requests.
THEOREM MutualExclusionHolds == Spec => []MutualExclusion
<1>1. ASSUME IInv, NEW n \in Nodes, NEW m \in Nodes, cpc[n] = "cs", cpc[m] = "cs"
      PROVE  n = m
  <2>1. Voters(n) \cap Voters(m) # {}
    BY <1>1, MajoritiesMeet DEF IInv, Protocol, HolderHasMajority, HasMajority, Voters
  <2>2. PICK v \in Nodes : votes[n][v] = 1 /\ votes[m][v] = 1
    BY <2>1 DEF Voters
  <2> QED
    BY <1>1, <2>2, CountedIsGiven
<1>2. IInv => MutualExclusion
  BY <1>1 DEF MutualExclusion
<1> QED
  BY <1>2, Invariance, PTL
=============================================================================
