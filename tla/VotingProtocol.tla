--------------------------- MODULE VotingProtocol ---------------------------
(***************************************************************************)
(* The voting lock of hw2/nodetypes.  A node is a client (AcquireLock and  *)
(* ReleaseLock), a voter (the Voter goroutine, which owns the node's one   *)
(* vote) and a goroutine per VOTE or RESCIND it receives.                  *)
(*                                                                         *)
(* handleMsg gives every message to a goroutine of its own, so a message   *)
(* is acted on at any later time, in any order: `inFlight' is a bag of the *)
(* messages sent and not acted on yet.  A request is its own electionId.   *)
(* n.clock is written by several goroutines without a lock and read by     *)
(* none but for the timestamp of a request: a request carries any          *)
(* timestamp up to a bound, and nothing below relies on its order.         *)
(***************************************************************************)
EXTENDS Integers, FiniteSets, Bags

LOCAL INSTANCE Functions

CONSTANTS
    Nodes,      \* the node identifiers, integers because ties are broken by them
    Times,      \* bound: the timestamps that requests of a node carry, none if it never asks
    MaxRequests \* bound: calls of AcquireLock, by all nodes together

ASSUME NodesAssumption == Nodes \subseteq Nat /\ IsFiniteSet(Nodes)
ASSUME BoundsAssumption == Times \in [Nodes -> SUBSET Nat] /\ MaxRequests \in Nat

VARIABLES
    cpc,               \* cpc[n]: "idle", "wait" for the majority, or "cs"
    session,           \* session[n]: the request of n's ongoingReqSesh
    votes,             \* votes[n][v]: its votes map, -1 (rescinded), 0 or 1
    electionCount,     \* electionCount[n]
    votedForReq,       \* votedForReq[v]: the request v has voted for, or NoRequest
    attemptingRescind, \* attemptingRescind[v]
    voteBacklog,       \* voteBacklog[v]: requests without a vote, a queue sorted by Before
    inFlight,          \* bag of messages sent and not yet acted on
    panic              \* which panic was raised, "none" before the first

clientVars == <<cpc, session, votes, electionCount>>
voterVars  == <<votedForReq, attemptingRescind, voteBacklog>>
vars == <<clientVars, voterVars, inFlight, panic>>

Request == [node : Nodes, timestamp : Nat, election : Nat]
NoRequest == [node |-> -1, timestamp |-> -1, election |-> -1]

\* "request" and "release" go from req.node to the voter, "vote" and "rescind" come back;
\* "resend" is a handleRescind that has sent its RELEASE and not yet its REQUEST.
Actions == {"request", "release", "vote", "rescind", "resend"}
Msg(action, v, r) == [action |-> action, voter |-> v, req |-> r]

TypeOK ==
    /\ cpc \in [Nodes -> {"idle", "wait", "cs"}]
    /\ session \in [Nodes -> Request \cup {NoRequest}]
    /\ votes \in [Nodes -> [Nodes -> -1..1]]
    /\ electionCount \in [Nodes -> Nat]
    /\ votedForReq \in [Nodes -> Request \cup {NoRequest}]
    /\ attemptingRescind \in [Nodes -> BOOLEAN]
    /\ \A v \in Nodes : voteBacklog[v] \subseteq Request
    /\ IsABag(inFlight)
    /\ BagToSet(inFlight) \subseteq [action : Actions, voter : Nodes, req : Request]
    /\ panic \in {"none", "InvalidRelease", "VoteTwice", "RescindTwice", "SameRequestTwice"}

Init ==
    /\ cpc = [n \in Nodes |-> "idle"]
    /\ session = [n \in Nodes |-> NoRequest]
    /\ votes = [n \in Nodes |-> [v \in Nodes |-> 0]]
    /\ electionCount = [n \in Nodes |-> 0]
    /\ votedForReq = [n \in Nodes |-> NoRequest]
    /\ attemptingRescind = [n \in Nodes |-> FALSE]
    /\ voteBacklog = [n \in Nodes |-> {}]
    /\ inFlight = EmptyBag
    /\ panic = "none"

Running == panic = "none"

Raise(p) == panic' = p /\ UNCHANGED <<clientVars, voterVars, inFlight>>

\* m has been acted on, with the messages S sent on the way.
Handled(m, S) == inFlight' = (inFlight (-) SetToBag({m})) (+) SetToBag(S)

-----------------------------------------------------------------------------
\* voteSession

\* Mutant: half of the votes.
HalfOfNodes == Cardinality(Nodes) \div 2

Majority == Cardinality(Nodes) \div 2 + 1

\* checkVotes() of the session of n, and GetVoters().
Voters(n) == {v \in Nodes : votes[n][v] = 1}
HasMajority(n) == Cardinality(Voters(n)) >= Majority

\* AddVote sends on doneChan with sessionLock held, until Wait receives.
SessionLocked(n) == cpc[n] = "wait" /\ HasMajority(n)

-----------------------------------------------------------------------------
\* The client.  No step merged here reads what another goroutine of the node writes
\* in between: the old session rejects every vote until the new one is in place.

\* AcquireLock up to Wait.
AcquireLock(n) == \E timestamp \in Times[n] :
    LET r == [node |-> n, timestamp |-> timestamp, election |-> electionCount[n]] IN
    /\ Running
    /\ cpc[n] = "idle"
    /\ FoldFunction(+, 0, electionCount) < MaxRequests
    /\ cpc' = [cpc EXCEPT ![n] = "wait"]
    /\ session' = [session EXCEPT ![n] = r]
    /\ votes' = [votes EXCEPT ![n] = [v \in Nodes |-> 0]]
    /\ electionCount' = [electionCount EXCEPT ![n] = @ + 1]
    /\ inFlight' = inFlight (+) SetToBag({Msg("request", v, r) : v \in Nodes})
    /\ UNCHANGED <<voterVars, panic>>

\* Wait returns.
EnterCS(n) ==
    /\ Running
    /\ SessionLocked(n)
    /\ cpc' = [cpc EXCEPT ![n] = "cs"]
    /\ UNCHANGED <<session, votes, electionCount, voterVars, inFlight, panic>>

\* Mutant: the session is dropped with the lock.
ReleaseAndForget(n) ==
    /\ Running
    /\ cpc[n] = "cs"
    /\ cpc' = [cpc EXCEPT ![n] = "idle"]
    /\ session' = [session EXCEPT ![n] = NoRequest]
    /\ inFlight' = inFlight (+) SetToBag({Msg("release", v, session[n]) : v \in Voters(n)})
    /\ UNCHANGED <<votes, electionCount, voterVars, panic>>

\* Mutant: the votes are kept.
ReleaseNone(n) ==
    /\ Running
    /\ cpc[n] = "cs"
    /\ cpc' = [cpc EXCEPT ![n] = "idle"]
    /\ UNCHANGED <<session, votes, electionCount, voterVars, inFlight, panic>>

ReleaseLock(n) ==
    /\ Running
    /\ cpc[n] = "cs"
    /\ cpc' = [cpc EXCEPT ![n] = "idle"]
    /\ inFlight' = inFlight (+) SetToBag({Msg("release", v, session[n]) : v \in Voters(n)})
    /\ UNCHANGED <<session, votes, electionCount, voterVars, panic>>

-----------------------------------------------------------------------------
\* The voter.  A request goes before another by timestamp and then by node.

Before(r, s) ==
    \/ r.timestamp < s.timestamp
    \/ r.timestamp = s.timestamp /\ r.node < s.node

\* Insert panics on an entry that is neither before nor after the new one.
InsertPanics(v, r) ==
    \E s \in voteBacklog[v] : s.timestamp = r.timestamp /\ s.node = r.node

First(backlog) == CHOOSE r \in backlog : \A s \in backlog \ {r} : Before(r, s)

\* The request has to take the vote of v back from a later one.
Overtakes(v, r) == Before(r, votedForReq[v])

VoterHandleRequest(v, r) ==
    LET m == Msg("request", v, r) IN
    /\ Running
    /\ BagIn(m, inFlight)
    /\ \/ /\ votedForReq[v] = NoRequest
          /\ votedForReq' = [votedForReq EXCEPT ![v] = r]
          /\ Handled(m, {Msg("vote", v, r)})
          /\ UNCHANGED <<attemptingRescind, voteBacklog, clientVars, panic>>
       \/ /\ votedForReq[v] # NoRequest
          /\ InsertPanics(v, r)
          /\ Raise("SameRequestTwice")
       \/ /\ votedForReq[v] # NoRequest
          /\ ~InsertPanics(v, r)
          /\ voteBacklog' = [voteBacklog EXCEPT ![v] = @ \cup {r}]
          /\ attemptingRescind' = [attemptingRescind EXCEPT ![v] = @ \/ Overtakes(v, r)]
          /\ Handled(m, IF Overtakes(v, r) /\ ~attemptingRescind[v]
                        THEN {Msg("rescind", v, votedForReq[v])} ELSE {})
          /\ UNCHANGED <<votedForReq, clientVars, panic>>

VoterHandleRelease(v, r) ==
    LET m == Msg("release", v, r)
        next == First(voteBacklog[v]) IN
    /\ Running
    /\ BagIn(m, inFlight)
    /\ \/ r # votedForReq[v] /\ Raise("InvalidRelease")
       \/ /\ r = votedForReq[v]
          /\ attemptingRescind' = [attemptingRescind EXCEPT ![v] = FALSE]
          /\ \/ /\ voteBacklog[v] = {}
                /\ votedForReq' = [votedForReq EXCEPT ![v] = NoRequest]
                /\ Handled(m, {})
                /\ UNCHANGED voteBacklog
             \/ /\ voteBacklog[v] # {}
                /\ voteBacklog' = [voteBacklog EXCEPT ![v] = @ \ {next}]
                /\ votedForReq' = [votedForReq EXCEPT ![v] = next]
                /\ Handled(m, {Msg("vote", v, next)})
          /\ UNCHANGED <<clientVars, panic>>

-----------------------------------------------------------------------------
\* The goroutines for votes.

\* Mutant: a vote of any election counts.
AnyElection(n, r) == cpc[n] # "idle" /\ ~HasMajority(n)

\* hasOngoingReq, and AddVote or RemoveVote accepts.
Open(n, r) == cpc[n] # "idle" /\ r = session[n] /\ ~HasMajority(n)

HandleVote(v, r) ==
    LET m == Msg("vote", v, r)
        n == r.node IN
    /\ Running
    /\ BagIn(m, inFlight)
    /\ ~SessionLocked(n)
    /\ \/ /\ ~Open(n, r)  \* late: return the vote
          /\ Handled(m, {Msg("release", v, r)})
          /\ UNCHANGED <<clientVars, voterVars, panic>>
       \/ /\ Open(n, r)
          /\ votes[n][v] = 1
          /\ Raise("VoteTwice")
       \/ /\ Open(n, r)
          /\ votes[n][v] < 1
          /\ votes' = [votes EXCEPT ![n][v] = @ + 1]
          /\ Handled(m, {})
          /\ UNCHANGED <<cpc, session, electionCount, voterVars, panic>>


\* A vote that is not there yet counts -1, and the late VOTE brings it to 0.
RemoveVote(count) == count - 1

\* RemoveVote, and the RELEASE when it succeeds.
HandleRescind(v, r) ==
    LET m == Msg("rescind", v, r)
        n == r.node IN
    /\ Running
    /\ BagIn(m, inFlight)
    /\ ~SessionLocked(n)
    /\ \/ /\ ~Open(n, r)
          /\ Handled(m, {})
          /\ UNCHANGED <<clientVars, voterVars, panic>>
       \/ /\ Open(n, r)
          /\ votes[n][v] = -1
          /\ Raise("RescindTwice")
       \/ /\ Open(n, r)
          /\ votes[n][v] > -1
          /\ votes' = [votes EXCEPT ![n][v] = RemoveVote(@)]
          /\ Handled(m, {Msg("release", v, r), Msg("resend", v, r)})
          /\ UNCHANGED <<cpc, session, electionCount, voterVars, panic>>

\* Mutant: no second REQUEST.
NoResend(v, r) ==
    LET m == Msg("resend", v, r) IN
    /\ Running
    /\ BagIn(m, inFlight)
    /\ Handled(m, {})
    /\ UNCHANGED <<clientVars, voterVars, panic>>

\* handleRescind then sends its REQUEST again, from the session the node has by now.
ResendRequest(v, r) ==
    LET m == Msg("resend", v, r) IN
    /\ Running
    /\ BagIn(m, inFlight)
    /\ Handled(m, {Msg("request", v, session[r.node])})
    /\ UNCHANGED <<clientVars, voterVars, panic>>

-----------------------------------------------------------------------------
Client(n) == AcquireLock(n) \/ EnterCS(n) \/ ReleaseLock(n)

Deliver(m) ==
    \/ VoterHandleRequest(m.voter, m.req)
    \/ VoterHandleRelease(m.voter, m.req)
    \/ HandleVote(m.voter, m.req)
    \/ HandleRescind(m.voter, m.req)
    \/ ResendRequest(m.voter, m.req)

Next ==
    \/ \E n \in Nodes : Client(n)
    \/ \E m \in BagToSet(inFlight) : Deliver(m)

Spec == Init /\ [][Next]_vars

\* The Go scheduler runs every goroutine, and a client leaves its critical section.
\* A node need not ask for the lock.
Fairness ==
    /\ \A n \in Nodes : WF_vars(EnterCS(n)) /\ WF_vars(ReleaseLock(n))
    /\ WF_vars(\E m \in BagToSet(inFlight) : Deliver(m))

FairSpec == Spec /\ Fairness

-----------------------------------------------------------------------------
\* Properties

\* At most one node is between EnterCS and ExitCS.
MutualExclusion == \A n, m \in Nodes : cpc[n] = "cs" /\ cpc[m] = "cs" => n = m

\* A vote that a request still under way counts is the vote its voter has given and not
\* got back, and AddVote never meets a vote that is counted already (its panic): rescinded
\* and late votes leave no voter behind with two requests, and none counted twice.
CountedVotesAreGiven ==
    /\ \A n, v \in Nodes : cpc[n] # "idle" /\ votes[n][v] = 1 => votedForReq[v] = session[n]
    /\ panic # "VoteTwice"

\* A vote is never lost: while a voter waits to have it back, the vote itself or its
\* release is on the way, or a request under way counts it.
NoVoteIsLost == \A v \in Nodes : votedForReq[v] # NoRequest =>
    LET r == votedForReq[v] IN
    \/ BagIn(Msg("vote", v, r), inFlight)
    \/ BagIn(Msg("release", v, r), inFlight)
    \/ cpc[r.node] # "idle" /\ session[r.node] = r /\ votes[r.node][v] = 1

\* The voter never receives a release of a vote it has not given (its panic).  It does, and
\* no run checks this; see the README.
NoInvalidRelease == panic # "InvalidRelease"

\* Whoever asks for the lock gets it, unless the program panics.
AcquireReturns == \A n \in Nodes : cpc[n] = "wait" ~> cpc[n] = "cs" \/ ~Running
=============================================================================
