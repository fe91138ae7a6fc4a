---------------------------- MODULE LamportQueue ----------------------------
(***************************************************************************)
(* Lamport's shared priority queue of hw2/nodetypes.  Node n runs the      *)
(* client that calls AcquireLock and ReleaseLock (`cpc'), the handleMsg    *)
(* goroutine that empties its channel in order, and one goroutine per      *)
(* received message (`handlers'), which run in any order.                  *)
(*                                                                         *)
(* Channels hold 10000 messages, more than a bounded behaviour sends, so   *)
(* a send never waits.  clockLock makes each change of clock one step; the *)
(* reads of clock outside it are steps of their own where the value is     *)
(* used as the timestamp of a request.                                     *)
(***************************************************************************)
EXTENDS PriorityQueue

CONSTANTS
    Nodes,       \* the node identifiers, integers because ties are broken by them
    MaxRequests  \* bound: calls of AcquireLock per node

ASSUME NodesAssumption == Nodes \subseteq Nat /\ IsFiniteSet(Nodes)
ASSUME MaxRequestsAssumption == MaxRequests \in Nat

VARIABLES
    clock, queue, reqAckCount, lastReqTimestamp,  \* fields of LamportNode
    ongoingReq, pendingReq,  \* whether these two mutexes are locked
    channel,   \* channel[n]: endpoint.recvChan of n
    handlers,  \* handlers[n]: goroutines handling a message, each with its place
    cpc,       \* cpc[n]: where the client of n is
    stamp,     \* stamp[n]: req_timestamp, or the timestamp of the RELEASE
    unsent,    \* unsent[n]: the nodes its current broadcast has yet to reach
    holder,    \* SharedMemory.currentHolderId
    panic,     \* which panic was raised, "none" before the first
    requested, \* calls of AcquireLock by each node (bound)
    hurried    \* history: AcquireLock was called while a request had yet to be answered

clientVars == <<cpc, stamp, unsent, requested>>
lockVars   == <<ongoingReq, pendingReq>>
sharedVars == <<holder, panic>>
vars == <<clock, queue, reqAckCount, lastReqTimestamp, lockVars, channel, handlers,
          clientVars, sharedVars, hurried>>

NoHolder == -1
Message == [action : {"request", "release", "ack"}, node : Nodes, timestamp : Nat]
Handler == [action : {"request", "release", "ack"}, node : Nodes, timestamp : Nat,
            pc : {"start", "try", "compare", "wait", "ackWaited", "ackLater", "ackFree", "count"}]
Elem    == [nodeId : Nodes, timestamp : Nat]

TypeOK ==
    /\ clock \in [Nodes -> Nat]
    /\ queue \in [Nodes -> Seq(Elem)]
    /\ reqAckCount \in [Nodes -> Nat]
    /\ lastReqTimestamp \in [Nodes -> Nat]
    /\ ongoingReq \in [Nodes -> BOOLEAN]
    /\ pendingReq \in [Nodes -> BOOLEAN]
    /\ channel \in [Nodes -> Seq(Message)]
    /\ handlers \in [Nodes -> SUBSET Handler]
    /\ cpc \in [Nodes -> {"idle", "tick", "read", "stamp", "insert", "lockPending", "request",
                          "cs", "extract", "release"}]
    /\ stamp \in [Nodes -> Nat]
    /\ unsent \in [Nodes -> SUBSET Nodes]
    /\ holder \in Nodes \cup {NoHolder}
    /\ panic \in {"none", "SafetyBreached", "ExitWithoutEnter", "EmptyQueue",
                  "SameRequestTwice", "TooManyAcks", "UnlockOfUnlocked"}
    /\ requested \in [Nodes -> 0..MaxRequests]

Init ==
    /\ clock = [n \in Nodes |-> 0]
    /\ queue = [n \in Nodes |-> <<>>]
    /\ reqAckCount = [n \in Nodes |-> 0]
    /\ lastReqTimestamp = [n \in Nodes |-> 0]
    /\ ongoingReq = [n \in Nodes |-> FALSE]
    /\ pendingReq = [n \in Nodes |-> FALSE]
    /\ channel = [n \in Nodes |-> <<>>]
    /\ handlers = [n \in Nodes |-> {}]
    /\ cpc = [n \in Nodes |-> "idle"]
    /\ stamp = [n \in Nodes |-> 0]
    /\ unsent = [n \in Nodes |-> {}]
    /\ holder = NoHolder
    /\ panic = "none"
    /\ requested = [n \in Nodes |-> 0] /\ hurried = FALSE

-----------------------------------------------------------------------------
Go(n, from, to) == cpc[n] = from /\ cpc' = [cpc EXCEPT ![n] = to]

Send(n, d, action, timestamp) ==
    channel' = [channel EXCEPT ![d] =
        Append(@, [action |-> action, node |-> n, timestamp |-> timestamp])]

\* queue.Insert and queue.Extract of node n, with their panics.
QueueInsert(n, elem) ==
    IF InsertPanics(queue[n], elem)
    THEN panic' = "SameRequestTwice" /\ UNCHANGED queue
    ELSE queue' = [queue EXCEPT ![n] = Insert(@, elem)] /\ UNCHANGED panic

QueueExtract(n) ==
    IF queue[n] = <<>>
    THEN panic' = "EmptyQueue" /\ UNCHANGED queue
    ELSE queue' = [queue EXCEPT ![n] = Tail(@)] /\ UNCHANGED panic

\* Receive a message: advance the clock, start a goroutine for the message.
HandleMsg(n) ==
    LET msg == Head(channel[n]) IN
    /\ channel[n] # <<>>
    /\ channel' = [channel EXCEPT ![n] = Tail(@)]
    /\ clock' = [clock EXCEPT ![n] = 1 + IF @ > msg.timestamp THEN @ ELSE msg.timestamp]
    /\ handlers' = [handlers EXCEPT ![n] = @ \cup
           {[action |-> msg.action, node |-> msg.node, timestamp |-> msg.timestamp,
             pc |-> "start"]}]
    /\ UNCHANGED <<queue, reqAckCount, lastReqTimestamp, lockVars, clientVars, sharedVars>>

-----------------------------------------------------------------------------
(***************************************************************************)
(* handleRequest.                                                          *)
(***************************************************************************)

Become(n, h, pc) == handlers' = [handlers EXCEPT ![n] = (@ \ {h}) \cup {[h EXCEPT !.pc = pc]}]
Finish(n, h)     == handlers' = [handlers EXCEPT ![n] = @ \ {h}]

\* Mutant: answer without queueing the request.
SkipInsert(n, h) ==
    /\ h.action = "request" /\ h.pc = "start"
    /\ Become(n, h, "try")
    /\ UNCHANGED <<clock, queue, reqAckCount, lastReqTimestamp, lockVars, channel, clientVars,
                   sharedVars>>

\* Put the request in the queue.
InsertRequest(n, h) ==
    /\ h.action = "request" /\ h.pc = "start"
    /\ QueueInsert(n, [nodeId |-> h.node, timestamp |-> h.timestamp])
    /\ Become(n, h, "try")
    /\ UNCHANGED <<clock, reqAckCount, lastReqTimestamp, lockVars, channel, clientVars, holder>>

\* TryLock on ongoingReq tells whether we have a request of our own.
TryOngoing(n, h) ==
    /\ h.pc = "try"
    /\ ongoingReq' = [ongoingReq EXCEPT ![n] = TRUE]
    /\ Become(n, h, IF ongoingReq[n] THEN "compare" ELSE "ackFree")
    /\ UNCHANGED <<clock, queue, reqAckCount, lastReqTimestamp, pendingReq, channel,
                   clientVars, sharedVars>>

\* Our request is later: higher timestamp, or the same and a higher node.
OursIsLater(n, h) ==
    \/ lastReqTimestamp[n] > h.timestamp
    \/ lastReqTimestamp[n] = h.timestamp /\ n > h.node

\* Mutant: drop a request that is later than ours.
DropLater(n, h) ==
    /\ h.pc = "compare"
    /\ IF OursIsLater(n, h) THEN Become(n, h, "ackLater") ELSE Finish(n, h)
    /\ UNCHANGED <<clock, queue, reqAckCount, lastReqTimestamp, lockVars, channel,
                   clientVars, sharedVars>>

CompareRequests(n, h) ==
    /\ h.pc = "compare"
    /\ Become(n, h, IF OursIsLater(n, h) THEN "ackLater" ELSE "wait")
    /\ UNCHANGED <<clock, queue, reqAckCount, lastReqTimestamp, lockVars, channel,
                   clientVars, sharedVars>>

\* Our request is earlier: wait until it is no longer pending.
LockPending(n, h) ==
    /\ h.pc = "wait"
    /\ ~pendingReq[n]
    /\ pendingReq' = [pendingReq EXCEPT ![n] = TRUE]
    /\ Become(n, h, "ackWaited")
    /\ UNCHANGED <<clock, queue, reqAckCount, lastReqTimestamp, ongoingReq, channel,
                   clientVars, sharedVars>>

\* Mutant: pendingReq is never unlocked.
UnlockNothing(n) == UNCHANGED <<pendingReq, panic>>

\* pendingReq.Unlock: the runtime stops the program if nobody holds it.
UnlockPending(n) ==
    IF pendingReq[n]
    THEN pendingReq' = [pendingReq EXCEPT ![n] = FALSE] /\ UNCHANGED panic
    ELSE panic' = "UnlockOfUnlocked" /\ UNCHANGED pendingReq

\* Send the REQ_ACK and release the mutex this path holds, if any.
SendAck(n, h) ==
    /\ h.pc \in {"ackWaited", "ackLater", "ackFree"}
    /\ clock' = [clock EXCEPT ![n] = @ + 1]
    /\ Send(n, h.node, "ack", clock[n] + 1)
    /\ Finish(n, h)
    /\ IF h.pc = "ackWaited" THEN UnlockPending(n) ELSE UNCHANGED <<pendingReq, panic>>
    /\ ongoingReq' = [ongoingReq EXCEPT ![n] = @ /\ h.pc # "ackFree"]
    /\ UNCHANGED <<queue, reqAckCount, lastReqTimestamp, clientVars, holder>>

(***************************************************************************)
(* handleRelease and handleReqAck.                                         *)
(***************************************************************************)

\* A RELEASE pops the head of the queue, whoever sent it.
HandleRelease(n, h) ==
    /\ h.action = "release"
    /\ QueueExtract(n)
    /\ Finish(n, h)
    /\ UNCHANGED <<clock, reqAckCount, lastReqTimestamp, lockVars, channel, clientVars, holder>>

\* A REQ_ACK that finds no ongoing request is late.
HandleReqAck(n, h) ==
    /\ h.action = "ack" /\ h.pc = "start"
    /\ IF ongoingReq[n] THEN Become(n, h, "count") ELSE Finish(n, h)
    /\ UNCHANGED <<clock, queue, reqAckCount, lastReqTimestamp, lockVars, channel,
                   clientVars, sharedVars>>

\* Count it; with the last one the request is no longer pending.
CountAck(n, h) ==
    /\ h.pc = "count"
    /\ reqAckCount' = [reqAckCount EXCEPT ![n] = @ + 1]
    /\ CASE reqAckCount[n] + 1 = Cardinality(Nodes) -> UnlockPending(n)
         [] reqAckCount[n] + 1 > Cardinality(Nodes) ->
                panic' = "TooManyAcks" /\ UNCHANGED pendingReq
         [] OTHER -> UNCHANGED <<pendingReq, panic>>
    /\ Finish(n, h)
    /\ UNCHANGED <<clock, queue, lastReqTimestamp, ongoingReq, channel, clientVars, holder>>

-----------------------------------------------------------------------------
(***************************************************************************)
(* AcquireLock.                                                            *)
(***************************************************************************)

\* Lock ongoingReq.
AcquireLock(n) ==
    /\ Go(n, "idle", "tick")
    /\ requested[n] < MaxRequests
    /\ requested' = [requested EXCEPT ![n] = @ + 1]
    /\ ~ongoingReq[n]
    /\ ongoingReq' = [ongoingReq EXCEPT ![n] = TRUE]
    /\ UNCHANGED <<clock, queue, reqAckCount, lastReqTimestamp, pendingReq, channel, handlers,
                   stamp, unsent, sharedVars>>

\* Mutant: the clock runs backwards.
TickBack(n) ==
    /\ Go(n, "tick", "read")
    /\ clock' = [clock EXCEPT ![n] = @ - 1]
    /\ UNCHANGED <<queue, reqAckCount, lastReqTimestamp, lockVars, channel, handlers, stamp,
                   unsent, requested, sharedVars>>

\* clock++ under clockLock.
Tick(n) ==
    /\ Go(n, "tick", "read")
    /\ clock' = [clock EXCEPT ![n] = @ + 1]
    /\ UNCHANGED <<queue, reqAckCount, lastReqTimestamp, lockVars, channel, handlers, stamp,
                   unsent, requested, sharedVars>>

\* req_timestamp := n.clock, after the unlock.
ReadTimestamp(n) ==
    /\ Go(n, "read", "stamp")
    /\ stamp' = [stamp EXCEPT ![n] = clock[n]]
    /\ UNCHANGED <<clock, queue, reqAckCount, lastReqTimestamp, lockVars, channel, handlers,
                   unsent, requested, sharedVars>>

\* lastReqTimestamp := req_timestamp.
StampRequest(n) ==
    /\ Go(n, "stamp", "insert")
    /\ lastReqTimestamp' = [lastReqTimestamp EXCEPT ![n] = stamp[n]]
    /\ UNCHANGED <<clock, queue, reqAckCount, lockVars, channel, handlers, stamp, unsent,
                   requested, sharedVars>>

InsertOwn(n) ==
    /\ Go(n, "insert", "lockPending")
    /\ QueueInsert(n, [nodeId |-> n, timestamp |-> stamp[n]])
    /\ UNCHANGED <<clock, reqAckCount, lastReqTimestamp, lockVars, channel, handlers, stamp,
                   unsent, requested, holder>>

\* Mutant: the count of the last request is kept.
KeepAckCount(n) ==
    /\ Go(n, "lockPending", "request")
    /\ ~pendingReq[n]
    /\ pendingReq' = [pendingReq EXCEPT ![n] = TRUE]
    /\ reqAckCount' = [reqAckCount EXCEPT ![n] = @ + 1]
    /\ unsent' = [unsent EXCEPT ![n] = Nodes \ {n}]
    /\ UNCHANGED <<clock, queue, lastReqTimestamp, ongoingReq, channel, handlers, stamp,
                   requested, sharedVars>>

\* Lock pendingReq, count our own REQ_ACK and start the broadcast.
LockOwnPending(n) ==
    /\ Go(n, "lockPending", "request")
    /\ ~pendingReq[n]
    /\ pendingReq' = [pendingReq EXCEPT ![n] = TRUE]
    /\ reqAckCount' = [reqAckCount EXCEPT ![n] = 1]
    /\ unsent' = [unsent EXCEPT ![n] = Nodes \ {n}]
    /\ UNCHANGED <<clock, queue, lastReqTimestamp, ongoingReq, channel, handlers, stamp,
                   requested, sharedVars>>

\* One send of a broadcast, in any order of the map of endpoints.
Broadcast(n, d) ==
    /\ d \in unsent[n]
    /\ Send(n, d, IF cpc[n] = "request" THEN "request" ELSE "release", stamp[n])
    /\ unsent' = [unsent EXCEPT ![n] = @ \ {d}]
    /\ UNCHANGED <<clock, queue, reqAckCount, lastReqTimestamp, lockVars, handlers, cpc, stamp,
                   requested, sharedVars>>

\* All REQ_ACKs are in and our request is at the head: EnterCS, then unlock ongoingReq.
EnterCS(n) ==
    /\ Go(n, "request", "cs")
    /\ unsent[n] = {}
    /\ reqAckCount[n] >= Cardinality(Nodes)
    /\ IF queue[n] = <<>>
       THEN panic' = "EmptyQueue" /\ UNCHANGED holder
       ELSE /\ Peek(queue[n]) = n
            /\ IF holder # NoHolder
               THEN panic' = "SafetyBreached" /\ UNCHANGED holder
               ELSE holder' = n /\ UNCHANGED panic
    /\ ongoingReq' = [ongoingReq EXCEPT ![n] = FALSE]
    /\ UNCHANGED <<clock, queue, reqAckCount, lastReqTimestamp, pendingReq, channel, handlers,
                   stamp, unsent, requested>>

(***************************************************************************)
(* ReleaseLock.                                                            *)
(***************************************************************************)

\* ExitCS.
ReleaseLock(n) ==
    /\ Go(n, "cs", "extract")
    /\ holder' = NoHolder
    /\ panic' = IF holder = n THEN panic ELSE "ExitWithoutEnter"
    /\ UNCHANGED <<clock, queue, reqAckCount, lastReqTimestamp, lockVars, channel, handlers,
                   stamp, unsent, requested>>

\* Pop the head of our queue, advance the clock and start the broadcast of RELEASE.
ExtractOwn(n) ==
    /\ Go(n, "extract", "release")
    /\ QueueExtract(n)
    /\ clock' = [clock EXCEPT ![n] = @ + 1]
    /\ stamp' = [stamp EXCEPT ![n] = clock[n] + 1]
    /\ unsent' = [unsent EXCEPT ![n] = Nodes \ {n}]
    /\ UNCHANGED <<reqAckCount, lastReqTimestamp, lockVars, channel, handlers, requested, holder>>

ReleaseDone(n) ==
    /\ Go(n, "release", "idle")
    /\ unsent[n] = {}
    /\ stamp' = [stamp EXCEPT ![n] = 0]
    /\ UNCHANGED <<clock, queue, reqAckCount, lastReqTimestamp, lockVars, channel, handlers,
                   unsent, requested, sharedVars>>

-----------------------------------------------------------------------------
HandlerStep(n, h) ==
    \/ InsertRequest(n, h)
    \/ TryOngoing(n, h)
    \/ CompareRequests(n, h)
    \/ LockPending(n, h)
    \/ SendAck(n, h)
    \/ HandleRelease(n, h)
    \/ HandleReqAck(n, h)
    \/ CountAck(n, h)

ClientStep(n) ==
    \/ Tick(n)
    \/ ReadTimestamp(n)
    \/ StampRequest(n)
    \/ InsertOwn(n)
    \/ LockOwnPending(n)
    \/ \E d \in Nodes : Broadcast(n, d)
    \/ EnterCS(n)
    \/ ReleaseLock(n)
    \/ ExtractOwn(n)
    \/ ReleaseDone(n)

Running == panic = "none"

\* A REQUEST no goroutine has compared with its node's own request yet.
UnansweredRequest ==
    \E n \in Nodes :
        \/ \E i \in 1..Len(channel[n]) : channel[n][i].action = "request"
        \/ \E h \in handlers[n] : h.pc \in {"try", "compare"} \/ (h.action = "request" /\ h.pc = "start")

\* No request is being stamped, queued or sent.
Settled ==
    /\ ~UnansweredRequest
    /\ \A n \in Nodes : cpc[n] \notin {"tick", "read", "stamp", "insert", "lockPending"}
                          /\ (cpc[n] = "request" => unsent[n] = {})

Next ==
    /\ Running
    /\ \E n \in Nodes :
         \/ AcquireLock(n)
         \/ ClientStep(n)
         \/ HandleMsg(n)
         \/ \E h \in handlers[n] : HandlerStep(n, h)
    /\ hurried' = (hurried \/ (requested' # requested /\ ~Settled))

Spec == Init /\ [][Next]_vars

-----------------------------------------------------------------------------
(***************************************************************************)
(* Properties.                                                             *)
(***************************************************************************)

\* EnterCS never finds another node in the critical section (the panic of
\* SharedMemory.go "Safety condition breached").
MutualExclusion == panic # "SafetyBreached"

\* EnterCS finds nobody in the critical section when requests are spaced apart: as long as
\* no AcquireLock is called while a request is being stamped or is on its way, waits and
\* critical sections may overlap in any way.
SpacedMutualExclusion == ~hurried => MutualExclusion

\* No mutex is unlocked by a goroutine that has lost it, no node is acknowledged twice by
\* another for one request, and no request is queued twice.
NoOtherPanic ==
    panic \notin {"ExitWithoutEnter", "EmptyQueue", "SameRequestTwice", "TooManyAcks",
                  "UnlockOfUnlocked"}

\* Each mutex is locked while exactly one goroutine counts on it: pendingReq is locked by
\* the client, unlocked by the goroutine of the last REQ_ACK, and borrowed by those that wait.
MutexesHaveOneHolder ==
    \A n \in Nodes :
        LET pendingClient == cpc[n] = "request" /\ reqAckCount[n] < Cardinality(Nodes)
            ongoingClient == cpc[n] \in {"tick", "read", "stamp", "insert", "lockPending", "request"}
            borrowers(pc) == {h \in handlers[n] : h.pc = pc}
        IN  /\ Cardinality(borrowers("ackWaited")) + (IF pendingClient THEN 1 ELSE 0)
                 = IF pendingReq[n] THEN 1 ELSE 0
            /\ Cardinality(borrowers("ackFree")) + (IF ongoingClient THEN 1 ELSE 0)
                 = IF ongoingReq[n] THEN 1 ELSE 0

\* For every request, each other node's answer is counted, or there is exactly one message
\* or goroutine left that will lead to it: no REQ_ACK is dropped as late or counted twice.
AcksConserved ==
    \A n \in Nodes :
        LET requestTo(d) == {i \in 1..Len(channel[d]) :
                                channel[d][i].node = n /\ channel[d][i].action = "request"}
            served(d)    == {h \in handlers[d] : h.node = n /\ h.action = "request"}
            ackFrom(d)   == {i \in 1..Len(channel[n]) :
                                channel[n][i].node = d /\ channel[n][i].action = "ack"}
            counting(d)  == {h \in handlers[n] : h.node = d /\ h.action = "ack"}
            pending(d)   == Cardinality(requestTo(d)) + Cardinality(served(d))
                              + Cardinality(ackFrom(d)) + Cardinality(counting(d))
        IN  /\ \A d \in Nodes : pending(d) <= IF cpc[n] = "request" /\ d # n THEN 1 ELSE 0
            /\ cpc[n] = "request" =>
                 reqAckCount[n] + Cardinality(unsent[n])
                   + Cardinality({d \in Nodes : pending(d) = 1}) = Cardinality(Nodes)

Queued(n, m) == \E i \in 1..Len(queue[n]) : queue[n][i].nodeId = m

\* The node in the critical section is in every node's queue: all of them have seen its
\* request before they acknowledged it, and none has popped it for another's RELEASE (for
\* requests that are spaced apart).
HolderIsQueuedEverywhere ==
    ~hurried => \A n, m \in Nodes : cpc[n] = "cs" => Queued(m, n)

\* RELEASEs carry no name: yet a node in the critical section is the head of its own queue
\* when ReleaseLock pops it (for requests that are spaced apart).
HeadIsOwnRequest ==
    ~hurried => \A n \in Nodes : cpc[n] = "cs" => Peek(queue[n]) = n

=============================================================================
