--------------------------- MODULE RicartAgrawala ---------------------------
(***************************************************************************)
(* The Ricart-Agrawala lock of hw2/nodetypes.  Node n runs the client that *)
(* calls AcquireLock and ReleaseLock (`cpc'), the handleMsg goroutine that *)
(* receives (`lmsg'), and one goroutine per received message (`handlers'). *)
(*                                                                         *)
(* Channels are unbuffered, so a send waits until the receiver's handleMsg *)
(* is idle and is one step with the receive.  clock has no lock: every     *)
(* n.clock++ and the update of handleMsg are a load and a store, with the  *)
(* steps of the node's other goroutines between them.                      *)
(***************************************************************************)
EXTENDS PriorityQueue

CONSTANTS
    Nodes,       \* the node identifiers, integers because ties are broken by them
    MaxRequests  \* bound: calls of AcquireLock per node

ASSUME NodesAssumption == Nodes \subseteq Nat /\ IsFiniteSet(Nodes)
ASSUME MaxRequestsAssumption == MaxRequests \in Nat

VARIABLES
    clock, hasOngoingReq, lastReqTimestamp, reqAckCount, queue,  \* fields of RicartNode
    cpc,       \* cpc[n]: where the client of n is
    creg,      \* creg[n]: the clock value its n.clock++ has loaded or stored
    unsent,    \* unsent[n]: the nodes its current send or broadcast has yet to reach
    lmsg,      \* lmsg[n]: the message handleMsg works on, or Nothing
    lreg,      \* lreg[n]: the clock value handleMsg is about to store
    handlers,  \* handlers[n]: goroutines handling a message, each with its place
    holder,    \* SharedMemory.currentHolderId
    panic,     \* which panic was raised, "none" before the first
    requested  \* calls of AcquireLock by each node (bound)

clientVars == <<cpc, creg, unsent, requested>>
listenVars == <<lmsg, lreg>>
fieldVars  == <<hasOngoingReq, lastReqTimestamp, reqAckCount, queue>>
sharedVars == <<holder, panic>>
vars == <<clock, fieldVars, clientVars, listenVars, handlers, sharedVars>>

NoHolder == -1
Message == [action : {"request", "ack"}, node : Nodes, timestamp : Nat]
Nothing == [action |-> "nothing"]
Handler == [action : {"request", "ack"}, node : Nodes, timestamp : Nat,
            pc : {"check", "compare", "insert", "count", "load", "store", "send"}, reg : Nat]
Elem    == [nodeId : Nodes, timestamp : Nat]

TypeOK ==
    /\ clock \in [Nodes -> Nat]
    /\ hasOngoingReq \in [Nodes -> BOOLEAN]
    /\ lastReqTimestamp \in [Nodes -> Nat \cup {-1}]
    /\ reqAckCount \in [Nodes -> Nat]
    /\ queue \in [Nodes -> Seq(Elem)]
    /\ cpc \in [Nodes -> {"idle", "load", "store", "stamp", "request", "cs", "drain",
                          "ackStore", "ackSend", "clear"}]
    /\ creg \in [Nodes -> Nat]
    /\ unsent \in [Nodes -> SUBSET Nodes]
    /\ lmsg \in [Nodes -> Message \cup {Nothing}]
    /\ lreg \in [Nodes -> Nat]
    /\ handlers \in [Nodes -> SUBSET Handler]
    /\ holder \in Nodes \cup {NoHolder}
    /\ panic \in {"none", "SafetyBreached", "ExitWithoutEnter", "EmptyQueue",
                  "SameRequestTwice", "SendToSelf"}
    /\ requested \in [Nodes -> 0..MaxRequests]

Init ==
    /\ clock = [n \in Nodes |-> 0]
    /\ hasOngoingReq = [n \in Nodes |-> FALSE]
    /\ lastReqTimestamp = [n \in Nodes |-> -1]
    /\ reqAckCount = [n \in Nodes |-> 0]
    /\ queue = [n \in Nodes |-> <<>>]
    /\ cpc = [n \in Nodes |-> "idle"]
    /\ creg = [n \in Nodes |-> 0]
    /\ unsent = [n \in Nodes |-> {}]
    /\ lmsg = [n \in Nodes |-> Nothing]
    /\ lreg = [n \in Nodes |-> 0]
    /\ handlers = [n \in Nodes |-> {}]
    /\ holder = NoHolder
    /\ panic = "none"
    /\ requested = [n \in Nodes |-> 0]

-----------------------------------------------------------------------------
Go(n, from, to) == cpc[n] = from /\ cpc' = [cpc EXCEPT ![n] = to]

\* handleMsg of d receives the message and computes the new clock from what it loads.
Send(n, d, action, timestamp) ==
    /\ lmsg[d] = Nothing
    /\ lmsg' = [lmsg EXCEPT ![d] = [action |-> action, node |-> n, timestamp |-> timestamp]]
    /\ lreg' = [lreg EXCEPT ![d] = 1 + IF clock[d] > timestamp THEN clock[d] ELSE timestamp]

(***************************************************************************)
(* handleMsg.                                                              *)
(***************************************************************************)

\* Store the clock and give the message to a goroutine of its own.
HandleMsg(n) ==
    /\ lmsg[n] # Nothing
    /\ clock' = [clock EXCEPT ![n] = lreg[n]]
    /\ handlers' = [handlers EXCEPT ![n] = @ \cup
           {[action |-> lmsg[n].action, node |-> lmsg[n].node,
             timestamp |-> lmsg[n].timestamp, pc |-> "check", reg |-> 0]}]
    /\ lmsg' = [lmsg EXCEPT ![n] = Nothing]
    /\ lreg' = [lreg EXCEPT ![n] = 0]
    /\ UNCHANGED <<fieldVars, clientVars, sharedVars>>

(***************************************************************************)
(* handleRequest and handleReqAck.                                         *)
(***************************************************************************)

Become(n, h, h2) == handlers' = [handlers EXCEPT ![n] = (@ \ {h}) \cup {h2}]
Finish(n, h)     == handlers' = [handlers EXCEPT ![n] = @ \ {h}]

\* Is there an ongoing request? A late REQ_ACK is dropped.
CheckOngoing(n, h) ==
    /\ h.pc = "check"
    /\ CASE h.action = "request" ->
              Become(n, h, [h EXCEPT !.pc = IF hasOngoingReq[n] THEN "compare" ELSE "load"])
         [] h.action = "ack" ->
              IF hasOngoingReq[n] THEN Become(n, h, [h EXCEPT !.pc = "count"]) ELSE Finish(n, h)
    /\ UNCHANGED <<clock, fieldVars, clientVars, listenVars, sharedVars>>

\* Mutant: no tie-break.
NoTieBreak(n, h) == lastReqTimestamp[n] < h.timestamp

\* Our request precedes theirs: lower timestamp, or the same and a lower node.
OursIsEarlier(n, h) ==
    \/ lastReqTimestamp[n] < h.timestamp
    \/ lastReqTimestamp[n] = h.timestamp /\ n < h.node

\* Defer the REQ_ACK or give it.
CompareRequests(n, h) ==
    /\ h.pc = "compare"
    /\ Become(n, h, [h EXCEPT !.pc = IF OursIsEarlier(n, h) THEN "insert" ELSE "load"])
    /\ UNCHANGED <<clock, fieldVars, clientVars, listenVars, sharedVars>>

\* Insert the deferred request.
DeferRequest(n, h) ==
    LET elem == [nodeId |-> h.node, timestamp |-> h.timestamp] IN
    /\ h.pc = "insert"
    /\ Finish(n, h)
    /\ IF InsertPanics(queue[n], elem)
       THEN panic' = "SameRequestTwice" /\ UNCHANGED queue
       ELSE queue' = [queue EXCEPT ![n] = Insert(@, elem)] /\ UNCHANGED panic
    /\ UNCHANGED <<clock, hasOngoingReq, lastReqTimestamp, reqAckCount, clientVars, listenVars,
                   holder>>

\* n.clock++ of the REQ_ACK: load, then store.
LoadAckClock(n, h) ==
    /\ h.pc = "load"
    /\ Become(n, h, [h EXCEPT !.pc = "store", !.reg = clock[n]])
    /\ UNCHANGED <<clock, fieldVars, clientVars, listenVars, sharedVars>>

StoreAckClock(n, h) ==
    /\ h.pc = "store"
    /\ clock' = [clock EXCEPT ![n] = h.reg + 1]
    /\ Become(n, h, [h EXCEPT !.pc = "send", !.reg = h.reg + 1])
    /\ UNCHANGED <<fieldVars, clientVars, listenVars, sharedVars>>

\* Send the REQ_ACK.
SendAck(n, h) ==
    /\ h.pc = "send"
    /\ Send(n, h.node, "ack", h.reg)
    /\ Finish(n, h)
    /\ UNCHANGED <<clock, fieldVars, clientVars, sharedVars>>

\* AcquireLock holds req_ack_lock while it broadcasts.
AckLockHeld(n) == cpc[n] = "request" /\ unsent[n] # {}

CountAck(n, h) ==
    /\ h.pc = "count"
    /\ ~AckLockHeld(n)
    /\ reqAckCount' = [reqAckCount EXCEPT ![n] = @ + 1]
    /\ Finish(n, h)
    /\ UNCHANGED <<clock, hasOngoingReq, lastReqTimestamp, queue, clientVars, listenVars,
                   sharedVars>>

(***************************************************************************)
(* AcquireLock.                                                            *)
(***************************************************************************)

\* Take ongoingReq and set hasOngoingReq.
AcquireLock(n) ==
    /\ Go(n, "idle", "load")
    /\ requested[n] < MaxRequests
    /\ requested' = [requested EXCEPT ![n] = @ + 1]
    /\ hasOngoingReq' = [hasOngoingReq EXCEPT ![n] = TRUE]
    /\ UNCHANGED <<clock, lastReqTimestamp, reqAckCount, queue, creg, unsent, listenVars,
                   handlers, sharedVars>>

\* n.clock++: load, then store.
LoadClock(n) ==
    /\ Go(n, "load", "store")
    /\ creg' = [creg EXCEPT ![n] = clock[n]]
    /\ UNCHANGED <<clock, fieldVars, unsent, requested, listenVars, handlers, sharedVars>>

StoreClock(n) ==
    /\ Go(n, "store", "stamp")
    /\ clock' = [clock EXCEPT ![n] = creg[n] + 1]
    /\ creg' = [creg EXCEPT ![n] = 0]
    /\ UNCHANGED <<fieldVars, unsent, requested, listenVars, handlers, sharedVars>>

\* Take the timestamp from the clock, queue the request, reset the count of REQ_ACKs.
StampRequest(n) ==
    LET elem == [nodeId |-> n, timestamp |-> clock[n]] IN
    /\ Go(n, "stamp", "request")
    /\ lastReqTimestamp' = [lastReqTimestamp EXCEPT ![n] = clock[n]]
    /\ IF InsertPanics(queue[n], elem)
       THEN panic' = "SameRequestTwice" /\ UNCHANGED queue
       ELSE queue' = [queue EXCEPT ![n] = Insert(@, elem)] /\ UNCHANGED panic
    /\ reqAckCount' = [reqAckCount EXCEPT ![n] = 1]
    /\ unsent' = [unsent EXCEPT ![n] = Nodes \ {n}]
    /\ UNCHANGED <<clock, hasOngoingReq, creg, requested, listenVars, handlers, holder>>

\* One send of the broadcast, in any order of the map of endpoints.
BroadcastRequest(n, d) ==
    /\ cpc[n] = "request"
    /\ d \in unsent[n]
    /\ Send(n, d, "request", lastReqTimestamp[n])
    /\ unsent' = [unsent EXCEPT ![n] = @ \ {d}]
    /\ UNCHANGED <<clock, fieldVars, cpc, creg, requested, handlers, sharedVars>>

\* All REQ_ACKs are in: EnterCS, which panics while another node is inside.
EnterCS(n) ==
    /\ Go(n, "request", "cs")
    /\ unsent[n] = {}
    /\ reqAckCount[n] = Cardinality(Nodes)
    /\ IF holder # NoHolder
       THEN panic' = "SafetyBreached" /\ UNCHANGED holder
       ELSE holder' = n /\ UNCHANGED panic
    /\ UNCHANGED <<clock, fieldVars, creg, unsent, requested, listenVars, handlers>>

(***************************************************************************)
(* ReleaseLock.                                                            *)
(***************************************************************************)

\* Mutant: leave our request in the queue.
ReleaseKeepsHead(n) ==
    /\ Go(n, "cs", "drain")
    /\ holder' = NoHolder
    /\ UNCHANGED <<clock, fieldVars, creg, unsent, requested, listenVars, handlers, panic>>

\* ExitCS, then pop the head of the queue.
ReleaseLock(n) ==
    /\ Go(n, "cs", "drain")
    /\ holder' = NoHolder
    /\ IF holder # n THEN panic' = "ExitWithoutEnter" /\ UNCHANGED queue
       ELSE IF queue[n] = <<>> THEN panic' = "EmptyQueue" /\ UNCHANGED queue
       ELSE queue' = [queue EXCEPT ![n] = Tail(@)] /\ UNCHANGED panic
    /\ UNCHANGED <<clock, hasOngoingReq, lastReqTimestamp, reqAckCount, creg, unsent, requested,
                   listenVars, handlers>>

\* One deferred request: extract it and load the clock for its REQ_ACK.
ExtractDeferred(n) ==
    /\ queue[n] # <<>>
    /\ Go(n, "drain", "ackStore")
    /\ queue' = [queue EXCEPT ![n] = Tail(@)]
    /\ unsent' = [unsent EXCEPT ![n] = {Peek(queue[n])}]
    /\ creg' = [creg EXCEPT ![n] = clock[n]]
    /\ panic' = IF Peek(queue[n]) = n THEN "SendToSelf" ELSE panic
    /\ UNCHANGED <<clock, hasOngoingReq, lastReqTimestamp, reqAckCount, requested, listenVars,
                   handlers, holder>>

StoreDeferredClock(n) ==
    /\ Go(n, "ackStore", "ackSend")
    /\ clock' = [clock EXCEPT ![n] = creg[n] + 1]
    /\ creg' = [creg EXCEPT ![n] = @ + 1]
    /\ UNCHANGED <<fieldVars, unsent, requested, listenVars, handlers, sharedVars>>

SendDeferredAck(n, d) ==
    /\ d \in unsent[n]
    /\ Go(n, "ackSend", "drain")
    /\ Send(n, d, "ack", creg[n])
    /\ unsent' = [unsent EXCEPT ![n] = {}]
    /\ creg' = [creg EXCEPT ![n] = 0]
    /\ UNCHANGED <<clock, fieldVars, requested, handlers, sharedVars>>

\* The queue is empty: leave the loop.
DrainDone(n) ==
    /\ queue[n] = <<>>
    /\ Go(n, "drain", "clear")
    /\ UNCHANGED <<clock, fieldVars, creg, unsent, requested, listenVars, handlers, sharedVars>>

\* Clear hasOngoingReq and unlock ongoingReq.
ClearOngoing(n) ==
    /\ Go(n, "clear", "idle")
    /\ hasOngoingReq' = [hasOngoingReq EXCEPT ![n] = FALSE]
    /\ UNCHANGED <<clock, lastReqTimestamp, reqAckCount, queue, creg, unsent, requested,
                   listenVars, handlers, sharedVars>>

-----------------------------------------------------------------------------
HandlerStep(n, h) ==
    \/ CheckOngoing(n, h)
    \/ CompareRequests(n, h)
    \/ DeferRequest(n, h)
    \/ LoadAckClock(n, h)
    \/ StoreAckClock(n, h)
    \/ SendAck(n, h)
    \/ CountAck(n, h)

ClientStep(n) ==
    \/ LoadClock(n)
    \/ StoreClock(n)
    \/ StampRequest(n)
    \/ \E d \in Nodes : BroadcastRequest(n, d)
    \/ EnterCS(n)
    \/ ReleaseLock(n)
    \/ ExtractDeferred(n)
    \/ StoreDeferredClock(n)
    \/ \E d \in Nodes : SendDeferredAck(n, d)
    \/ DrainDone(n)
    \/ ClearOngoing(n)

Running == panic = "none"

Next ==
    /\ Running
    /\ \E n \in Nodes :
         \/ AcquireLock(n)
         \/ ClientStep(n)
         \/ HandleMsg(n)
         \/ \E h \in handlers[n] : HandlerStep(n, h)

Spec == Init /\ [][Next]_vars

-----------------------------------------------------------------------------
(***************************************************************************)
(* Properties.                                                             *)
(***************************************************************************)

\* EnterCS never finds another node in the critical section (the panic of
\* SharedMemory.go "Safety condition breached").
MutualExclusion == panic # "SafetyBreached"

\* None of the other panics of the protocol and its queue is reached.
NoOtherPanic ==
    panic \notin {"ExitWithoutEnter", "EmptyQueue", "SameRequestTwice", "SendToSelf"}

\* A node in the critical section has the earliest request of all: any other node that
\* has stamped a request stamped a later one, although no node ever sees all requests.
EarliestEnters ==
    \A n, m \in Nodes :
        n # m /\ cpc[n] = "cs" /\ cpc[m] = "request" =>
            Before([nodeId |-> n, timestamp |-> lastReqTimestamp[n]],
                   [nodeId |-> m, timestamp |-> lastReqTimestamp[m]])

\* A node holds back a REQ_ACK only for a request of its own that is earlier and not yet
\* released ("If our request is EARLIER, add that request to the queue"); otherwise two
\* nodes can defer each other, or one keeps a request that nobody will answer.
DeferredByEarlier ==
    \A n, m \in Nodes : \A i \in 1..Len(queue[n]) :
        n # m /\ queue[n][i].nodeId = m =>
            /\ hasOngoingReq[n]
            /\ Before([nodeId |-> n, timestamp |-> lastReqTimestamp[n]], queue[n][i])
=============================================================================
