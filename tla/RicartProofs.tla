---------------------------- MODULE RicartProofs ----------------------------
(***************************************************************************)
(* The proofs about the Ricart-Agrawala lock, in four parts.               *)
(*                                                                         *)
(* 1. Types (TypeCorrect).                                                 *)
(* 2. Conservation, whatever the clocks do: the answer of each node to     *)
(*    each request is at one stage of its way, the stages that are left    *)
(*    and the REQ_ACKs counted make up nodeCount, and a node defers a      *)
(*    later request only.  No panic but that of EnterCS is reached.        *)
(* 3. Exclusion follows from Conserved and Ordered: a request that is      *)
(*    granted precedes that of the node which granted it.  Ordered holds   *)
(*    in every behaviour in which no store puts a clock back (ClockGrows). *)
(* 4. With at most two nodes it holds in every behaviour: a node whose     *)
(*    clock may go back defers the request that it forgets, or hears of    *)
(*    it again in the answer to its own (Knows).                           *)
(***************************************************************************)
EXTENDS RicartAgrawala, PriorityQueueProofs, FunctionTheorems, TLAPS

-----------------------------------------------------------------------------
(***************************************************************************)
(* Where the answer of d to the request of n is.                           *)
(***************************************************************************)

Unsent(n, d)       == cpc[n] = "request" /\ d \in unsent[n]
Listening(n, d)    == lmsg[d].action = "request" /\ lmsg[d].node = n
Handled(n, d)      == \E h \in handlers[d] : h.action = "request" /\ h.node = n
Queued(n, d)       == \E i \in 1..Len(queue[d]) : queue[d][i].nodeId = n
Drained(n, d)      == cpc[d] \in {"ackStore", "ackSend"} /\ n \in unsent[d]
AckListening(n, d) == lmsg[n].action = "ack" /\ lmsg[n].node = d
AckHandled(n, d)   == \E h \in handlers[n] : h.action = "ack" /\ h.node = d

StageNames == {"unsent", "listen", "handler", "queue", "drain", "ackListen", "ackHandler"}

At(s, n, d) ==
    \/ s = "unsent" /\ Unsent(n, d)
    \/ s = "listen" /\ Listening(n, d)
    \/ s = "handler" /\ Handled(n, d)
    \/ s = "queue" /\ Queued(n, d)
    \/ s = "drain" /\ Drained(n, d)
    \/ s = "ackListen" /\ AckListening(n, d)
    \/ s = "ackHandler" /\ AckHandled(n, d)

Stages(n, d) == {s \in StageNames : At(s, n, d)}

\* The nodes that have yet to answer n.
Pending(n) == {d \in Nodes \ {n} : Stages(n, d) # {}}

-----------------------------------------------------------------------------
(***************************************************************************)
(* The inductive invariant.                                                *)
(***************************************************************************)

Active(n) == cpc[n] \in {"request", "cs"}

\* A request that is made has a timestamp.
Stamped == \A n \in Nodes : Active(n) => lastReqTimestamp[n] \in Nat

PlacesOf(action) == IF action = "request"
                    THEN {"check", "compare", "insert", "load", "store", "send"}
                    ELSE {"check", "count"}

\* Each goroutine is at a place of its message, and no node sends to itself.
Goroutines ==
    \A n \in Nodes :
        /\ hasOngoingReq[n] <=> cpc[n] # "idle"
        /\ lmsg[n] # Nothing => lmsg[n].node # n
        /\ \A h \in handlers[n] : h.node # n /\ h.pc \in PlacesOf(h.action)
        /\ \A h, k \in handlers[n] : h.action = k.action /\ h.node = k.node => h = k

\* Whom the client is sending to.
Broadcasts ==
    \A n \in Nodes :
        /\ cpc[n] = "request" => n \notin unsent[n]
        /\ cpc[n] \in {"ackStore", "ackSend"} => \E d \in Nodes \ {n} : unsent[n] = {d}
        /\ cpc[n] \notin {"request", "ackStore", "ackSend"} => unsent[n] = {}

\* The answer of each node to each request is at one place, and it is counted once.
Answers ==
    /\ \A n, d \in Nodes : n # d =>
         /\ \A s, t \in Stages(n, d) : s = t
         /\ Stages(n, d) # {} => cpc[n] = "request"
    /\ \A n \in Nodes : cpc[n] = "request" =>
         reqAckCount[n] + Cardinality(Pending(n)) = Cardinality(Nodes)

\* The request of n.
Own(n) == [nodeId |-> n, timestamp |-> lastReqTimestamp[n]]

\* A request travels with the timestamp that its node keeps.
Timestamps ==
    /\ \A d \in Nodes : lmsg[d].action = "request" =>
         lmsg[d].timestamp = lastReqTimestamp[lmsg[d].node]
    /\ \A d \in Nodes : \A h \in handlers[d] : h.action = "request" =>
         h.timestamp = lastReqTimestamp[h.node]
    /\ \A d \in Nodes : \A i \in 1..Len(queue[d]) :
         queue[d][i] = Own(queue[d][i].nodeId) /\ Active(queue[d][i].nodeId)

\* A queue is sorted, and it holds the request of its node.
Queues ==
    \A n \in Nodes :
        /\ SortedQueue(queue[n])
        /\ Active(n) => Queued(n, n)

\* The request of n has not been granted by d.
AtHandler(n, d, pcs) ==
    \E h \in handlers[d] : h.action = "request" /\ h.node = n /\ h.pc \in pcs

Held(n, d) ==
    \/ Unsent(n, d)
    \/ Listening(n, d)
    \/ AtHandler(n, d, {"check", "compare", "insert"})
    \/ Queued(n, d)

\* Node d defers its answer to n.
Deferring(d, n) == Queued(n, d) \/ AtHandler(n, d, {"insert"})

\* If a node defers an earlier request than its own, its own is not granted in turn.
Deferral ==
    \A d, n \in Nodes : n # d /\ Deferring(d, n) =>
        /\ cpc[d] = "request" /\ Before(Own(n), Own(d)) => Held(d, n)
        /\ cpc[d] = "cs" => Before(Own(d), Own(n))

HolderInCS == panic = "none" => \A n \in Nodes : holder = n <=> cpc[n] = "cs"

Conserved ==
    /\ Goroutines
    /\ Broadcasts
    /\ Answers
    /\ Timestamps
    /\ Queues
    /\ Deferral
    /\ HolderInCS
    /\ NoOtherPanic

-----------------------------------------------------------------------------
(***************************************************************************)
(* The types.                                                              *)
(***************************************************************************)

LEMMA InitType == Init => TypeOK
<1> SUFFICES ASSUME Init PROVE TypeOK
  OBVIOUS
<1>1. \A S : << >> \in Seq(S)
  BY EmptySeq
<1> QED
  BY <1>1, MaxRequestsAssumption DEF Init, TypeOK, NoHolder

LEMMA ElemType ==
  ASSUME NEW n \in Nodes, NEW t \in Nat
  PROVE  [nodeId |-> n, timestamp |-> t] \in Elem
  BY DEF Elem

LEMMA SendType ==
  ASSUME TypeOK, NEW n \in Nodes, NEW d \in Nodes, NEW a \in {"request", "ack"}, NEW t \in Nat,
         Send(n, d, a, t)
  PROVE  lmsg' \in [Nodes -> Message \cup {Nothing}] /\ lreg' \in [Nodes -> Nat]
<1>1. [action |-> a, node |-> n, timestamp |-> t] \in Message
  BY DEF Message
<1>2. lmsg' \in [Nodes -> Message \cup {Nothing}]
  BY <1>1 DEF Send, TypeOK
<1>3. 1 + (IF clock[d] > t THEN clock[d] ELSE t) \in Nat
  BY SMTT(30) DEF TypeOK
<1> QED
  BY <1>2, <1>3 DEF Send, TypeOK

LEMMA HandlerType ==
  ASSUME TypeOK, NEW n \in Nodes, NEW h \in handlers[n]
  PROVE  h \in Handler /\ h.node \in Nodes /\ h.timestamp \in Nat /\ h.reg \in Nat
         /\ h.action \in {"request", "ack"}
<1>1. h \in Handler
  BY DEF TypeOK
<1> QED
  BY <1>1 DEF Handler

LEMMA BecomeType ==
  ASSUME TypeOK, NEW n \in Nodes, NEW h \in handlers[n], NEW k \in Handler, Become(n, h, k)
  PROVE  handlers' \in [Nodes -> SUBSET Handler]
  BY DEF Become, TypeOK

LEMMA FinishType ==
  ASSUME TypeOK, NEW n \in Nodes, NEW h \in handlers[n], Finish(n, h)
  PROVE  handlers' \in [Nodes -> SUBSET Handler]
  BY DEF Finish, TypeOK

LEMMA InsertType ==
  ASSUME TypeOK, NEW n \in Nodes, NEW e \in Elem,
         queue' = queue \/ queue' = [queue EXCEPT ![n] = Insert(@, e)]
  PROVE  queue' \in [Nodes -> Seq(Elem)]
<1>1. Insert(queue[n], e) \in Seq(Elem)
  BY Inserted DEF TypeOK
<1> QED
  BY <1>1 DEF TypeOK

LEMMA TailType ==
  ASSUME TypeOK, NEW n \in Nodes, queue[n] # << >>
  PROVE  Tail(queue[n]) \in Seq(Elem) /\ Peek(queue[n]) \in Nodes
<1>1. Tail(queue[n]) \in Seq(Elem) /\ Head(queue[n]) \in Elem
  BY HeadTailProperties DEF TypeOK
<1> QED
  BY <1>1 DEF Peek, Elem

LEMMA HandlerStepType ==
  ASSUME TypeOK, NEW n \in Nodes, NEW h \in handlers[n], HandlerStep(n, h)
  PROVE  TypeOK'
<1>1. h \in Handler /\ h.node \in Nodes /\ h.timestamp \in Nat /\ h.reg \in Nat
  BY HandlerType
<1>2. \A pc \in {"check", "compare", "insert", "count", "load", "store", "send"} :
        [h EXCEPT !.pc = pc] \in Handler
  BY <1>1 DEF Handler
<1>3. CASE CheckOngoing(n, h)
  <2>1. handlers' \in [Nodes -> SUBSET Handler]
    <3>1. h.action \in {"request", "ack"}
      BY HandlerType
    <3>2. CASE h.action = "request"
      BY <1>2, <1>3, <3>2, BecomeType DEF CheckOngoing
    <3>3. CASE h.action = "ack"
      BY <1>2, <1>3, <3>3, BecomeType, FinishType DEF CheckOngoing
    <3> QED
      BY <3>1, <3>2, <3>3
  <2> QED
    BY <1>3, <2>1 DEF CheckOngoing, TypeOK, fieldVars, clientVars, listenVars, sharedVars
<1>4. CASE CompareRequests(n, h)
  <2>1. handlers' \in [Nodes -> SUBSET Handler]
    BY <1>2, <1>4, BecomeType DEF CompareRequests
  <2> QED
    BY <1>4, <2>1 DEF CompareRequests, TypeOK, fieldVars, clientVars, listenVars, sharedVars
<1>5. CASE DeferRequest(n, h)
  <2>1. handlers' \in [Nodes -> SUBSET Handler]
    BY <1>5, FinishType DEF DeferRequest
  <2>2. [nodeId |-> h.node, timestamp |-> h.timestamp] \in Elem
    BY <1>1, ElemType
  <2>3. queue' \in [Nodes -> Seq(Elem)]
    BY <1>5, <2>2, InsertType DEF DeferRequest
  <2> QED
    BY <1>5, <2>1, <2>3 DEF DeferRequest, TypeOK, clientVars, listenVars
<1>6. CASE LoadAckClock(n, h)
  <2>1. [h EXCEPT !.pc = "store", !.reg = clock[n]] \in Handler
    BY <1>1 DEF Handler, TypeOK
  <2>2. handlers' \in [Nodes -> SUBSET Handler]
    BY <1>6, <2>1, BecomeType DEF LoadAckClock
  <2> QED
    BY <1>6, <2>2 DEF LoadAckClock, TypeOK, fieldVars, clientVars, listenVars, sharedVars
<1>7. CASE StoreAckClock(n, h)
  <2>1. h.reg + 1 \in Nat
    BY <1>1
  <2>2. [h EXCEPT !.pc = "send", !.reg = h.reg + 1] \in Handler
    BY <1>1, <2>1 DEF Handler
  <2>3. handlers' \in [Nodes -> SUBSET Handler]
    BY <1>7, <2>2, BecomeType DEF StoreAckClock
  <2> QED
    BY <1>7, <2>1, <2>3 DEF StoreAckClock, TypeOK, fieldVars, clientVars, listenVars, sharedVars
<1>8. CASE SendAck(n, h)
  <2>1. lmsg' \in [Nodes -> Message \cup {Nothing}] /\ lreg' \in [Nodes -> Nat]
    BY <1>1, <1>8, SendType DEF SendAck
  <2>2. handlers' \in [Nodes -> SUBSET Handler]
    BY <1>8, FinishType DEF SendAck
  <2> QED
    BY <1>8, <2>1, <2>2 DEF SendAck, TypeOK, fieldVars, clientVars, sharedVars
<1>9. CASE CountAck(n, h)
  <2>1. handlers' \in [Nodes -> SUBSET Handler]
    BY <1>9, FinishType DEF CountAck
  <2>2. reqAckCount' \in [Nodes -> Nat]
    BY <1>9 DEF CountAck, TypeOK
  <2> QED
    BY <1>9, <2>1, <2>2 DEF CountAck, TypeOK, clientVars, listenVars, sharedVars
<1> QED
  BY <1>3, <1>4, <1>5, <1>6, <1>7, <1>8, <1>9 DEF HandlerStep

LEMMA ClientStepType ==
  ASSUME TypeOK, Stamped, NEW n \in Nodes, AcquireLock(n) \/ ClientStep(n) \/ HandleMsg(n)
  PROVE  TypeOK'
<1>1. CASE AcquireLock(n)
  <2>1. requested[n] + 1 \in 0..MaxRequests
    BY <1>1, MaxRequestsAssumption DEF AcquireLock, TypeOK
  <2> QED
    BY <1>1, <2>1 DEF AcquireLock, Go, TypeOK, listenVars, sharedVars
<1>2. CASE HandleMsg(n)
  <2>1. lmsg[n] \in Message
    BY <1>2 DEF HandleMsg, TypeOK
  <2>2. [action |-> lmsg[n].action, node |-> lmsg[n].node,
         timestamp |-> lmsg[n].timestamp, pc |-> "check", reg |-> 0] \in Handler
    BY <2>1 DEF Message, Handler
  <2>3. handlers' \in [Nodes -> SUBSET Handler]
    BY <1>2, <2>2, SMTT(30) DEF HandleMsg, TypeOK
  <2>4. clock' \in [Nodes -> Nat] /\ lmsg' \in [Nodes -> Message \cup {Nothing}]
        /\ lreg' \in [Nodes -> Nat]
    BY <1>2 DEF HandleMsg, TypeOK
  <2> QED
    BY <1>2, <2>3, <2>4 DEF HandleMsg, TypeOK, fieldVars, clientVars, sharedVars
<1>3. CASE LoadClock(n)
  BY <1>3 DEF LoadClock, Go, TypeOK, fieldVars, listenVars, sharedVars
<1>4. CASE StoreClock(n)
  BY <1>4, SMTT(30) DEF StoreClock, Go, TypeOK, fieldVars, listenVars, sharedVars
<1>5. CASE StampRequest(n)
  <2>1. [nodeId |-> n, timestamp |-> clock[n]] \in Elem
    BY ElemType DEF TypeOK
  <2>2. queue' \in [Nodes -> Seq(Elem)]
    BY <1>5, <2>1, InsertType DEF StampRequest
  <2> QED
    BY <1>5, <2>2 DEF StampRequest, Go, TypeOK, listenVars
<1>6. ASSUME NEW d \in Nodes, BroadcastRequest(n, d) PROVE TypeOK'
  <2>1. lastReqTimestamp[n] \in Nat
    BY <1>6 DEF BroadcastRequest, Stamped, Active
  <2>2. lmsg' \in [Nodes -> Message \cup {Nothing}] /\ lreg' \in [Nodes -> Nat]
    BY <1>6, <2>1, SendType DEF BroadcastRequest
  <2> QED
    BY <1>6, <2>2 DEF BroadcastRequest, TypeOK, fieldVars, sharedVars
<1>7. CASE EnterCS(n)
  BY <1>7 DEF EnterCS, Go, TypeOK, fieldVars, listenVars
<1>8. CASE ReleaseLock(n)
  <2>1. queue' \in [Nodes -> Seq(Elem)]
    BY <1>8, TailType DEF ReleaseLock, TypeOK
  <2> QED
    BY <1>8, <2>1 DEF ReleaseLock, Go, TypeOK, listenVars, NoHolder
<1>9. CASE ExtractDeferred(n)
  <2>1. Tail(queue[n]) \in Seq(Elem) /\ Peek(queue[n]) \in Nodes
    BY <1>9, TailType DEF ExtractDeferred
  <2> QED
    BY <1>9, <2>1 DEF ExtractDeferred, Go, TypeOK, listenVars
<1>10. CASE StoreDeferredClock(n)
  BY <1>10, SMTT(30) DEF StoreDeferredClock, Go, TypeOK, fieldVars, listenVars, sharedVars
<1>11. ASSUME NEW d \in Nodes, SendDeferredAck(n, d) PROVE TypeOK'
  <2>1. creg[n] \in Nat
    BY DEF TypeOK
  <2>2. lmsg' \in [Nodes -> Message \cup {Nothing}] /\ lreg' \in [Nodes -> Nat]
    BY <1>11, <2>1, SendType DEF SendDeferredAck
  <2> QED
    BY <1>11, <2>2 DEF SendDeferredAck, Go, TypeOK, fieldVars, sharedVars
<1>12. CASE DrainDone(n)
  BY <1>12 DEF DrainDone, Go, TypeOK, fieldVars, listenVars, sharedVars
<1>13. CASE ClearOngoing(n)
  BY <1>13 DEF ClearOngoing, Go, TypeOK, listenVars, sharedVars
<1> QED
  BY <1>1, <1>2, <1>3, <1>4, <1>5, <1>6, <1>7, <1>8, <1>9, <1>10, <1>11, <1>12, <1>13 DEF ClientStep

LEMMA StampedStep ==
  ASSUME TypeOK, Stamped, [Next]_vars
  PROVE  Stamped'
<1> SUFFICES ASSUME NEW n \in Nodes, Active(n)' PROVE lastReqTimestamp[n]' \in Nat
  BY DEF Stamped
<1>1. CASE UNCHANGED vars
  BY <1>1 DEF vars, clientVars, fieldVars, Stamped, Active
<1>2. ASSUME NEW i \in Nodes, StampRequest(i)
      PROVE  lastReqTimestamp[n]' \in Nat
  BY <1>2 DEF StampRequest, Go, TypeOK, Stamped, Active
<1>3. ASSUME NEW i \in Nodes, lastReqTimestamp' = lastReqTimestamp,
             \/ cpc' = cpc
             \/ \E to \in {"idle", "load", "store", "stamp", "drain", "ackStore", "ackSend",
                           "clear"} : cpc' = [cpc EXCEPT ![i] = to]
             \/ Go(i, "request", "cs")
      PROVE  lastReqTimestamp[n]' \in Nat
  BY <1>3 DEF Go, TypeOK, Stamped, Active
<1>4. ASSUME NEW i \in Nodes, AcquireLock(i) \/ ClientStep(i) \/ HandleMsg(i)
      PROVE  lastReqTimestamp[n]' \in Nat
  <2>1. CASE StampRequest(i)
    BY <1>2, <2>1
  <2>2. CASE EnterCS(i)
    BY <1>3, <2>2 DEF EnterCS, fieldVars
  <2>3. CASE ~ StampRequest(i) /\ ~ EnterCS(i)
    <3>1. lastReqTimestamp' = lastReqTimestamp
      BY <1>4, <2>3 DEF AcquireLock, ClientStep, HandleMsg, LoadClock, StoreClock,
         BroadcastRequest, ReleaseLock, ExtractDeferred, StoreDeferredClock, SendDeferredAck,
         DrainDone, ClearOngoing, fieldVars
    <3>2. \/ cpc' = cpc
          \/ \E to \in {"idle", "load", "store", "stamp", "drain", "ackStore", "ackSend",
                        "clear"} : cpc' = [cpc EXCEPT ![i] = to]
      BY <1>4, <2>3 DEF AcquireLock, ClientStep, HandleMsg, LoadClock, StoreClock,
         BroadcastRequest, ReleaseLock, ExtractDeferred, StoreDeferredClock, SendDeferredAck,
         DrainDone, ClearOngoing, clientVars, Go
    <3> QED
      BY <1>3, <3>1, <3>2
  <2> QED
    BY <2>1, <2>2, <2>3
<1>5. ASSUME NEW i \in Nodes, NEW h \in handlers[i], HandlerStep(i, h)
      PROVE  lastReqTimestamp[n]' \in Nat
  <2>1. lastReqTimestamp' = lastReqTimestamp /\ cpc' = cpc
    BY <1>5 DEF HandlerStep, CheckOngoing, CompareRequests, DeferRequest, LoadAckClock,
       StoreAckClock, SendAck, CountAck, fieldVars, clientVars
  <2> QED
    BY <1>3, <2>1
<1> QED
  BY <1>1, <1>4, <1>5 DEF Next

LEMMA StepType ==
  ASSUME TypeOK, Stamped, [Next]_vars
  PROVE  TypeOK'
<1>1. CASE UNCHANGED vars
  BY <1>1 DEF vars, TypeOK, clientVars, fieldVars, listenVars, sharedVars
<1>2. CASE Next
  <2>1. PICK n \in Nodes : \/ AcquireLock(n)
                           \/ ClientStep(n)
                           \/ HandleMsg(n)
                           \/ \E h \in handlers[n] : HandlerStep(n, h)
    BY <1>2 DEF Next
  <2>2. CASE \E h \in handlers[n] : HandlerStep(n, h)
    BY <2>2, HandlerStepType
  <2>3. CASE AcquireLock(n) \/ ClientStep(n) \/ HandleMsg(n)
    BY <2>3, ClientStepType
  <2> QED
    BY <2>1, <2>2, <2>3
<1> QED
  BY <1>1, <1>2

LEMMA InitStamped == Init => Stamped
  BY DEF Init, Stamped, Active

\* Every variable keeps its type, for any number of nodes and of requests.
THEOREM TypeCorrect == Spec => []TypeOK
<1>1. Init => TypeOK /\ Stamped
  BY InitType, InitStamped
<1>2. TypeOK /\ Stamped /\ [Next]_vars => (TypeOK /\ Stamped)'
  BY StepType, StampedStep
<1> QED
  BY <1>1, <1>2, PTL DEF Spec

-----------------------------------------------------------------------------
(***************************************************************************)
(* How a step changes the stages.                                          *)
(***************************************************************************)

ClientSame == \A a, b \in Nodes :
    (Unsent(a, b)' <=> Unsent(a, b)) /\ (Drained(a, b)' <=> Drained(a, b))

ListenSame == \A a, b \in Nodes :
    (Listening(a, b)' <=> Listening(a, b)) /\ (AckListening(a, b)' <=> AckListening(a, b))

HandledSame == \A a, b \in Nodes :
    (Handled(a, b)' <=> Handled(a, b)) /\ (AckHandled(a, b)' <=> AckHandled(a, b))

QueuedSame == \A a, b \in Nodes : a # b => (Queued(a, b)' <=> Queued(a, b))

\* The stages of all pairs of nodes but (n, d) stay.
OthersStay(n, d) == \A a, b \in Nodes : a # b /\ ~(a = n /\ b = d) => Stages(a, b)' = Stages(a, b)

Steady == \A a, b \in Nodes : a # b => Stages(a, b)' = Stages(a, b)

MovesTo(n, d, t) == Stages(n, d) # {} /\ Stages(n, d)' = {t} /\ OthersStay(n, d)

LEMMA ListenFrame == ASSUME lmsg' = lmsg PROVE ListenSame
  BY DEF ListenSame, Listening, AckListening

LEMMA HandledFrame == ASSUME handlers' = handlers PROVE HandledSame
  BY DEF HandledSame, Handled, AckHandled

LEMMA QueuedFrame == ASSUME queue' = queue PROVE QueuedSame
  BY DEF QueuedSame, Queued

LEMMA ClientFrame == ASSUME cpc' = cpc, unsent' = unsent PROVE ClientSame
  BY DEF ClientSame, Unsent, Drained

\* Moves of the client between two places where it sends nothing.
LEMMA ClientMoves ==
  ASSUME TypeOK, Broadcasts, NEW n \in Nodes, NEW from, NEW to, Go(n, from, to), unsent' = unsent,
         \/ /\ from \notin {"request", "ackStore", "ackSend"}
            /\ to \notin {"request", "ackStore", "ackSend"}
         \/ from = "ackStore" /\ to = "ackSend"
         \/ from = "request" /\ to = "cs" /\ unsent[n] = {}
  PROVE  ClientSame
  BY DEF Go, TypeOK, ClientSame, Unsent, Drained

LEMMA BecomeFrame ==
  ASSUME TypeOK, NEW n \in Nodes, NEW h \in handlers[n], NEW k, Become(n, h, k),
         k.action = h.action, k.node = h.node
  PROVE  HandledSame
<1> SUFFICES ASSUME NEW a \in Nodes, NEW b \in Nodes
             PROVE  (Handled(a, b)' <=> Handled(a, b)) /\ (AckHandled(a, b)' <=> AckHandled(a, b))
  BY DEF HandledSame
<1>1. /\ \A d \in Nodes : d # n => handlers'[d] = handlers[d]
      /\ handlers'[n] = (handlers[n] \ {h}) \cup {k}
  BY DEF Become, TypeOK
<1>2. Handled(a, b)' <=> Handled(a, b)
  <2>1. CASE b # n
    BY <1>1, <2>1 DEF Handled
  <2>2. CASE b = n
    BY <1>1, <2>2 DEF Handled
  <2> QED
    BY <2>1, <2>2
<1>3. AckHandled(a, b)' <=> AckHandled(a, b)
  <2>1. CASE a # n
    BY <1>1, <2>1 DEF AckHandled
  <2>2. CASE a = n
    BY <1>1, <2>2 DEF AckHandled
  <2> QED
    BY <2>1, <2>2
<1> QED
  BY <1>2, <1>3

LEMMA StagesFrame ==
  ASSUME ClientSame, ListenSame, HandledSame, QueuedSame
  PROVE  Steady
<1> SUFFICES ASSUME NEW a \in Nodes, NEW b \in Nodes, a # b
             PROVE  Stages(a, b)' = Stages(a, b)
  BY DEF Steady
<1>1. \A s \in StageNames : At(s, a, b)' <=> At(s, a, b)
  BY DEF At, ClientSame, ListenSame, HandledSame, QueuedSame
<1> QED
  BY <1>1 DEF Stages

LEMMA StageMoves ==
  ASSUME Answers, NEW n \in Nodes, NEW d \in Nodes, n # d, NEW s \in StageNames,
         NEW t \in StageNames, s # t, At(s, n, d),
         \A r \in StageNames : At(r, n, d)' <=> (r = t \/ (r # s /\ At(r, n, d)))
  PROVE  Stages(n, d) # {} /\ Stages(n, d)' = {t}
<1>1. s \in Stages(n, d) /\ \A r \in Stages(n, d) : r = s
  BY DEF Stages, Answers
<1>2. \A r \in StageNames : At(r, n, d)' <=> r = t
  BY <1>1 DEF Stages
<1>3. Stages(n, d)' = {r \in StageNames : At(r, n, d)'}
  BY DEF Stages
<1> QED
  BY <1>1, <1>2, <1>3

LEMMA StageStays ==
  ASSUME NEW a \in Nodes, NEW b \in Nodes, \A r \in StageNames : At(r, a, b)' <=> At(r, a, b)
  PROVE  Stages(a, b)' = Stages(a, b)
  BY DEF Stages

\* The stage of a pair of nodes, by its name.
LEMMA StageOf ==
  ASSUME NEW n, NEW d
  PROVE  /\ "unsent" \in Stages(n, d) <=> Unsent(n, d)
         /\ "listen" \in Stages(n, d) <=> Listening(n, d)
         /\ "handler" \in Stages(n, d) <=> Handled(n, d)
         /\ "queue" \in Stages(n, d) <=> Queued(n, d)
         /\ "drain" \in Stages(n, d) <=> Drained(n, d)
         /\ "ackListen" \in Stages(n, d) <=> AckListening(n, d)
         /\ "ackHandler" \in Stages(n, d) <=> AckHandled(n, d)
  BY DEF Stages, StageNames, At

LEMMA SendListens ==
  ASSUME TypeOK, NEW n \in Nodes, NEW d \in Nodes, NEW action, NEW t, Send(n, d, action, t)
  PROVE  \A a, b \in Nodes :
           /\ Listening(a, b)' <=> Listening(a, b) \/ (a = n /\ b = d /\ action = "request")
           /\ AckListening(a, b)' <=> AckListening(a, b) \/ (a = d /\ b = n /\ action = "ack")
<1> DEFINE msg == [action |-> action, node |-> n, timestamp |-> t]
<1>1. lmsg[d] = Nothing /\ lmsg'[d] = msg /\ \A b \in Nodes : b # d => lmsg'[b] = lmsg[b]
  BY DEF Send, TypeOK
<1>2. msg.action = action /\ msg.node = n /\ Nothing.action = "nothing"
  BY DEF Nothing
<1> HIDE DEF msg
<1>3. ASSUME NEW a \in Nodes, NEW b \in Nodes
      PROVE  Listening(a, b)' <=> Listening(a, b) \/ (a = n /\ b = d /\ action = "request")
  <2>1. CASE b = d
    BY <1>1, <1>2, <2>1 DEF Listening
  <2>2. CASE b # d
    BY <1>1, <2>2 DEF Listening
  <2> QED
    BY <2>1, <2>2
<1>4. ASSUME NEW a \in Nodes, NEW b \in Nodes
      PROVE  AckListening(a, b)' <=> AckListening(a, b) \/ (a = d /\ b = n /\ action = "ack")
  <2>1. CASE a = d
    BY <1>1, <1>2, <2>1 DEF AckListening
  <2>2. CASE a # d
    BY <1>1, <2>2 DEF AckListening
  <2> QED
    BY <2>1, <2>2
<1> QED
  BY <1>3, <1>4

LEMMA BroadcastStages ==
  ASSUME TypeOK, Broadcasts, Answers, NEW n \in Nodes, NEW d \in Nodes, BroadcastRequest(n, d)
  PROVE  n # d /\ MovesTo(n, d, "listen")
<1>1. n # d /\ Unsent(n, d) /\ lmsg[d] = Nothing
  BY DEF BroadcastRequest, Broadcasts, Unsent, Send
<1>2. ASSUME NEW a \in Nodes, NEW b \in Nodes
      PROVE  /\ Unsent(a, b)' <=> Unsent(a, b) /\ ~(a = n /\ b = d)
             /\ Drained(a, b)' <=> Drained(a, b)
  BY DEF BroadcastRequest, TypeOK, Unsent, Drained
<1>3. ASSUME NEW a \in Nodes, NEW b \in Nodes
      PROVE  /\ Listening(a, b)' <=> Listening(a, b) \/ (a = n /\ b = d)
             /\ AckListening(a, b)' <=> AckListening(a, b)
  BY SendListens DEF BroadcastRequest
<1>4. HandledSame /\ QueuedSame
  BY HandledFrame, QueuedFrame DEF BroadcastRequest, fieldVars
<1>5. ASSUME NEW a \in Nodes, NEW b \in Nodes, a # b, ~(a = n /\ b = d)
      PROVE  Stages(a, b)' = Stages(a, b)
  <2>1. \A r \in StageNames : At(r, a, b)' <=> At(r, a, b)
    BY <1>2, <1>3, <1>4, <1>5 DEF At, HandledSame, QueuedSame
  <2> QED
    BY <2>1, StageStays
<1>6. \A r \in StageNames : At(r, n, d)' <=> (r = "listen" \/ (r # "unsent" /\ At(r, n, d)))
  BY <1>1, <1>2, <1>3, <1>4 DEF At, HandledSame, QueuedSame
<1>7. Stages(n, d) # {} /\ Stages(n, d)' = {"listen"}
  BY <1>1, <1>6, StageMoves DEF At, StageNames
<1> QED
  BY <1>1, <1>5, <1>7 DEF MovesTo, OthersStay

\* handleMsg takes a message: its sender and receiver are those of the request or the answer.
LEMMA HandleMsgStages ==
  ASSUME TypeOK, Goroutines, Answers, NEW n \in Nodes, HandleMsg(n)
  PROVE  \E m \in Nodes :
         /\ m = lmsg[n].node /\ m # n
         /\ \/ lmsg[n].action = "request" /\ Listening(m, n) /\ MovesTo(m, n, "handler")
            \/ lmsg[n].action = "ack" /\ AckListening(n, m) /\ MovesTo(n, m, "ackHandler")
<1>0. PICK m \in Nodes : m = lmsg[n].node
  BY DEF HandleMsg, TypeOK, Message
<1> DEFINE h == [action |-> lmsg[n].action, node |-> m, timestamp |-> lmsg[n].timestamp,
                 pc |-> "check", reg |-> 0]
<1>1. m \in Nodes /\ m # n /\ lmsg[n].action \in {"request", "ack"}
  BY <1>0 DEF HandleMsg, Goroutines, TypeOK, Message
<1>2. /\ \A d \in Nodes : d # n => handlers'[d] = handlers[d] /\ lmsg'[d] = lmsg[d]
      /\ handlers'[n] = handlers[n] \cup {h} /\ lmsg'[n] = Nothing
  BY <1>0 DEF HandleMsg, TypeOK
<1>3. h.action = lmsg[n].action /\ h.node = m
  OBVIOUS
<1> HIDE DEF h
<1>4. ClientSame /\ QueuedSame
  BY ClientFrame, QueuedFrame DEF HandleMsg, clientVars, fieldVars
<1>5. ASSUME NEW a \in Nodes, NEW b \in Nodes
      PROVE  /\ Listening(a, b)' <=> Listening(a, b) /\ b # n
             /\ AckListening(a, b)' <=> AckListening(a, b) /\ a # n
  BY <1>2 DEF Listening, AckListening, Nothing
<1>6. ASSUME NEW a \in Nodes, NEW b \in Nodes
      PROVE  Handled(a, b)' <=> Handled(a, b) \/ (b = n /\ a = m /\ lmsg[n].action = "request")
  <2>1. CASE b # n
    BY <1>2, <2>1 DEF Handled
  <2>2. CASE b = n
    BY <1>2, <1>3, <2>2 DEF Handled
  <2> QED
    BY <2>1, <2>2
<1>7. ASSUME NEW a \in Nodes, NEW b \in Nodes
      PROVE  AckHandled(a, b)' <=> AckHandled(a, b) \/ (a = n /\ b = m /\ lmsg[n].action = "ack")
  <2>1. CASE a # n
    BY <1>2, <2>1 DEF AckHandled
  <2>2. CASE a = n
    BY <1>2, <1>3, <2>2 DEF AckHandled
  <2> QED
    BY <2>1, <2>2
<1>8. CASE lmsg[n].action = "request"
  <2>1. Listening(m, n) /\ \A a \in Nodes : (Listening(a, n) => a = m) /\ ~ AckListening(n, a)
    BY <1>0, <1>8 DEF Listening, AckListening
  <2>2. ASSUME NEW a \in Nodes, NEW b \in Nodes, a # b, ~(a = m /\ b = n)
        PROVE  Stages(a, b)' = Stages(a, b)
    <3>1. \A r \in StageNames : At(r, a, b)' <=> At(r, a, b)
      BY <1>4, <1>5, <1>6, <1>7, <1>8, <2>1, <2>2 DEF At, ClientSame, QueuedSame
    <3> QED
      BY <3>1, StageStays
  <2>3. \A r \in StageNames : At(r, m, n)' <=> (r = "handler" \/ (r # "listen" /\ At(r, m, n)))
    <3>1. /\ ~ Listening(m, n)' /\ Handled(m, n)'
          /\ AckListening(m, n)' <=> AckListening(m, n)
          /\ AckHandled(m, n)' <=> AckHandled(m, n)
      BY <1>1, <1>5, <1>6, <1>7, <1>8
    <3>2. /\ Unsent(m, n)' <=> Unsent(m, n)
          /\ Drained(m, n)' <=> Drained(m, n)
          /\ Queued(m, n)' <=> Queued(m, n)
      BY <1>1, <1>4 DEF ClientSame, QueuedSame
    <3> QED
      BY <3>1, <3>2 DEF At
  <2>4. Stages(m, n) # {} /\ Stages(m, n)' = {"handler"}
    <3>1. At("listen", m, n) /\ "listen" \in StageNames /\ "handler" \in StageNames
      BY <2>1 DEF At, StageNames
    <3> QED
      BY <1>1, <2>3, <3>1, StageMoves
  <2> QED
    BY <1>0, <1>1, <1>8, <2>1, <2>2, <2>4 DEF MovesTo, OthersStay
<1>9. CASE lmsg[n].action = "ack"
  <2>1. AckListening(n, m) /\ \A a \in Nodes : (AckListening(n, a) => a = m) /\ ~ Listening(a, n)
    BY <1>0, <1>9 DEF Listening, AckListening
  <2>2. ASSUME NEW a \in Nodes, NEW b \in Nodes, a # b, ~(a = n /\ b = m)
        PROVE  Stages(a, b)' = Stages(a, b)
    <3>1. \A r \in StageNames : At(r, a, b)' <=> At(r, a, b)
      BY <1>4, <1>5, <1>6, <1>7, <1>9, <2>1, <2>2 DEF At, ClientSame, QueuedSame
    <3> QED
      BY <3>1, StageStays
  <2>3. \A r \in StageNames : At(r, n, m)' <=> (r = "ackHandler" \/ (r # "ackListen" /\ At(r, n, m)))
    <3>1. /\ ~ AckListening(n, m)' /\ AckHandled(n, m)'
          /\ Listening(n, m)' <=> Listening(n, m)
          /\ Handled(n, m)' <=> Handled(n, m)
      BY <1>1, <1>5, <1>6, <1>7, <1>9
    <3>2. /\ Unsent(n, m)' <=> Unsent(n, m)
          /\ Drained(n, m)' <=> Drained(n, m)
          /\ Queued(n, m)' <=> Queued(n, m)
      BY <1>1, <1>4 DEF ClientSame, QueuedSame
    <3> QED
      BY <3>1, <3>2 DEF At
  <2>4. Stages(n, m) # {} /\ Stages(n, m)' = {"ackHandler"}
    <3>1. At("ackListen", n, m) /\ "ackListen" \in StageNames /\ "ackHandler" \in StageNames
      BY <2>1 DEF At, StageNames
    <3> QED
      BY <1>1, <2>3, <3>1, StageMoves
  <2> QED
    BY <1>0, <1>1, <1>9, <2>1, <2>2, <2>4 DEF MovesTo, OthersStay
<1> QED
  BY <1>0, <1>1, <1>8, <1>9

\* A handler that ends was the only one for its message.
LEMMA FinishHandled ==
  ASSUME TypeOK, Goroutines, NEW n \in Nodes, NEW h \in handlers[n], Finish(n, h)
  PROVE  \A a, b \in Nodes :
           /\ Handled(a, b)' <=> Handled(a, b) /\ ~(b = n /\ h.action = "request" /\ a = h.node)
           /\ AckHandled(a, b)' <=> AckHandled(a, b) /\ ~(a = n /\ h.action = "ack" /\ b = h.node)
<1>1. /\ \A d \in Nodes : d # n => handlers'[d] = handlers[d]
      /\ handlers'[n] = handlers[n] \ {h}
  BY DEF Finish, TypeOK
<1>2. \A k \in handlers[n] : k.action = h.action /\ k.node = h.node => k = h
  BY DEF Goroutines
<1>3. ASSUME NEW a \in Nodes, NEW b \in Nodes
      PROVE  Handled(a, b)' <=> Handled(a, b) /\ ~(b = n /\ h.action = "request" /\ a = h.node)
  <2>1. CASE b # n
    BY <1>1, <2>1 DEF Handled
  <2>2. CASE b = n
    BY <1>1, <1>2, <2>2 DEF Handled
  <2> QED
    BY <2>1, <2>2
<1>4. ASSUME NEW a \in Nodes, NEW b \in Nodes
      PROVE  AckHandled(a, b)' <=> AckHandled(a, b) /\ ~(a = n /\ h.action = "ack" /\ b = h.node)
  <2>1. CASE a # n
    BY <1>1, <2>1 DEF AckHandled
  <2>2. CASE a = n
    BY <1>1, <1>2, <2>2 DEF AckHandled
  <2> QED
    BY <2>1, <2>2
<1> QED
  BY <1>3, <1>4

\* A queue has one element of each node.
LEMMA OneElement ==
  ASSUME TypeOK, Timestamps, Queues, NEW n \in Nodes, NEW i \in 1..Len(queue[n]),
         NEW j \in 1..Len(queue[n]), queue[n][i].nodeId = queue[n][j].nodeId
  PROVE  i = j
<1>1. Len(queue[n]) \in Nat /\ queue[n][i] \in Elem /\ queue[n][j] \in Elem
  BY LenProperties, ElementOfSeq DEF TypeOK
<1>2. queue[n][i] = queue[n][j]
  BY DEF Timestamps, Own
<1>3. ~ Before(queue[n][i], queue[n][j]) /\ ~ Before(queue[n][j], queue[n][i])
  BY <1>1, <1>2, NodesAssumption DEF Before, Elem
<1>4. ~(i < j) /\ ~(j < i)
  BY <1>3 DEF Queues, SortedQueue
<1> QED
  BY <1>1, <1>4

LEMMA QueuedInsert ==
  ASSUME TypeOK, NEW n \in Nodes, NEW e \in Elem, queue' = [queue EXCEPT ![n] = Insert(@, e)]
  PROVE  \A a, b \in Nodes : Queued(a, b)' <=> Queued(a, b) \/ (a = e.nodeId /\ b = n)
<1> SUFFICES ASSUME NEW a \in Nodes, NEW b \in Nodes
             PROVE  Queued(a, b)' <=> Queued(a, b) \/ (a = e.nodeId /\ b = n)
  OBVIOUS
<1>1. queue'[n] = Insert(queue[n], e) /\ \A d \in Nodes : d # n => queue'[d] = queue[d]
  BY DEF TypeOK
<1>2. CASE b # n
  BY <1>1, <1>2 DEF Queued
<1>3. CASE b = n
  <2> DEFINE q == queue[n]
             r == Insert(queue[n], e)
  <2>1. /\ \A i \in 1..Len(r) : r[i] = e \/ \E j \in 1..Len(q) : r[i] = q[j]
        /\ \E i \in 1..Len(r) : r[i] = e
        /\ \A j \in 1..Len(q) : \E i \in 1..Len(r) : r[i] = q[j]
    <3>1. queue[n] \in Seq(Elem)
      BY DEF TypeOK
    <3>2. PICK s \in Seq(Elem) : s = queue[n]
      BY <3>1
    <3>3. \A i \in 1..Len(Insert(s, e)) :
            Insert(s, e)[i] = e \/ \E j \in 1..Len(s) : Insert(s, e)[i] = s[j]
      BY Inserted
    <3>4. \E i \in 1..Len(Insert(s, e)) : Insert(s, e)[i] = e
      BY Inserted
    <3>5. \A j \in 1..Len(s) : \E i \in 1..Len(Insert(s, e)) : Insert(s, e)[i] = s[j]
      BY InsertKeeps
    <3> QED
      BY <3>2, <3>3, <3>4, <3>5
  <2>2. Queued(a, b)' <=> \E i \in 1..Len(r) : r[i].nodeId = a
    BY <1>1, <1>3 DEF Queued
  <2>3. Queued(a, b) <=> \E i \in 1..Len(q) : q[i].nodeId = a
    BY <1>3 DEF Queued
  <2> HIDE DEF q, r
  <2> QED
    BY <1>3, <2>1, <2>2, <2>3
<1> QED
  BY <1>2, <1>3

\* The elements of the rest of a queue.
LEMMA TailElements ==
  ASSUME NEW S, NEW q \in Seq(S), q # << >>
  PROVE  /\ Tail(q) \in Seq(S) /\ Len(q) \in Nat /\ Len(q) >= 1 /\ Len(Tail(q)) = Len(q) - 1
         /\ \A i \in 1..Len(q) - 1 : Tail(q)[i] = q[i + 1]
         /\ q[1] = Head(q)
  BY HeadTailProperties, LenProperties, EmptySeq

LEMMA QueuedTail ==
  ASSUME TypeOK, Timestamps, Queues, NEW n \in Nodes, queue[n] # << >>,
         NEW m \in Nodes, m = Peek(queue[n]), queue' = [queue EXCEPT ![n] = Tail(@)]
  PROVE  \A a, b \in Nodes : Queued(a, b)' <=> Queued(a, b) /\ ~(a = m /\ b = n)
<1> SUFFICES ASSUME NEW a \in Nodes, NEW b \in Nodes
             PROVE  Queued(a, b)' <=> Queued(a, b) /\ ~(a = m /\ b = n)
  OBVIOUS
<1>1. queue'[n] = Tail(queue[n]) /\ \A d \in Nodes : d # n => queue'[d] = queue[d]
  BY DEF TypeOK
<1>2. CASE b # n
  BY <1>1, <1>2 DEF Queued
<1>3. CASE b = n
  <2> DEFINE q == queue[n]
             r == Tail(queue[n])
  <2>1. /\ Len(q) \in Nat /\ Len(q) >= 1 /\ Len(r) = Len(q) - 1
        /\ \A i \in 1..Len(q) - 1 : r[i] = q[i + 1]
        /\ q[1].nodeId = m
    BY TailElements DEF TypeOK, Peek
  <2>2. Queued(a, b)' <=> \E i \in 1..Len(r) : r[i].nodeId = a
    BY <1>1, <1>3 DEF Queued
  <2>3. Queued(a, b) <=> \E i \in 1..Len(q) : q[i].nodeId = a
    BY <1>3 DEF Queued
  <2>4. \A i \in 1..Len(q) : q[i].nodeId = m => i = 1
    <3>1. 1 \in 1..Len(q)
      BY <2>1
    <3> QED
      BY <2>1, <3>1, OneElement
  <2> HIDE DEF q, r
  <2>5. ASSUME NEW i \in 1..Len(r) PROVE i + 1 \in 1..Len(q) /\ r[i] = q[i + 1] /\ q[i + 1].nodeId # m
    <3>1. i + 1 \in 1..Len(q) /\ i \in 1..Len(q) - 1 /\ i + 1 # 1
      BY <2>1
    <3> QED
      BY <2>1, <2>4, <3>1
  <2>6. ASSUME NEW i \in 1..Len(q), q[i].nodeId # m PROVE i - 1 \in 1..Len(r) /\ r[i - 1] = q[i]
    <3>1. i # 1
      BY <2>1, <2>6
    <3>2. i - 1 \in 1..Len(r) /\ i - 1 \in 1..Len(q) - 1 /\ (i - 1) + 1 = i
      BY <2>1, <3>1
    <3> QED
      BY <2>1, <3>2
  <2> QED
    BY <1>3, <2>2, <2>3, <2>5, <2>6
<1> QED
  BY <1>2, <1>3

\* The request that a handler is about to insert is no duplicate.
LEMMA DeferStages ==
  ASSUME TypeOK, Goroutines, Answers, NEW n \in Nodes, NEW h \in handlers[n], DeferRequest(n, h)
  PROVE  /\ h.action = "request" /\ h.node # n
         /\ ~ Queued(h.node, n)
         /\ panic' = panic
         /\ queue' = [queue EXCEPT ![n] = Insert(@, [nodeId |-> h.node, timestamp |-> h.timestamp])]
         /\ MovesTo(h.node, n, "queue")
<1> DEFINE m == h.node
           e == [nodeId |-> h.node, timestamp |-> h.timestamp]
<1>1. m \in Nodes /\ m # n /\ h.action = "request" /\ e \in Elem /\ e.nodeId = m
  <2>1. h.node \in Nodes /\ h.timestamp \in Nat /\ h.action \in {"request", "ack"}
    BY HandlerType
  <2>2. h.pc \in PlacesOf(h.action) /\ h.pc = "insert" /\ h.node # n
    BY DEF Goroutines, DeferRequest
  <2> QED
    BY <2>1, <2>2, ElemType DEF PlacesOf
<1> HIDE DEF e
<1>2. Handled(m, n)
  BY <1>1 DEF Handled
<1>3. ~ Queued(m, n)
  BY <1>1, <1>2, StageOf DEF Answers
<1>4. ~ InsertPanics(queue[n], e)
  <2>1. queue[n] \in Seq(Elem)
    BY DEF TypeOK
  <2>2. InsertPanics(queue[n], e) => \E i \in 1..Len(queue[n]) : queue[n][i].nodeId = e.nodeId
    BY <1>1, <2>1, PanicIsDuplicate
  <2> QED
    BY <1>1, <1>3, <2>2 DEF Queued
<1>5. queue' = [queue EXCEPT ![n] = Insert(@, e)] /\ panic' = panic /\ Finish(n, h)
  BY <1>4 DEF DeferRequest, e
<1>6. ClientSame /\ ListenSame
  BY ClientFrame, ListenFrame DEF DeferRequest, clientVars, listenVars
<1>7. \A a, b \in Nodes :
        /\ Handled(a, b)' <=> Handled(a, b) /\ ~(b = n /\ a = m)
        /\ AckHandled(a, b)' <=> AckHandled(a, b)
  BY <1>1, <1>5, FinishHandled
<1>8. \A a, b \in Nodes : Queued(a, b)' <=> Queued(a, b) \/ (a = m /\ b = n)
  BY <1>1, <1>5, QueuedInsert
<1>9. ASSUME NEW a \in Nodes, NEW b \in Nodes, a # b, ~(a = m /\ b = n)
      PROVE  Stages(a, b)' = Stages(a, b)
  <2>1. \A r \in StageNames : At(r, a, b)' <=> At(r, a, b)
    BY <1>6, <1>7, <1>8, <1>9 DEF At, ClientSame, ListenSame
  <2> QED
    BY <2>1, StageStays
<1>10. \A r \in StageNames : At(r, m, n)' <=> (r = "queue" \/ (r # "handler" /\ At(r, m, n)))
  <2>1. ~ Handled(m, n)' /\ Queued(m, n)' /\ (AckHandled(m, n)' <=> AckHandled(m, n))
    BY <1>1, <1>7, <1>8
  <2>2. /\ Unsent(m, n)' <=> Unsent(m, n)
        /\ Drained(m, n)' <=> Drained(m, n)
        /\ Listening(m, n)' <=> Listening(m, n)
        /\ AckListening(m, n)' <=> AckListening(m, n)
    BY <1>1, <1>6 DEF ClientSame, ListenSame
  <2> QED
    BY <2>1, <2>2 DEF At
<1>11. Stages(m, n) # {} /\ Stages(m, n)' = {"queue"}
  <2>1. At("handler", m, n) /\ "handler" \in StageNames /\ "queue" \in StageNames
    BY <1>2 DEF At, StageNames
  <2> QED
    BY <1>1, <1>10, <2>1, StageMoves
<1> QED
  BY <1>1, <1>3, <1>5, <1>9, <1>11 DEF MovesTo, OthersStay, e

LEMMA SendAckStages ==
  ASSUME TypeOK, Goroutines, Answers, NEW n \in Nodes, NEW h \in handlers[n], SendAck(n, h)
  PROVE  /\ h.action = "request" /\ h.node \in Nodes /\ h.node # n
         /\ MovesTo(h.node, n, "ackListen")
<1> DEFINE m == h.node
<1>1. m \in Nodes /\ m # n /\ h.action = "request"
  <2>1. h.node \in Nodes /\ h.action \in {"request", "ack"}
    BY HandlerType
  <2>2. h.pc \in PlacesOf(h.action) /\ h.pc = "send" /\ h.node # n
    BY DEF Goroutines, SendAck
  <2> QED
    BY <2>1, <2>2 DEF PlacesOf
<1>2. Handled(m, n)
  BY <1>1 DEF Handled
<1>3. ClientSame /\ QueuedSame
  BY ClientFrame, QueuedFrame DEF SendAck, clientVars, fieldVars
<1>4. \A a, b \in Nodes :
        /\ Handled(a, b)' <=> Handled(a, b) /\ ~(b = n /\ a = m)
        /\ AckHandled(a, b)' <=> AckHandled(a, b)
  BY <1>1, FinishHandled DEF SendAck
<1>5. \A a, b \in Nodes :
        /\ Listening(a, b)' <=> Listening(a, b)
        /\ AckListening(a, b)' <=> AckListening(a, b) \/ (a = m /\ b = n)
  <2>1. Send(n, m, "ack", h.reg)
    BY DEF SendAck
  <2> QED
    BY <1>1, <2>1, SendListens
<1>6. ASSUME NEW a \in Nodes, NEW b \in Nodes, a # b, ~(a = m /\ b = n)
      PROVE  Stages(a, b)' = Stages(a, b)
  <2>1. \A r \in StageNames : At(r, a, b)' <=> At(r, a, b)
    BY <1>3, <1>4, <1>5, <1>6 DEF At, ClientSame, QueuedSame
  <2> QED
    BY <2>1, StageStays
<1>7. \A r \in StageNames : At(r, m, n)' <=> (r = "ackListen" \/ (r # "handler" /\ At(r, m, n)))
  <2>1. /\ ~ Handled(m, n)' /\ AckListening(m, n)'
        /\ AckHandled(m, n)' <=> AckHandled(m, n)
        /\ Listening(m, n)' <=> Listening(m, n)
    BY <1>1, <1>4, <1>5
  <2>2. /\ Unsent(m, n)' <=> Unsent(m, n)
        /\ Drained(m, n)' <=> Drained(m, n)
        /\ Queued(m, n)' <=> Queued(m, n)
    BY <1>1, <1>3 DEF ClientSame, QueuedSame
  <2> QED
    BY <2>1, <2>2 DEF At
<1>8. Stages(m, n) # {} /\ Stages(m, n)' = {"ackListen"}
  <2>1. At("handler", m, n) /\ "handler" \in StageNames /\ "ackListen" \in StageNames
    BY <1>2 DEF At, StageNames
  <2> QED
    BY <1>1, <1>7, <2>1, StageMoves
<1> QED
  BY <1>1, <1>6, <1>8 DEF MovesTo, OthersStay

\* An answer that is counted is gone.
LEMMA CountAckStages ==
  ASSUME TypeOK, Goroutines, Answers, NEW n \in Nodes, NEW h \in handlers[n], CountAck(n, h)
  PROVE  /\ h.node \in Nodes /\ h.node # n
         /\ Stages(n, h.node) # {} /\ Stages(n, h.node)' = {}
         /\ OthersStay(n, h.node)
<1> DEFINE m == h.node
<1>1. m \in Nodes /\ m # n /\ h.action = "ack"
  <2>1. h.node \in Nodes /\ h.action \in {"request", "ack"}
    BY HandlerType
  <2>2. h.pc \in PlacesOf(h.action) /\ h.pc = "count" /\ h.node # n
    BY DEF Goroutines, CountAck
  <2> QED
    BY <2>1, <2>2 DEF PlacesOf
<1>2. AckHandled(n, m)
  BY <1>1 DEF AckHandled
<1>3. ClientSame /\ QueuedSame /\ ListenSame
  BY ClientFrame, QueuedFrame, ListenFrame DEF CountAck, clientVars, listenVars
<1>4. \A a, b \in Nodes :
        /\ Handled(a, b)' <=> Handled(a, b)
        /\ AckHandled(a, b)' <=> AckHandled(a, b) /\ ~(a = n /\ b = m)
  BY <1>1, FinishHandled DEF CountAck
<1>5. ASSUME NEW a \in Nodes, NEW b \in Nodes, a # b, ~(a = n /\ b = m)
      PROVE  Stages(a, b)' = Stages(a, b)
  <2>1. \A r \in StageNames : At(r, a, b)' <=> At(r, a, b)
    BY <1>3, <1>4, <1>5 DEF At, ClientSame, ListenSame, QueuedSame
  <2> QED
    BY <2>1, StageStays
<1>6. "ackHandler" \in Stages(n, m) /\ \A s \in Stages(n, m) : s = "ackHandler"
  BY <1>1, <1>2, StageOf DEF Answers
<1>7. \A r \in StageNames : ~ At(r, n, m)'
  <2>1. \A r \in StageNames : At(r, n, m) => r = "ackHandler"
    BY <1>6 DEF Stages
  <2>2. ~ AckHandled(n, m)' /\ (Handled(n, m)' <=> Handled(n, m))
    BY <1>1, <1>4
  <2>3. /\ Unsent(n, m)' <=> Unsent(n, m)
        /\ Drained(n, m)' <=> Drained(n, m)
        /\ Queued(n, m)' <=> Queued(n, m)
        /\ Listening(n, m)' <=> Listening(n, m)
        /\ AckListening(n, m)' <=> AckListening(n, m)
    BY <1>1, <1>3 DEF ClientSame, ListenSame, QueuedSame
  <2> QED
    BY <2>1, <2>2, <2>3 DEF At
<1>8. Stages(n, m)' = {}
  BY <1>7 DEF Stages
<1> QED
  BY <1>1, <1>5, <1>6, <1>8 DEF OthersStay

\* A REQ_ACK finds the request it is for.
LEMMA AckIsExpected ==
  ASSUME TypeOK, Goroutines, Answers, NEW n \in Nodes, NEW h \in handlers[n], h.action = "ack"
  PROVE  h.node \in Nodes /\ h.node # n /\ cpc[n] = "request" /\ hasOngoingReq[n]
<1>1. h.node \in Nodes /\ h.node # n
  BY HandlerType DEF Goroutines
<1>2. AckHandled(n, h.node)
  BY DEF AckHandled
<1>3. cpc[n] = "request"
  BY <1>1, <1>2, StageOf DEF Answers
<1> QED
  BY <1>1, <1>3 DEF Goroutines

\* So does a request: its node is waiting.
LEMMA RequestIsOngoing ==
  ASSUME TypeOK, Goroutines, Answers, NEW n \in Nodes, NEW h \in handlers[n], h.action = "request"
  PROVE  /\ h.node \in Nodes /\ h.node # n /\ cpc[h.node] = "request" /\ hasOngoingReq[h.node]
         /\ Stages(h.node, n) = {"handler"}
<1>1. h.node \in Nodes /\ h.node # n
  BY HandlerType DEF Goroutines
<1>2. Handled(h.node, n)
  BY DEF Handled
<1>3. "handler" \in Stages(h.node, n)
  BY <1>2, StageOf
<1>4. cpc[h.node] = "request" /\ \A s \in Stages(h.node, n) : s = "handler"
  BY <1>1, <1>3 DEF Answers
<1> QED
  BY <1>1, <1>3, <1>4 DEF Goroutines

\* A handler that goes on: it handles the same message.
HandlerMoves(n, h, k) == /\ Become(n, h, k)
                         /\ k.action = h.action /\ k.node = h.node
                         /\ k.timestamp = h.timestamp

LEMMA HandlerMovesStages ==
  ASSUME TypeOK, NEW n \in Nodes, NEW h \in handlers[n], NEW k, HandlerMoves(n, h, k),
         UNCHANGED <<fieldVars, clientVars, listenVars>>
  PROVE  Steady
<1>1. ClientSame /\ ListenSame /\ QueuedSame
  BY ClientFrame, ListenFrame, QueuedFrame DEF fieldVars, clientVars, listenVars
<1>2. HandledSame
  BY BecomeFrame DEF HandlerMoves
<1> QED
  BY <1>1, <1>2, StagesFrame

\* CheckOngoing drops no answer.
LEMMA CheckMoves ==
  ASSUME TypeOK, Goroutines, Answers, NEW n \in Nodes, NEW h \in handlers[n], CheckOngoing(n, h)
  PROVE  \E pc \in {"compare", "load", "count"} :
           /\ HandlerMoves(n, h, [h EXCEPT !.pc = pc])
           /\ h.action = "request" => pc = IF hasOngoingReq[n] THEN "compare" ELSE "load"
           /\ h.action = "ack" => pc = "count"
<1>1. h \in Handler /\ h.action \in {"request", "ack"}
  BY HandlerType
<1>2. \A pc : /\ [h EXCEPT !.pc = pc].action = h.action
              /\ [h EXCEPT !.pc = pc].node = h.node
              /\ [h EXCEPT !.pc = pc].timestamp = h.timestamp
  BY <1>1 DEF Handler
<1>3. CASE h.action = "request"
  BY <1>2, <1>3 DEF CheckOngoing, HandlerMoves
<1>4. CASE h.action = "ack"
  <2>1. hasOngoingReq[n]
    BY <1>4, AckIsExpected
  <2>2. Become(n, h, [h EXCEPT !.pc = "count"])
    BY <1>4, <2>1 DEF CheckOngoing
  <2> QED
    BY <1>2, <1>4, <2>2 DEF HandlerMoves
<1> QED
  BY <1>1, <1>3, <1>4

\* The head of the queue of a node that drains it is the request of another.
LEMMA ExtractStages ==
  ASSUME TypeOK, Broadcasts, Answers, Timestamps, Queues, NEW n \in Nodes, ExtractDeferred(n)
  PROVE  \E m \in Nodes : /\ m = Peek(queue[n]) /\ m # n /\ Queued(m, n)
                          /\ unsent' = [unsent EXCEPT ![n] = {m}]
                          /\ panic' = panic
                          /\ MovesTo(m, n, "drain")
<1>1. PICK m \in Nodes : m = Peek(queue[n])
  BY TailType DEF ExtractDeferred
<1>2. queue[n][1].nodeId = m /\ 1 \in 1..Len(queue[n])
  BY <1>1, TailElements DEF ExtractDeferred, TypeOK, Peek
<1>3. m # n /\ Queued(m, n)
  BY <1>2 DEF Timestamps, Queued, Active, ExtractDeferred, Go
<1>4. HandledSame /\ ListenSame
  BY HandledFrame, ListenFrame DEF ExtractDeferred, listenVars
<1>5. \A a, b \in Nodes : Queued(a, b)' <=> Queued(a, b) /\ ~(a = m /\ b = n)
  BY <1>1, QueuedTail DEF ExtractDeferred
<1>6. unsent' = [unsent EXCEPT ![n] = {m}] /\ cpc' = [cpc EXCEPT ![n] = "ackStore"] /\ cpc[n] = "drain"
  BY <1>1 DEF ExtractDeferred, Go
<1>7. \A a, b \in Nodes :
        /\ Unsent(a, b)' <=> Unsent(a, b)
        /\ Drained(a, b)' <=> Drained(a, b) \/ (a = m /\ b = n)
  BY <1>6 DEF TypeOK, Unsent, Drained
<1>8. ASSUME NEW a \in Nodes, NEW b \in Nodes, a # b, ~(a = m /\ b = n)
      PROVE  Stages(a, b)' = Stages(a, b)
  <2>1. \A r \in StageNames : At(r, a, b)' <=> At(r, a, b)
    BY <1>4, <1>5, <1>7, <1>8 DEF At, HandledSame, ListenSame
  <2> QED
    BY <2>1, StageStays
<1>9. \A r \in StageNames : At(r, m, n)' <=> (r = "drain" \/ (r # "queue" /\ At(r, m, n)))
  BY <1>4, <1>5, <1>7 DEF At, HandledSame, ListenSame
<1>10. Stages(m, n) # {} /\ Stages(m, n)' = {"drain"}
  <2>1. At("queue", m, n) /\ "queue" \in StageNames /\ "drain" \in StageNames
    BY <1>3 DEF At, StageNames
  <2> QED
    BY <1>3, <1>9, <2>1, StageMoves
<1>11. panic' = panic
  BY <1>1, <1>3 DEF ExtractDeferred
<1> QED
  BY <1>1, <1>3, <1>6, <1>8, <1>10, <1>11 DEF MovesTo, OthersStay

LEMMA SendDeferredStages ==
  ASSUME TypeOK, Broadcasts, Answers, NEW n \in Nodes, NEW d \in Nodes, SendDeferredAck(n, d)
  PROVE  d # n /\ unsent[n] = {d} /\ MovesTo(d, n, "ackListen")
<1>1. d # n /\ unsent[n] = {d} /\ cpc[n] = "ackSend"
  BY DEF SendDeferredAck, Go, Broadcasts
<1>2. Drained(d, n)
  BY <1>1 DEF Drained
<1>3. HandledSame /\ QueuedSame
  BY HandledFrame, QueuedFrame DEF SendDeferredAck, fieldVars
<1>4. \A a, b \in Nodes :
        /\ Listening(a, b)' <=> Listening(a, b)
        /\ AckListening(a, b)' <=> AckListening(a, b) \/ (a = d /\ b = n)
  <2>1. Send(n, d, "ack", creg[n])
    BY DEF SendDeferredAck
  <2> QED
    BY <1>1, <2>1, SendListens
<1>5. unsent' = [unsent EXCEPT ![n] = {}] /\ cpc' = [cpc EXCEPT ![n] = "drain"]
  BY DEF SendDeferredAck, Go
<1>6. \A a, b \in Nodes :
        /\ Unsent(a, b)' <=> Unsent(a, b)
        /\ Drained(a, b)' <=> Drained(a, b) /\ ~(a = d /\ b = n)
  BY <1>1, <1>5 DEF TypeOK, Unsent, Drained
<1>7. ASSUME NEW a \in Nodes, NEW b \in Nodes, a # b, ~(a = d /\ b = n)
      PROVE  Stages(a, b)' = Stages(a, b)
  <2>1. \A r \in StageNames : At(r, a, b)' <=> At(r, a, b)
    BY <1>3, <1>4, <1>6, <1>7 DEF At, HandledSame, QueuedSame
  <2> QED
    BY <2>1, StageStays
<1>8. \A r \in StageNames : At(r, d, n)' <=> (r = "ackListen" \/ (r # "drain" /\ At(r, d, n)))
  BY <1>1, <1>3, <1>4, <1>6 DEF At, HandledSame, QueuedSame
<1>9. Stages(d, n) # {} /\ Stages(d, n)' = {"ackListen"}
  <2>1. At("drain", d, n) /\ "drain" \in StageNames /\ "ackListen" \in StageNames
    BY <1>2 DEF At, StageNames
  <2> QED
    BY <1>1, <1>8, <2>1, StageMoves
<1> QED
  BY <1>1, <1>7, <1>9 DEF MovesTo, OthersStay

\* A request that is stamped is no duplicate, and is still to be sent to all others.
LEMMA StampStages ==
  ASSUME TypeOK, Broadcasts, Answers, Timestamps, NEW n \in Nodes, StampRequest(n)
  PROVE  /\ ~ Queued(n, n)
         /\ panic' = panic
         /\ queue' = [queue EXCEPT ![n] = Insert(@, [nodeId |-> n, timestamp |-> clock[n]])]
         /\ \A a, b \in Nodes : a # b =>
              Stages(a, b)' = IF a = n THEN {"unsent"} ELSE Stages(a, b)
         /\ \A b \in Nodes : b # n => Stages(n, b) = {}
<1> DEFINE e == [nodeId |-> n, timestamp |-> clock[n]]
<1>1. e \in Elem /\ e.nodeId = n
  BY ElemType DEF TypeOK
<1> HIDE DEF e
<1>2. ~ Queued(n, n)
  BY DEF Timestamps, Queued, Active, StampRequest, Go
<1>3. ~ InsertPanics(queue[n], e)
  <2>1. queue[n] \in Seq(Elem)
    BY DEF TypeOK
  <2>2. InsertPanics(queue[n], e) => \E i \in 1..Len(queue[n]) : queue[n][i].nodeId = e.nodeId
    BY <1>1, <2>1, PanicIsDuplicate
  <2> QED
    BY <1>1, <1>2, <2>2 DEF Queued
<1>4. queue' = [queue EXCEPT ![n] = Insert(@, e)] /\ panic' = panic
  BY <1>3 DEF StampRequest, e
<1>5. HandledSame /\ ListenSame
  BY HandledFrame, ListenFrame DEF StampRequest, listenVars
<1>6. \A a, b \in Nodes : a # b => (Queued(a, b)' <=> Queued(a, b))
  BY <1>1, <1>4, QueuedInsert
<1>7. cpc[n] = "stamp" /\ cpc' = [cpc EXCEPT ![n] = "request"]
      /\ unsent' = [unsent EXCEPT ![n] = Nodes \ {n}]
  BY DEF StampRequest, Go
<1>8. \A a, b \in Nodes :
        /\ a # b => (Unsent(a, b)' <=> Unsent(a, b) \/ a = n)
        /\ Drained(a, b)' <=> Drained(a, b)
  BY <1>7 DEF TypeOK, Unsent, Drained
<1>9. \A b \in Nodes : b # n => Stages(n, b) = {}
  BY <1>7 DEF Answers
<1>10. ASSUME NEW a \in Nodes, NEW b \in Nodes, a # b
       PROVE  Stages(a, b)' = IF a = n THEN {"unsent"} ELSE Stages(a, b)
  <2>1. CASE a # n
    <3>1. \A r \in StageNames : At(r, a, b)' <=> At(r, a, b)
      BY <1>5, <1>6, <1>8, <1>10, <2>1 DEF At, HandledSame, ListenSame
    <3> QED
      BY <2>1, <3>1, StageStays
  <2>2. CASE a = n
    <3>1. \A r \in StageNames : ~ At(r, a, b)
      BY <1>9, <1>10, <2>2 DEF Stages
    <3>2. \A r \in StageNames : At(r, a, b)' <=> r = "unsent"
      BY <1>5, <1>6, <1>8, <1>10, <2>2, <3>1 DEF At, HandledSame, ListenSame, StageNames
    <3> QED
      BY <2>2, <3>2 DEF Stages, StageNames
  <2> QED
    BY <2>1, <2>2
<1> QED
  BY <1>2, <1>4, <1>9, <1>10 DEF e

\* The head of the queue of a node that releases the lock is its own request.
LEMMA ReleaseStages ==
  ASSUME TypeOK, Stamped, Broadcasts, Answers, Timestamps, Queues, Deferral, HolderInCS,
         NEW n \in Nodes, panic = "none", ReleaseLock(n)
  PROVE  /\ panic' = panic
         /\ queue[n] # << >> /\ Peek(queue[n]) = n
         /\ queue' = [queue EXCEPT ![n] = Tail(@)]
         /\ Steady
<1>1. cpc[n] = "cs" /\ holder = n /\ Active(n)
  BY DEF ReleaseLock, Go, HolderInCS, Active
<1>2. PICK i \in 1..Len(queue[n]) : queue[n][i].nodeId = n
  BY <1>1 DEF Queues, Queued
<1>3. queue[n] \in Seq(Elem) /\ queue[n] # << >> /\ queue[n][1] = Head(queue[n])
      /\ 1 \in 1..Len(queue[n]) /\ queue[n][1] \in Elem
  <2>1. queue[n] \in Seq(Elem) /\ queue[n] # << >>
    BY <1>2, EmptySeq DEF TypeOK
  <2>2. queue[n][1] = Head(queue[n]) /\ 1 \in 1..Len(queue[n])
    BY <2>1, TailElements
  <2> QED
    BY <2>1, <2>2, ElementOfSeq
<1>4. queue[n][1].nodeId = n
  <2> SUFFICES ASSUME queue[n][1].nodeId # n PROVE FALSE
    OBVIOUS
  <2>1. PICK m \in Nodes : m = queue[n][1].nodeId
    BY <1>3 DEF Elem
  <2>2. queue[n][1] = Own(m) /\ queue[n][i] = Own(n) /\ Active(m) /\ m # n
    BY <1>2, <1>3, <2>1 DEF Timestamps
  <2>3. Before(Own(m), Own(n))
    <3>1. i # 1 /\ 1 < i
      BY <1>2
    <3> QED
      BY <1>2, <1>3, <2>2, <3>1 DEF Queues, SortedQueue
  <2>4. Before(Own(n), Own(m))
    <3>1. Deferring(n, m)
      BY <1>3, <2>1 DEF Deferring, Queued
    <3> QED
      BY <1>1, <2>2, <3>1 DEF Deferral
  <2> QED
    BY <1>1, <2>2, <2>3, <2>4, NodesAssumption DEF Before, Own, Stamped
<1>5. Peek(queue[n]) = n
  BY <1>3, <1>4 DEF Peek
<1>6. panic' = panic /\ queue' = [queue EXCEPT ![n] = Tail(@)]
  BY <1>1, <1>3 DEF ReleaseLock
<1>7. HandledSame /\ ListenSame
  BY HandledFrame, ListenFrame DEF ReleaseLock, listenVars
<1>8. ClientSame
  BY ClientMoves DEF ReleaseLock
<1>9. QueuedSame
  BY <1>3, <1>5, <1>6, QueuedTail DEF QueuedSame
<1> QED
  BY <1>3, <1>5, <1>6, <1>7, <1>8, <1>9, StagesFrame

\* The other steps of the client send and receive nothing.
LEMMA QuietStages ==
  ASSUME TypeOK, Broadcasts, NEW n \in Nodes,
         \/ AcquireLock(n) \/ LoadClock(n) \/ StoreClock(n) \/ EnterCS(n)
         \/ StoreDeferredClock(n) \/ DrainDone(n) \/ ClearOngoing(n)
  PROVE  Steady
<1>1. lmsg' = lmsg /\ handlers' = handlers /\ queue' = queue /\ unsent' = unsent
  BY DEF AcquireLock, LoadClock, StoreClock, EnterCS, StoreDeferredClock, DrainDone, ClearOngoing,
     listenVars, fieldVars
<1>2. ListenSame /\ HandledSame /\ QueuedSame
  BY <1>1, ListenFrame, HandledFrame, QueuedFrame
<1>3. ClientSame
  BY <1>1, ClientMoves DEF AcquireLock, LoadClock, StoreClock, EnterCS, StoreDeferredClock,
     DrainDone, ClearOngoing
<1> QED
  BY <1>2, <1>3, StagesFrame

-----------------------------------------------------------------------------
(***************************************************************************)
(* Each request is answered once by each node.                             *)
(***************************************************************************)

LEMMA PendingType ==
  ASSUME NEW n \in Nodes
  PROVE  IsFiniteSet(Pending(n)) /\ Cardinality(Pending(n)) \in Nat
         /\ IsFiniteSet(Nodes) /\ Cardinality(Nodes) \in Nat
<1>1. IsFiniteSet(Nodes)
  BY NodesAssumption
<1>2. IsFiniteSet(Pending(n))
  BY <1>1, FS_Subset DEF Pending
<1> QED
  BY <1>1, <1>2, FS_CardinalityType

\* The steps of an answer on its way.
AnswerMoves == \/ Steady
               \/ \E n, d \in Nodes : n # d /\ \E t : MovesTo(n, d, t)

SameRequests == \A n \in Nodes : cpc'[n] = "request" <=> cpc[n] = "request"

LEMMA AnswersFrame ==
  ASSUME Answers, AnswerMoves, SameRequests, reqAckCount' = reqAckCount
  PROVE  Answers'
<1>1. ASSUME NEW a \in Nodes, NEW b \in Nodes, a # b
      PROVE  /\ Stages(a, b)' = {} <=> Stages(a, b) = {}
             /\ Stages(a, b)' = Stages(a, b) \/ \E t : Stages(a, b)' = {t}
  BY <1>1 DEF AnswerMoves, Steady, MovesTo, OthersStay
<1>2. ASSUME NEW a \in Nodes, NEW b \in Nodes, a # b
      PROVE  /\ \A s, t \in Stages(a, b)' : s = t
             /\ Stages(a, b)' # {} => cpc'[a] = "request"
  <2>1. \A s, t \in Stages(a, b) : s = t
    BY <1>2 DEF Answers
  <2>2. \A s, t \in Stages(a, b)' : s = t
    BY <1>1, <1>2, <2>1
  <2> QED
    BY <1>1, <1>2, <2>2 DEF Answers, SameRequests
<1>3. ASSUME NEW n \in Nodes PROVE Pending(n)' = Pending(n)
  BY <1>1 DEF Pending
<1>4. ASSUME NEW n \in Nodes, cpc'[n] = "request"
      PROVE  reqAckCount'[n] + Cardinality(Pending(n)') = Cardinality(Nodes)
  <2>1. Pending(n)' = Pending(n)
    BY <1>3
  <2>2. reqAckCount[n] + Cardinality(Pending(n)) = Cardinality(Nodes)
    BY <1>4 DEF Answers, SameRequests
  <2> QED
    BY <2>1, <2>2
<1> QED
  BY <1>2, <1>4 DEF Answers

LEMMA EnterAnswers ==
  ASSUME TypeOK, Answers, NEW n \in Nodes, EnterCS(n)
  PROVE  Pending(n) = {}
<1>1. reqAckCount[n] = Cardinality(Nodes) /\ cpc[n] = "request"
  BY DEF EnterCS, Go
<1>2. reqAckCount[n] + Cardinality(Pending(n)) = Cardinality(Nodes)
  BY <1>1 DEF Answers
<1>3. Cardinality(Pending(n)) = 0
  BY <1>1, <1>2, PendingType
<1> QED
  BY <1>3, PendingType, FS_EmptySet

LEMMA AnswersEnter ==
  ASSUME TypeOK, Broadcasts, Answers, NEW n \in Nodes, EnterCS(n)
  PROVE  Answers'
<1>1. Steady
  BY QuietStages
<1>2. \A d \in Nodes : d # n => Stages(n, d) = {}
  BY EnterAnswers DEF Pending
<1>3. cpc' = [cpc EXCEPT ![n] = "cs"] /\ reqAckCount' = reqAckCount
  BY DEF EnterCS, Go, fieldVars
<1>4. ASSUME NEW a \in Nodes, NEW b \in Nodes, a # b
      PROVE  /\ \A s, t \in Stages(a, b)' : s = t
             /\ Stages(a, b)' # {} => cpc'[a] = "request"
  <2>1. Stages(a, b)' = Stages(a, b)
    BY <1>1, <1>4 DEF Steady
  <2>2. /\ \A s, t \in Stages(a, b) : s = t
        /\ Stages(a, b) # {} => cpc[a] = "request"
    BY <1>4 DEF Answers
  <2>3. Stages(a, b) # {} => cpc'[a] = cpc[a]
    BY <1>2, <1>3, <1>4 DEF TypeOK
  <2> QED
    BY <2>1, <2>2, <2>3
<1>5. ASSUME NEW a \in Nodes, cpc'[a] = "request"
      PROVE  reqAckCount'[a] + Cardinality(Pending(a)') = Cardinality(Nodes)
  <2>1. Pending(a)' = Pending(a)
    BY <1>1 DEF Steady, Pending
  <2>2. cpc[a] = "request"
    BY <1>3, <1>5 DEF TypeOK
  <2>3. reqAckCount[a] + Cardinality(Pending(a)) = Cardinality(Nodes)
    BY <2>2 DEF Answers
  <2> QED
    BY <1>3, <2>1, <2>3
<1> QED
  BY <1>4, <1>5 DEF Answers

LEMMA AnswersStamp ==
  ASSUME TypeOK, Broadcasts, Answers, Timestamps, NEW n \in Nodes, StampRequest(n)
  PROVE  Answers'
<1>1. \A a, b \in Nodes : a # b =>
        Stages(a, b)' = IF a = n THEN {"unsent"} ELSE Stages(a, b)
  BY StampStages
<1>2. cpc' = [cpc EXCEPT ![n] = "request"] /\ reqAckCount' = [reqAckCount EXCEPT ![n] = 1]
  BY DEF StampRequest, Go
<1>3. ASSUME NEW a \in Nodes, NEW b \in Nodes, a # b
      PROVE  /\ \A s, t \in Stages(a, b)' : s = t
             /\ Stages(a, b)' # {} => cpc'[a] = "request"
  <2>1. CASE a = n
    <3>1. Stages(a, b)' = {"unsent"}
      BY <1>1, <1>3, <2>1
    <3>2. cpc'[a] = "request"
      BY <1>2, <2>1 DEF TypeOK
    <3> QED
      BY <3>1, <3>2
  <2>2. CASE a # n
    <3>1. Stages(a, b)' = Stages(a, b) /\ cpc'[a] = cpc[a]
      BY <1>1, <1>2, <1>3, <2>2 DEF TypeOK
    <3> QED
      BY <1>3, <3>1 DEF Answers
  <2> QED
    BY <2>1, <2>2
<1>4. ASSUME NEW a \in Nodes, cpc'[a] = "request"
      PROVE  reqAckCount'[a] + Cardinality(Pending(a)') = Cardinality(Nodes)
  <2>1. CASE a # n
    <3>1. Pending(a)' = Pending(a)
      BY <1>1, <2>1 DEF Pending
    <3>2. cpc[a] = "request" /\ reqAckCount'[a] = reqAckCount[a]
      BY <1>2, <1>4, <2>1 DEF TypeOK
    <3>3. reqAckCount[a] + Cardinality(Pending(a)) = Cardinality(Nodes)
      BY <3>2 DEF Answers
    <3> QED
      BY <3>1, <3>2, <3>3
  <2>2. CASE a = n
    <3>1. Pending(n)' = Nodes \ {n}
      BY <1>1 DEF Pending
    <3>2. IsFiniteSet(Nodes) /\ Cardinality(Nodes) \in Nat
      BY PendingType
    <3>3. Cardinality(Nodes \ {n}) = Cardinality(Nodes) - 1
      BY <3>2, FS_RemoveElement
    <3>4. reqAckCount'[n] = 1
      BY <1>2 DEF TypeOK
    <3> QED
      BY <2>2, <3>1, <3>2, <3>3, <3>4
  <2> QED
    BY <2>1, <2>2
<1> QED
  BY <1>3, <1>4 DEF Answers

LEMMA AnswersCount ==
  ASSUME TypeOK, Goroutines, Answers, NEW n \in Nodes, NEW h \in handlers[n], CountAck(n, h)
  PROVE  Answers'
<1>1. PICK d \in Nodes : d = h.node
  BY CountAckStages
<1>2. d # n /\ Stages(n, d) # {} /\ Stages(n, d)' = {} /\ OthersStay(n, d)
  BY <1>1, CountAckStages
<1>3. cpc' = cpc /\ reqAckCount' = [reqAckCount EXCEPT ![n] = @ + 1]
  BY DEF CountAck, clientVars
<1>4. ASSUME NEW a \in Nodes, NEW b \in Nodes, a # b
      PROVE  /\ \A s, t \in Stages(a, b)' : s = t
             /\ Stages(a, b)' # {} => cpc'[a] = "request"
  <2>1. Stages(a, b)' = Stages(a, b) \/ Stages(a, b)' = {}
    BY <1>2, <1>4 DEF OthersStay
  <2>2. /\ \A s, t \in Stages(a, b) : s = t
        /\ Stages(a, b) # {} => cpc[a] = "request"
    BY <1>4 DEF Answers
  <2> QED
    BY <1>3, <2>1, <2>2
<1>5. ASSUME NEW a \in Nodes, cpc'[a] = "request"
      PROVE  reqAckCount'[a] + Cardinality(Pending(a)') = Cardinality(Nodes)
  <2>1. reqAckCount[a] + Cardinality(Pending(a)) = Cardinality(Nodes)
    BY <1>3, <1>5 DEF Answers
  <2>2. CASE a # n
    <3>1. Pending(a)' = Pending(a)
      BY <1>2, <2>2 DEF Pending, OthersStay
    <3>2. reqAckCount'[a] = reqAckCount[a]
      BY <1>3, <2>2 DEF TypeOK
    <3> QED
      BY <2>1, <3>1, <3>2
  <2>3. CASE a = n
    <3>1. Pending(n)' = Pending(n) \ {d} /\ d \in Pending(n)
      BY <1>2 DEF Pending, OthersStay
    <3>2. IsFiniteSet(Pending(n)) /\ Cardinality(Pending(n)) \in Nat /\ Cardinality(Nodes) \in Nat
      BY PendingType
    <3>3. Cardinality(Pending(n) \ {d}) = Cardinality(Pending(n)) - 1
      BY <3>1, <3>2, FS_RemoveElement
    <3>4. reqAckCount'[n] = reqAckCount[n] + 1 /\ reqAckCount[n] \in Nat
      BY <1>3 DEF TypeOK
    <3> QED
      BY <2>1, <2>3, <3>1, <3>2, <3>3, <3>4
  <2> QED
    BY <2>2, <2>3
<1> QED
  BY <1>4, <1>5 DEF Answers

LEMMA ComparesOrLoads ==
  ASSUME NEW n \in Nodes, NEW h \in Handler
  PROVE  /\ CompareRequests(n, h) =>
              \E pc \in {"insert", "load"} : HandlerMoves(n, h, [h EXCEPT !.pc = pc])
         /\ LoadAckClock(n, h) =>
              HandlerMoves(n, h, [h EXCEPT !.pc = "store", !.reg = clock[n]])
         /\ StoreAckClock(n, h) =>
              HandlerMoves(n, h, [h EXCEPT !.pc = "send", !.reg = h.reg + 1])
<1>1. \A pc, reg :
        /\ [h EXCEPT !.pc = pc, !.reg = reg].action = h.action
        /\ [h EXCEPT !.pc = pc, !.reg = reg].node = h.node
        /\ [h EXCEPT !.pc = pc, !.reg = reg].timestamp = h.timestamp
  BY DEF Handler
<1>2. \A pc : /\ [h EXCEPT !.pc = pc].action = h.action
              /\ [h EXCEPT !.pc = pc].node = h.node
              /\ [h EXCEPT !.pc = pc].timestamp = h.timestamp
  BY DEF Handler
<1>3. CompareRequests(n, h) => \E pc \in {"insert", "load"} : HandlerMoves(n, h, [h EXCEPT !.pc = pc])
  BY <1>2 DEF CompareRequests, HandlerMoves
<1>4. LoadAckClock(n, h) => HandlerMoves(n, h, [h EXCEPT !.pc = "store", !.reg = clock[n]])
  BY <1>1, Zenon DEF LoadAckClock, HandlerMoves
<1>5. StoreAckClock(n, h) => HandlerMoves(n, h, [h EXCEPT !.pc = "send", !.reg = h.reg + 1])
  BY <1>1, Zenon DEF StoreAckClock, HandlerMoves
<1> QED
  BY <1>3, <1>4, <1>5

LEMMA HandlerAnswers ==
  ASSUME TypeOK, Goroutines, Answers, NEW n \in Nodes, NEW h \in handlers[n], HandlerStep(n, h),
         ~ CountAck(n, h)
  PROVE  AnswerMoves
<1>1. CASE DeferRequest(n, h)
  <2>1. h.node \in Nodes /\ h.node # n /\ MovesTo(h.node, n, "queue")
    BY <1>1, DeferStages, HandlerType
  <2> QED
    BY <2>1 DEF AnswerMoves
<1>2. CASE SendAck(n, h)
  <2>1. h.node \in Nodes /\ h.node # n /\ MovesTo(h.node, n, "ackListen")
    BY <1>2, SendAckStages
  <2> QED
    BY <2>1 DEF AnswerMoves
<1>3. CASE CheckOngoing(n, h)
  <2>1. PICK pc \in {"compare", "load", "count"} : HandlerMoves(n, h, [h EXCEPT !.pc = pc])
    BY <1>3, CheckMoves
  <2>2. Steady
    BY <1>3, <2>1, HandlerMovesStages DEF CheckOngoing
  <2> QED
    BY <2>2 DEF AnswerMoves
<1>4. CASE CompareRequests(n, h) \/ LoadAckClock(n, h) \/ StoreAckClock(n, h)
  <2>1. h \in Handler
    BY HandlerType
  <2>2. \E k : HandlerMoves(n, h, k)
    BY <1>4, <2>1, ComparesOrLoads
  <2>3. Steady
    BY <1>4, <2>2, HandlerMovesStages DEF CompareRequests, LoadAckClock, StoreAckClock
  <2> QED
    BY <2>3 DEF AnswerMoves
<1> QED
  BY <1>1, <1>2, <1>3, <1>4 DEF HandlerStep

LEMMA AnswersHandler ==
  ASSUME TypeOK, Conserved, NEW n \in Nodes, NEW h \in handlers[n], HandlerStep(n, h)
  PROVE  Answers'
<1>1. Goroutines /\ Answers
  BY DEF Conserved
<1>2. CASE CountAck(n, h)
  BY <1>1, <1>2, AnswersCount
<1>3. CASE ~ CountAck(n, h)
  <2>1. cpc' = cpc /\ reqAckCount' = reqAckCount
    BY <1>3 DEF HandlerStep, CheckOngoing, CompareRequests, DeferRequest, LoadAckClock,
       StoreAckClock, SendAck, clientVars, fieldVars
  <2>2. AnswerMoves
    BY <1>1, <1>3, HandlerAnswers
  <2> QED
    BY <1>1, <2>1, <2>2, AnswersFrame DEF SameRequests
<1> QED
  BY <1>2, <1>3

LEMMA ClientAnswers ==
  ASSUME TypeOK, Stamped, Goroutines, Broadcasts, Answers, Timestamps, Queues, Deferral, HolderInCS,
         panic = "none", NEW n \in Nodes, AcquireLock(n) \/ ClientStep(n) \/ HandleMsg(n),
         ~ StampRequest(n), ~ EnterCS(n)
  PROVE  AnswerMoves
<1>1. CASE \/ AcquireLock(n) \/ LoadClock(n) \/ StoreClock(n)
           \/ StoreDeferredClock(n) \/ DrainDone(n) \/ ClearOngoing(n)
  BY <1>1, QuietStages DEF AnswerMoves
<1>2. CASE HandleMsg(n)
  BY <1>2, HandleMsgStages DEF AnswerMoves
<1>3. ASSUME NEW d \in Nodes, BroadcastRequest(n, d) PROVE AnswerMoves
  BY <1>3, BroadcastStages DEF AnswerMoves
<1>4. CASE ReleaseLock(n)
  <2>1. Steady
    BY <1>4, ReleaseStages
  <2> QED
    BY <2>1 DEF AnswerMoves
<1>5. CASE ExtractDeferred(n)
  BY <1>5, ExtractStages DEF AnswerMoves
<1>6. ASSUME NEW d \in Nodes, SendDeferredAck(n, d) PROVE AnswerMoves
  BY <1>6, SendDeferredStages DEF AnswerMoves
<1> QED
  BY <1>1, <1>2, <1>3, <1>4, <1>5, <1>6 DEF ClientStep

LEMMA AnswersClient ==
  ASSUME TypeOK, Stamped, Conserved, panic = "none", NEW n \in Nodes,
         AcquireLock(n) \/ ClientStep(n) \/ HandleMsg(n)
  PROVE  Answers'
<1>1. Goroutines /\ Broadcasts /\ Answers /\ Timestamps /\ Queues /\ Deferral /\ HolderInCS
  BY DEF Conserved
<1>2. CASE StampRequest(n)
  BY <1>1, <1>2, AnswersStamp
<1>3. CASE EnterCS(n)
  BY <1>1, <1>3, AnswersEnter
<1>4. CASE ~ StampRequest(n) /\ ~ EnterCS(n)
  <2>1. SameRequests
    <3>1. \/ cpc' = cpc
          \/ \E from, to \in {"idle", "load", "store", "stamp", "cs", "drain", "ackStore", "ackSend",
                              "clear"} : Go(n, from, to)
      BY <1>4 DEF AcquireLock, ClientStep, HandleMsg, LoadClock, StoreClock,
         BroadcastRequest, ReleaseLock, ExtractDeferred, StoreDeferredClock, SendDeferredAck,
         DrainDone, ClearOngoing, clientVars
    <3> QED
      BY <3>1 DEF Go, TypeOK, SameRequests
  <2>2. reqAckCount' = reqAckCount
    BY <1>4 DEF AcquireLock, ClientStep, HandleMsg, LoadClock, StoreClock,
       BroadcastRequest, ReleaseLock, ExtractDeferred, StoreDeferredClock, SendDeferredAck,
       DrainDone, ClearOngoing, fieldVars
  <2>3. AnswerMoves
    BY <1>1, <1>4, ClientAnswers
  <2> QED
    BY <1>1, <2>1, <2>2, <2>3, AnswersFrame
<1> QED
  BY <1>2, <1>3, <1>4

-----------------------------------------------------------------------------
(***************************************************************************)
(* The goroutines, what they send, and the critical section.               *)
(***************************************************************************)

\* No message to its own sender is sent.
ListensToOthers == \/ lmsg' = lmsg
                   \/ \E n, d \in Nodes : n # d /\ \E a, t : Send(n, d, a, t)

SameOngoing == \A n \in Nodes : hasOngoingReq'[n] <=> cpc'[n] # "idle"

LEMMA ListenersStep ==
  ASSUME TypeOK, Goroutines, ListensToOthers, NEW n \in Nodes, lmsg'[n] # Nothing
  PROVE  lmsg'[n].node # n
<1>1. CASE lmsg'[n] = lmsg[n]
  BY <1>1 DEF Goroutines
<1>2. ASSUME NEW m \in Nodes, NEW d \in Nodes, m # d, NEW a, NEW t, Send(m, d, a, t),
             lmsg'[n] # lmsg[n]
      PROVE  lmsg'[n].node # n
  <2>1. n = d /\ lmsg'[n] = [action |-> a, node |-> m, timestamp |-> t]
    BY <1>2 DEF Send, TypeOK
  <2> QED
    BY <1>2, <2>1
<1> QED
  BY <1>1, <1>2 DEF ListensToOthers

LEMMA GoroutinesFrame ==
  ASSUME TypeOK, Goroutines, ListensToOthers, SameOngoing,
         \A n \in Nodes : handlers'[n] \subseteq handlers[n]
  PROVE  Goroutines'
<1>1. ASSUME NEW n \in Nodes
      PROVE  /\ \A h \in handlers'[n] : h.node # n /\ h.pc \in PlacesOf(h.action)
             /\ \A h, k \in handlers'[n] : h.action = k.action /\ h.node = k.node => h = k
  BY DEF Goroutines
<1> QED
  BY <1>1, ListenersStep DEF Goroutines, SameOngoing

LEMMA FinishSubset ==
  ASSUME TypeOK, NEW n \in Nodes, NEW h \in handlers[n], Finish(n, h)
  PROVE  \A d \in Nodes : handlers'[d] \subseteq handlers[d]
  BY DEF Finish, TypeOK

LEMMA GoroutinesMove ==
  ASSUME TypeOK, Goroutines, NEW n \in Nodes, NEW h \in handlers[n], NEW k,
         HandlerMoves(n, h, k), k.pc \in PlacesOf(k.action),
         UNCHANGED <<hasOngoingReq, cpc, lmsg>>
  PROVE  Goroutines'
<1>1. /\ \A d \in Nodes : d # n => handlers'[d] = handlers[d]
      /\ handlers'[n] = (handlers[n] \ {h}) \cup {k}
      /\ k.action = h.action /\ k.node = h.node
  BY DEF HandlerMoves, Become, TypeOK
<1>2. /\ h.node # n
      /\ \A x \in handlers[n] : x.node # n /\ x.pc \in PlacesOf(x.action)
      /\ \A x, y \in handlers[n] : x.action = y.action /\ x.node = y.node => x = y
  BY DEF Goroutines
<1>3. ASSUME NEW d \in Nodes
      PROVE  /\ \A x \in handlers'[d] : x.node # d /\ x.pc \in PlacesOf(x.action)
             /\ \A x, y \in handlers'[d] : x.action = y.action /\ x.node = y.node => x = y
  <2>1. CASE d # n
    BY <1>1, <2>1 DEF Goroutines
  <2>2. CASE d = n
    BY <1>1, <1>2, <2>2
  <2> QED
    BY <2>1, <2>2
<1> QED
  BY <1>3 DEF Goroutines

LEMMA GoroutinesHandler ==
  ASSUME TypeOK, Conserved, NEW n \in Nodes, NEW h \in handlers[n], HandlerStep(n, h)
  PROVE  Goroutines'
<1>1. Goroutines /\ Answers
  BY DEF Conserved
<1>2. h \in Handler /\ h.action \in {"request", "ack"} /\ h.pc \in PlacesOf(h.action)
  BY <1>1, HandlerType DEF Goroutines
<1>3. \A pc : [h EXCEPT !.pc = pc].pc = pc /\ [h EXCEPT !.pc = pc].action = h.action
  BY <1>2 DEF Handler
<1>5. UNCHANGED <<hasOngoingReq, cpc>>
  BY DEF HandlerStep, CheckOngoing, CompareRequests, DeferRequest, LoadAckClock,
     StoreAckClock, SendAck, CountAck, clientVars, fieldVars
<1>6. SameOngoing
  BY <1>1, <1>5 DEF SameOngoing, Goroutines
<1>7. CASE CheckOngoing(n, h)
  <2>1. PICK pc \in {"compare", "load", "count"} :
           /\ HandlerMoves(n, h, [h EXCEPT !.pc = pc])
           /\ h.action = "request" => pc = IF hasOngoingReq[n] THEN "compare" ELSE "load"
           /\ h.action = "ack" => pc = "count"
    BY <1>1, <1>7, CheckMoves
  <2>2. pc \in PlacesOf(h.action)
    BY <1>2, <2>1 DEF PlacesOf
  <2> QED
    BY <1>1, <1>3, <1>5, <1>7, <2>1, <2>2, GoroutinesMove DEF CheckOngoing, listenVars
<1>8. CASE CompareRequests(n, h)
  <2>1. PICK pc \in {"insert", "load"} : HandlerMoves(n, h, [h EXCEPT !.pc = pc])
    BY <1>2, <1>8, ComparesOrLoads
  <2>2. pc \in PlacesOf(h.action)
    BY <1>2, <1>8 DEF PlacesOf, CompareRequests
  <2> QED
    BY <1>1, <1>3, <1>5, <1>8, <2>1, <2>2, GoroutinesMove DEF CompareRequests, listenVars
<1>9. CASE LoadAckClock(n, h)
  <2>1. HandlerMoves(n, h, [h EXCEPT !.pc = "store", !.reg = clock[n]])
    BY <1>2, <1>9, ComparesOrLoads
  <2>2. "store" \in PlacesOf(h.action)
    BY <1>2, <1>9 DEF PlacesOf, LoadAckClock
  <2>3. PICK k : k = [h EXCEPT !.pc = "store", !.reg = clock[n]]
    OBVIOUS
  <2>4. k.pc = "store" /\ k.action = h.action
    BY <1>2, <2>3 DEF Handler
  <2>5. k.pc \in PlacesOf(k.action) /\ HandlerMoves(n, h, k)
    BY <2>1, <2>2, <2>3, <2>4
  <2>6. lmsg' = lmsg
    BY <1>9 DEF LoadAckClock, listenVars
  <2> QED
    BY <1>1, <1>5, <2>5, <2>6, GoroutinesMove
<1>10. CASE StoreAckClock(n, h)
  <2>1. HandlerMoves(n, h, [h EXCEPT !.pc = "send", !.reg = h.reg + 1])
    BY <1>2, <1>10, ComparesOrLoads
  <2>2. "send" \in PlacesOf(h.action)
    BY <1>2, <1>10 DEF PlacesOf, StoreAckClock
  <2>3. PICK k : k = [h EXCEPT !.pc = "send", !.reg = h.reg + 1]
    OBVIOUS
  <2>4. k.pc = "send" /\ k.action = h.action
    BY <1>2, <2>3 DEF Handler
  <2>5. k.pc \in PlacesOf(k.action) /\ HandlerMoves(n, h, k)
    BY <2>1, <2>2, <2>3, <2>4
  <2>6. lmsg' = lmsg
    BY <1>10 DEF StoreAckClock, listenVars
  <2> QED
    BY <1>1, <1>5, <2>5, <2>6, GoroutinesMove
<1>11. CASE DeferRequest(n, h) \/ CountAck(n, h)
  <2>1. ListensToOthers
    BY <1>11 DEF DeferRequest, CountAck, listenVars, ListensToOthers
  <2> QED
    BY <1>1, <1>6, <1>11, <2>1, FinishSubset, GoroutinesFrame DEF DeferRequest, CountAck
<1>12. CASE SendAck(n, h)
  <2>1. h.node \in Nodes /\ h.node # n
    BY <1>1, <1>12, SendAckStages
  <2>2. ListensToOthers
    BY <1>12, <2>1 DEF SendAck, ListensToOthers
  <2> QED
    BY <1>1, <1>6, <1>12, <2>2, FinishSubset, GoroutinesFrame DEF SendAck
<1> QED
  BY <1>7, <1>8, <1>9, <1>10, <1>11, <1>12 DEF HandlerStep

LEMMA GoroutinesHandleMsg ==
  ASSUME TypeOK, Goroutines, Answers, NEW n \in Nodes, HandleMsg(n)
  PROVE  Goroutines'
<1>1. PICK m \in Nodes :
         /\ m = lmsg[n].node /\ m # n
         /\ \/ lmsg[n].action = "request" /\ Listening(m, n)
            \/ lmsg[n].action = "ack" /\ AckListening(n, m)
  BY HandleMsgStages
<1> DEFINE h == [action |-> lmsg[n].action, node |-> lmsg[n].node, timestamp |-> lmsg[n].timestamp,
                 pc |-> "check", reg |-> 0]
<1>2. /\ \A d \in Nodes : d # n => handlers'[d] = handlers[d] /\ lmsg'[d] = lmsg[d]
      /\ handlers'[n] = handlers[n] \cup {h} /\ lmsg'[n] = Nothing
  BY DEF HandleMsg, TypeOK
<1>3. h.action = lmsg[n].action /\ h.node = m /\ h.pc = "check"
  BY <1>1
<1> HIDE DEF h
<1>4. ASSUME NEW k \in handlers[n] PROVE ~(k.action = lmsg[n].action /\ k.node = m)
  <2>1. CASE lmsg[n].action = "request" /\ Listening(m, n)
    <3>1. ~ Handled(m, n)
      BY <1>1, <2>1, StageOf DEF Answers
    <3> QED
      BY <2>1, <3>1 DEF Handled
  <2>2. CASE lmsg[n].action = "ack" /\ AckListening(n, m)
    <3>1. ~ AckHandled(n, m)
      BY <1>1, <2>2, StageOf DEF Answers
    <3> QED
      BY <2>2, <3>1 DEF AckHandled
  <2> QED
    BY <1>1, <2>1, <2>2
<1>5. h.pc \in PlacesOf(h.action)
  BY <1>3 DEF PlacesOf
<1>6. ASSUME NEW d \in Nodes
      PROVE  /\ \A x \in handlers'[d] : x.node # d /\ x.pc \in PlacesOf(x.action)
             /\ \A x, y \in handlers'[d] : x.action = y.action /\ x.node = y.node => x = y
  <2>1. CASE d # n
    BY <1>2, <2>1 DEF Goroutines
  <2>2. CASE d = n
    <3>1. /\ \A x \in handlers[n] : x.node # n /\ x.pc \in PlacesOf(x.action)
          /\ \A x, y \in handlers[n] : x.action = y.action /\ x.node = y.node => x = y
      BY DEF Goroutines
    <3> QED
      BY <1>1, <1>2, <1>3, <1>4, <1>5, <2>2, <3>1
  <2> QED
    BY <2>1, <2>2
<1>7. ASSUME NEW d \in Nodes, lmsg'[d] # Nothing PROVE lmsg'[d].node # d
  BY <1>2, <1>7 DEF Goroutines
<1>8. UNCHANGED <<hasOngoingReq, cpc>>
  BY DEF HandleMsg, fieldVars, clientVars
<1> QED
  BY <1>6, <1>7, <1>8 DEF Goroutines

LEMMA GoroutinesClient ==
  ASSUME TypeOK, Conserved, NEW n \in Nodes, AcquireLock(n) \/ ClientStep(n) \/ HandleMsg(n)
  PROVE  Goroutines'
<1>1. Goroutines /\ Broadcasts /\ Answers
  BY DEF Conserved
<1>2. CASE HandleMsg(n)
  BY <1>1, <1>2, GoroutinesHandleMsg
<1>3. CASE ~ HandleMsg(n)
  <2>1. handlers' = handlers
    BY <1>3 DEF AcquireLock, ClientStep, LoadClock, StoreClock, StampRequest, EnterCS,
       BroadcastRequest, ReleaseLock, ExtractDeferred, StoreDeferredClock, SendDeferredAck,
       DrainDone, ClearOngoing
  <2>2. SameOngoing
    <3>1. \/ hasOngoingReq' = [hasOngoingReq EXCEPT ![n] = TRUE] /\ cpc' = [cpc EXCEPT ![n] = "load"]
          \/ hasOngoingReq' = [hasOngoingReq EXCEPT ![n] = FALSE] /\ cpc' = [cpc EXCEPT ![n] = "idle"]
          \/ hasOngoingReq' = hasOngoingReq /\ cpc' = cpc
          \/ /\ hasOngoingReq' = hasOngoingReq
             /\ \E from, to \in {"load", "store", "stamp", "request", "cs", "drain", "ackStore",
                                 "ackSend", "clear"} : Go(n, from, to)
      BY <1>3 DEF AcquireLock, ClientStep, LoadClock, StoreClock, StampRequest, EnterCS,
         BroadcastRequest, ReleaseLock, ExtractDeferred, StoreDeferredClock, SendDeferredAck,
         DrainDone, ClearOngoing, fieldVars, Go
    <3>2. \A i \in Nodes : hasOngoingReq[i] <=> cpc[i] # "idle"
      BY <1>1 DEF Goroutines
    <3>3. cpc \in [Nodes -> {"idle", "load", "store", "stamp", "request", "cs", "drain",
                             "ackStore", "ackSend", "clear"}]
          /\ hasOngoingReq \in [Nodes -> BOOLEAN]
      BY DEF TypeOK
    <3>4. ASSUME NEW from, NEW to, from # "idle", to # "idle", Go(n, from, to),
                 hasOngoingReq' = hasOngoingReq
          PROVE  SameOngoing
      BY <3>2, <3>3, <3>4 DEF Go, SameOngoing
    <3>5. ASSUME hasOngoingReq' = [hasOngoingReq EXCEPT ![n] = TRUE], cpc' = [cpc EXCEPT ![n] = "load"]
          PROVE  SameOngoing
      BY <3>2, <3>3, <3>5 DEF SameOngoing
    <3>6. ASSUME hasOngoingReq' = [hasOngoingReq EXCEPT ![n] = FALSE], cpc' = [cpc EXCEPT ![n] = "idle"]
          PROVE  SameOngoing
      BY <3>2, <3>3, <3>6 DEF SameOngoing
    <3>7. ASSUME hasOngoingReq' = hasOngoingReq, cpc' = cpc
          PROVE  SameOngoing
      BY <3>2, <3>7 DEF SameOngoing
    <3> QED
      BY <3>1, <3>4, <3>5, <3>6, <3>7
  <2>3. ListensToOthers
    <3>1. CASE \E d \in Nodes : BroadcastRequest(n, d) \/ SendDeferredAck(n, d)
      BY <1>1, <3>1, BroadcastStages, SendDeferredStages
         DEF ListensToOthers, BroadcastRequest, SendDeferredAck
    <3>2. CASE ~ \E d \in Nodes : BroadcastRequest(n, d) \/ SendDeferredAck(n, d)
      BY <1>3, <3>2 DEF AcquireLock, ClientStep, LoadClock, StoreClock, StampRequest, EnterCS,
         ReleaseLock, ExtractDeferred, StoreDeferredClock, DrainDone, ClearOngoing, listenVars,
         ListensToOthers
    <3> QED
      BY <3>1, <3>2
  <2> QED
    BY <1>1, <2>1, <2>2, <2>3, GoroutinesFrame
<1> QED
  BY <1>2, <1>3

LEMMA BroadcastsClient ==
  ASSUME TypeOK, Conserved, NEW n \in Nodes, AcquireLock(n) \/ ClientStep(n) \/ HandleMsg(n)
  PROVE  Broadcasts'
<1>1. Goroutines /\ Broadcasts /\ Answers /\ Timestamps /\ Queues
  BY DEF Conserved
<1>2. \A i \in Nodes :
        /\ cpc[i] = "request" => i \notin unsent[i]
        /\ cpc[i] \in {"ackStore", "ackSend"} => \E d \in Nodes \ {i} : unsent[i] = {d}
        /\ cpc[i] \notin {"request", "ackStore", "ackSend"} => unsent[i] = {}
  BY <1>1 DEF Broadcasts
<1>3. ASSUME unsent' = unsent,
             \/ cpc' = cpc
             \/ \E from, to \in {"idle", "load", "store", "stamp", "cs", "drain", "clear"} :
                  Go(n, from, to)
             \/ Go(n, "ackStore", "ackSend")
             \/ Go(n, "request", "cs") /\ unsent[n] = {}
      PROVE  Broadcasts'
  <2>1. cpc \in [Nodes -> {"idle", "load", "store", "stamp", "request", "cs", "drain",
                           "ackStore", "ackSend", "clear"}]
    BY DEF TypeOK
  <2>2. ASSUME NEW i \in Nodes
        PROVE  /\ cpc'[i] = "request" => i \notin unsent[i]
               /\ cpc'[i] \in {"ackStore", "ackSend"} => \E d \in Nodes \ {i} : unsent[i] = {d}
               /\ cpc'[i] \notin {"request", "ackStore", "ackSend"} => unsent[i] = {}
    BY <1>2, <1>3, <2>1, <2>2 DEF Go
  <2> QED
    BY <1>3, <2>2 DEF Broadcasts
<1>4. CASE \/ AcquireLock(n) \/ LoadClock(n) \/ StoreClock(n) \/ EnterCS(n) \/ ReleaseLock(n)
           \/ StoreDeferredClock(n) \/ DrainDone(n) \/ ClearOngoing(n) \/ HandleMsg(n)
  <2>1. unsent' = unsent
    BY <1>4 DEF AcquireLock, LoadClock, StoreClock, EnterCS, ReleaseLock, StoreDeferredClock,
       DrainDone, ClearOngoing, HandleMsg, clientVars
  <2>2. \/ cpc' = cpc
        \/ \E from, to \in {"idle", "load", "store", "stamp", "cs", "drain", "clear"} :
             Go(n, from, to)
        \/ Go(n, "ackStore", "ackSend")
        \/ Go(n, "request", "cs") /\ unsent[n] = {}
    BY <1>4 DEF AcquireLock, LoadClock, StoreClock, EnterCS, ReleaseLock, StoreDeferredClock,
       DrainDone, ClearOngoing, HandleMsg, clientVars
  <2> QED
    BY <1>3, <2>1, <2>2
<1>5. CASE StampRequest(n)
  BY <1>2, <1>5 DEF StampRequest, Go, TypeOK, Broadcasts
<1>6. ASSUME NEW d \in Nodes, BroadcastRequest(n, d) PROVE Broadcasts'
  BY <1>2, <1>6 DEF BroadcastRequest, TypeOK, Broadcasts
<1>7. CASE ExtractDeferred(n)
  <2>1. PICK m \in Nodes : m # n /\ unsent' = [unsent EXCEPT ![n] = {m}]
    BY <1>1, <1>7, ExtractStages
  <2>2. cpc' = [cpc EXCEPT ![n] = "ackStore"]
    BY <1>7 DEF ExtractDeferred, Go
  <2>3. ASSUME NEW i \in Nodes
        PROVE  /\ cpc'[i] = "request" => i \notin unsent'[i]
               /\ cpc'[i] \in {"ackStore", "ackSend"} => \E d \in Nodes \ {i} : unsent'[i] = {d}
               /\ cpc'[i] \notin {"request", "ackStore", "ackSend"} => unsent'[i] = {}
    <3>1. CASE i # n
      BY <1>2, <2>1, <2>2, <3>1 DEF TypeOK
    <3>2. CASE i = n
      BY <2>1, <2>2, <3>2 DEF TypeOK
    <3> QED
      BY <3>1, <3>2
  <2> QED
    BY <2>3 DEF Broadcasts
<1>8. ASSUME NEW d \in Nodes, SendDeferredAck(n, d) PROVE Broadcasts'
  BY <1>2, <1>8 DEF SendDeferredAck, Go, TypeOK, Broadcasts
<1> QED
  BY <1>4, <1>5, <1>6, <1>7, <1>8 DEF ClientStep

LEMMA HolderClient ==
  ASSUME TypeOK, Stamped, Conserved, panic = "none", NEW n \in Nodes,
         AcquireLock(n) \/ ClientStep(n) \/ HandleMsg(n)
  PROVE  HolderInCS' /\ NoOtherPanic'
<1>1. Goroutines /\ Broadcasts /\ Answers /\ Timestamps /\ Queues /\ Deferral /\ HolderInCS
      /\ NoOtherPanic
  BY DEF Conserved
<1>2. \A i \in Nodes : holder = i <=> cpc[i] = "cs"
  BY <1>1 DEF HolderInCS
<1>3. NoHolder \notin Nodes
  BY NodesAssumption DEF NoHolder
<1>4. CASE EnterCS(n)
  <2>1. HolderInCS'
    <3>1. CASE holder = NoHolder
      BY <1>2, <1>3, <1>4, <3>1 DEF EnterCS, Go, TypeOK, HolderInCS
    <3>2. CASE holder # NoHolder
      BY <1>4, <3>2 DEF EnterCS, HolderInCS
    <3> QED
      BY <3>1, <3>2
  <2>2. NoOtherPanic'
    BY <1>1, <1>4 DEF EnterCS, NoOtherPanic
  <2> QED
    BY <2>1, <2>2
<1>5. CASE ReleaseLock(n)
  <2>1. panic' = panic
    BY <1>1, <1>5, ReleaseStages
  <2>2. HolderInCS'
    BY <1>2, <1>3, <1>5 DEF ReleaseLock, Go, TypeOK, HolderInCS
  <2> QED
    BY <1>1, <2>1, <2>2 DEF NoOtherPanic
<1>6. CASE ~ EnterCS(n) /\ ~ ReleaseLock(n)
  <2>1. panic' = panic
    <3>1. CASE StampRequest(n)
      BY <1>1, <3>1, StampStages
    <3>2. CASE ExtractDeferred(n)
      BY <1>1, <3>2, ExtractStages
    <3>3. CASE ~ StampRequest(n) /\ ~ ExtractDeferred(n)
      BY <1>6, <3>3 DEF AcquireLock, ClientStep, LoadClock, StoreClock, HandleMsg,
         BroadcastRequest, StoreDeferredClock, SendDeferredAck,
         DrainDone, ClearOngoing, sharedVars
    <3> QED
      BY <3>1, <3>2, <3>3
  <2>2. holder' = holder
    BY <1>6 DEF AcquireLock, ClientStep, LoadClock, StoreClock, HandleMsg, StampRequest,
       BroadcastRequest, ExtractDeferred, StoreDeferredClock, SendDeferredAck,
       DrainDone, ClearOngoing, sharedVars
  <2>3. \/ cpc' = cpc
        \/ \E from, to \in {"idle", "load", "store", "stamp", "request", "drain", "ackStore",
                            "ackSend", "clear"} : Go(n, from, to)
    BY <1>6 DEF AcquireLock, ClientStep, LoadClock, StoreClock, HandleMsg, StampRequest,
       BroadcastRequest, ExtractDeferred, StoreDeferredClock, SendDeferredAck,
       DrainDone, ClearOngoing, clientVars
  <2>4. \A i \in Nodes : cpc'[i] = "cs" <=> cpc[i] = "cs"
    BY <2>3 DEF Go, TypeOK
  <2> QED
    BY <1>1, <1>2, <2>1, <2>2, <2>4 DEF HolderInCS, NoOtherPanic
<1> QED
  BY <1>4, <1>5, <1>6

LEMMA HandlerLeaves ==
  ASSUME TypeOK, Conserved, NEW n \in Nodes, NEW h \in handlers[n], HandlerStep(n, h)
  PROVE  /\ UNCHANGED <<hasOngoingReq, lastReqTimestamp, clientVars, holder, panic>>
         /\ Broadcasts' /\ HolderInCS' /\ NoOtherPanic'
<1>1. Goroutines /\ Broadcasts /\ Answers /\ HolderInCS /\ NoOtherPanic
  BY DEF Conserved
<1>2. UNCHANGED <<hasOngoingReq, lastReqTimestamp, clientVars, holder>>
  BY DEF HandlerStep, CheckOngoing, CompareRequests, DeferRequest, LoadAckClock,
     StoreAckClock, SendAck, CountAck, clientVars, fieldVars, sharedVars
<1>3. panic' = panic
  <2>1. CASE DeferRequest(n, h)
    BY <1>1, <2>1, DeferStages
  <2>2. CASE ~ DeferRequest(n, h)
    BY <2>2 DEF HandlerStep, CheckOngoing, CompareRequests, LoadAckClock,
       StoreAckClock, SendAck, CountAck, sharedVars
  <2> QED
    BY <2>1, <2>2
<1>4. UNCHANGED <<cpc, unsent>>
  BY <1>2 DEF clientVars
<1>5. Broadcasts'
  BY <1>1, <1>4 DEF Broadcasts
<1>6. HolderInCS' /\ NoOtherPanic'
  BY <1>1, <1>2, <1>3, <1>4 DEF HolderInCS, NoOtherPanic
<1> QED
  BY <1>2, <1>3, <1>5, <1>6

-----------------------------------------------------------------------------
(***************************************************************************)
(* The timestamps of the requests, and the queues.                         *)
(***************************************************************************)

LEMMA KeyType == Elem \subseteq Key
<1>1. ASSUME NEW e \in Elem PROVE e \in Key
  <2>1. e \in [nodeId : Nodes, timestamp : Nat]
    BY DEF Elem
  <2>2. /\ e = [nodeId |-> e.nodeId, timestamp |-> e.timestamp]
        /\ e.nodeId \in Nodes /\ e.timestamp \in Nat
    BY <2>1
  <2>3. e.nodeId \in Int /\ e.timestamp \in Int
    BY <2>2, NodesAssumption
  <2>4. [nodeId |-> e.nodeId, timestamp |-> e.timestamp] \in Key
    BY <2>3 DEF Key
  <2> QED
    BY <2>2, <2>4
<1> QED
  BY <1>1

LEMMA TailSorted ==
  ASSUME NEW S, NEW q \in Seq(S), q # << >>, SortedQueue(q)
  PROVE  /\ SortedQueue(Tail(q))
         /\ \A i \in 1..Len(Tail(q)) : \E j \in 1..Len(q) : Tail(q)[i] = q[j]
<1>1. /\ Len(q) \in Nat /\ Len(Tail(q)) = Len(q) - 1
      /\ \A i \in 1..Len(q) - 1 : Tail(q)[i] = q[i + 1]
  BY TailElements
<1>2. ASSUME NEW i \in 1..Len(Tail(q))
      PROVE  i \in 1..Len(q) - 1 /\ i + 1 \in 1..Len(q) /\ Tail(q)[i] = q[i + 1]
  BY <1>1
<1>3. ASSUME NEW i \in 1..Len(Tail(q)), NEW j \in 1..Len(Tail(q)), i < j
      PROVE  Before(Tail(q)[i], Tail(q)[j])
  <2>1. i + 1 < j + 1
    BY <1>1, <1>3
  <2> QED
    BY <1>2, <2>1 DEF SortedQueue
<1> QED
  BY <1>2, <1>3 DEF SortedQueue

\* Only requests that are not in the queue are inserted.
LEMMA QueuesInsert ==
  ASSUME TypeOK, Queues, NEW n \in Nodes, NEW e \in Elem, ~ Queued(e.nodeId, n),
         queue' = [queue EXCEPT ![n] = Insert(@, e)],
         \A m \in Nodes : Active(m)' => Active(m) \/ (m = n /\ e.nodeId = n)
  PROVE  Queues'
<1>1. queue'[n] = Insert(queue[n], e) /\ \A d \in Nodes : d # n => queue'[d] = queue[d]
  BY DEF TypeOK
<1>2. queue[n] \in Seq(Elem) /\ SortedQueue(queue[n])
  BY DEF TypeOK, Queues
<1>3. \A i \in 1..Len(queue[n]) : ~ SameKey(e, queue[n][i])
  BY DEF Queued, SameKey
<1>4. SortedQueue(Insert(queue[n], e))
  <2>1. PICK q \in Seq(Elem) : q = queue[n]
    BY <1>2
  <2> QED
    BY <1>2, <1>3, <2>1, KeyType, InsertedSorted
<1>5. \A a, b \in Nodes : Queued(a, b)' <=> Queued(a, b) \/ (a = e.nodeId /\ b = n)
  BY QueuedInsert
<1>6. ASSUME NEW d \in Nodes PROVE SortedQueue(queue'[d])
  BY <1>1, <1>2, <1>4 DEF Queues
<1>7. ASSUME NEW d \in Nodes, Active(d)' PROVE Queued(d, d)'
  BY <1>5, <1>7 DEF Queues
<1> QED
  BY <1>6, <1>7 DEF Queues

LEMMA QueuesTail ==
  ASSUME TypeOK, Timestamps, Queues, NEW n \in Nodes, queue[n] # << >>,
         queue' = [queue EXCEPT ![n] = Tail(@)], ~ Active(n)',
         \A m \in Nodes : Active(m)' => Active(m)
  PROVE  Queues'
<1>1. queue'[n] = Tail(queue[n]) /\ \A d \in Nodes : d # n => queue'[d] = queue[d]
  BY DEF TypeOK
<1>2. SortedQueue(Tail(queue[n]))
  BY TailSorted DEF TypeOK, Queues
<1>3. ASSUME NEW d \in Nodes PROVE SortedQueue(queue'[d])
  BY <1>1, <1>2, <1>3 DEF Queues
<1>4. ASSUME NEW d \in Nodes, Active(d)' PROVE Queued(d, d)'
  <2>1. d # n /\ Queued(d, d)
    BY <1>4 DEF Queues
  <2> QED
    BY <1>1, <2>1 DEF Queued
<1> QED
  BY <1>3, <1>4 DEF Queues

LEMMA QueuesFrame ==
  ASSUME Queues, queue' = queue, \A m \in Nodes : Active(m)' => Active(m)
  PROVE  Queues'
<1>1. ASSUME NEW d \in Nodes PROVE SortedQueue(queue'[d]) /\ (Active(d)' => Queued(d, d)')
  BY DEF Queues, Queued
<1> QED
  BY <1>1 DEF Queues

LEMMA QueuesHandler ==
  ASSUME TypeOK, Conserved, NEW n \in Nodes, NEW h \in handlers[n], HandlerStep(n, h)
  PROVE  Queues'
<1>1. Goroutines /\ Answers /\ Queues
  BY DEF Conserved
<1>2. \A m \in Nodes : Active(m)' <=> Active(m)
  BY HandlerLeaves DEF Active, clientVars
<1>3. CASE DeferRequest(n, h)
  <2>1. PICK e \in Elem : e = [nodeId |-> h.node, timestamp |-> h.timestamp]
    BY HandlerType, ElemType
  <2>2. ~ Queued(h.node, n) /\ queue' = [queue EXCEPT ![n] = Insert(@, e)] /\ e.nodeId = h.node
    BY <1>1, <1>3, <2>1, DeferStages
  <2> QED
    BY <1>1, <1>2, <2>2, QueuesInsert
<1>4. CASE ~ DeferRequest(n, h)
  <2>1. queue' = queue
    BY <1>4 DEF HandlerStep, CheckOngoing, CompareRequests, LoadAckClock, StoreAckClock, SendAck,
       CountAck, fieldVars
  <2> QED
    BY <1>1, <1>2, <2>1, QueuesFrame
<1> QED
  BY <1>3, <1>4

LEMMA QueuesClient ==
  ASSUME TypeOK, Stamped, Conserved, panic = "none", NEW n \in Nodes,
         AcquireLock(n) \/ ClientStep(n) \/ HandleMsg(n)
  PROVE  Queues'
<1>1. Goroutines /\ Broadcasts /\ Answers /\ Timestamps /\ Queues /\ Deferral /\ HolderInCS
  BY DEF Conserved
<1>2. CASE StampRequest(n)
  <2>1. PICK e \in Elem : e = [nodeId |-> n, timestamp |-> clock[n]]
    BY ElemType DEF TypeOK
  <2>2. ~ Queued(n, n) /\ queue' = [queue EXCEPT ![n] = Insert(@, e)] /\ e.nodeId = n
    BY <1>1, <1>2, <2>1, StampStages
  <2>3. \A m \in Nodes : Active(m)' => Active(m) \/ m = n
    BY <1>2 DEF StampRequest, Go, TypeOK, Active
  <2> QED
    BY <1>1, <2>2, <2>3, QueuesInsert
<1>3. CASE ReleaseLock(n)
  <2>1. queue[n] # << >> /\ queue' = [queue EXCEPT ![n] = Tail(@)]
    BY <1>1, <1>3, ReleaseStages
  <2>2. ~ Active(n)' /\ \A m \in Nodes : Active(m)' => Active(m)
    BY <1>3 DEF ReleaseLock, Go, TypeOK, Active
  <2> QED
    BY <1>1, <2>1, <2>2, QueuesTail
<1>4. CASE ExtractDeferred(n)
  <2>1. queue[n] # << >> /\ queue' = [queue EXCEPT ![n] = Tail(@)]
    BY <1>4 DEF ExtractDeferred
  <2>2. ~ Active(n)' /\ \A m \in Nodes : Active(m)' => Active(m)
    BY <1>4 DEF ExtractDeferred, Go, TypeOK, Active
  <2> QED
    BY <1>1, <2>1, <2>2, QueuesTail
<1>5. CASE ~ StampRequest(n) /\ ~ ReleaseLock(n) /\ ~ ExtractDeferred(n)
  <2>1. queue' = queue
    BY <1>5 DEF AcquireLock, ClientStep, LoadClock, StoreClock, HandleMsg, EnterCS,
       BroadcastRequest, StoreDeferredClock, SendDeferredAck, DrainDone, ClearOngoing, fieldVars
  <2>2. \/ cpc' = cpc
        \/ \E from, to \in {"idle", "load", "store", "stamp", "drain", "ackStore", "ackSend",
                            "clear"} : Go(n, from, to)
        \/ Go(n, "request", "cs")
    BY <1>5 DEF AcquireLock, ClientStep, LoadClock, StoreClock, HandleMsg, EnterCS,
       BroadcastRequest, StoreDeferredClock, SendDeferredAck, DrainDone, ClearOngoing, clientVars
  <2>3. \A m \in Nodes : Active(m)' => Active(m)
    BY <2>2 DEF Go, TypeOK, Active
  <2> QED
    BY <1>1, <2>1, <2>3, QueuesFrame
<1> QED
  BY <1>2, <1>3, <1>4, <1>5

\* The timestamps of the messages, of the handlers and of the elements of the queues.
ListenStamps == \A d \in Nodes : lmsg[d].action = "request" =>
                    lmsg[d].timestamp = lastReqTimestamp[lmsg[d].node]

HandlerStamps == \A d \in Nodes : \A h \in handlers[d] : h.action = "request" =>
                     h.timestamp = lastReqTimestamp[h.node]

QueueStamps == \A d \in Nodes : \A i \in 1..Len(queue[d]) :
                   queue[d][i] = Own(queue[d][i].nodeId) /\ Active(queue[d][i].nodeId)

LEMMA TimestampsParts == Timestamps <=> ListenStamps /\ HandlerStamps /\ QueueStamps
  BY DEF Timestamps, ListenStamps, HandlerStamps, QueueStamps

\* Only ReleaseLock ends a request, and a queue changes by steps of its node.
LEMMA QueueStampsStep ==
  ASSUME TypeOK, QueueStamps, NEW n \in Nodes,
         \/ queue' = queue
         \/ queue[n] # << >> /\ queue' = [queue EXCEPT ![n] = Tail(@)]
         \/ \E e \in Elem : /\ queue' = [queue EXCEPT ![n] = Insert(@, e)]
                            /\ e = Own(e.nodeId)' /\ Active(e.nodeId)',
         \A a, b \in Nodes : Queued(a, b)' =>
            (Own(a)' = Own(a) /\ (Active(a) => Active(a)')) \/ ~ Queued(a, b)
  PROVE  QueueStamps'
<1> SUFFICES ASSUME NEW d \in Nodes, NEW i \in 1..Len(queue'[d])
             PROVE  (queue[d][i] = Own(queue[d][i].nodeId) /\ Active(queue[d][i].nodeId))'
  BY DEF QueueStamps
<1>1. queue'[d] \in Seq(Elem)
  BY InsertType, TailType DEF TypeOK
<1>2. PICK x \in Elem : x = queue'[d][i]
  BY <1>1, ElementOfSeq
<1>3. x.nodeId \in Nodes /\ Queued(x.nodeId, d)'
  BY <1>2 DEF Elem, Queued
<1>4. ASSUME NEW j \in 1..Len(queue[d]), x = queue[d][j]
      PROVE  x = Own(x.nodeId)' /\ Active(x.nodeId)'
  <2>1. Queued(x.nodeId, d)
    BY <1>4 DEF Queued
  <2>2. x = Own(x.nodeId) /\ Active(x.nodeId)
    BY <1>4 DEF QueueStamps
  <2>3. Own(x.nodeId)' = Own(x.nodeId) /\ (Active(x.nodeId) => Active(x.nodeId)')
    BY <1>3, <2>1
  <2> QED
    BY <2>2, <2>3
<1>5. (\E j \in 1..Len(queue[d]) : x = queue[d][j]) \/ (x = Own(x.nodeId)' /\ Active(x.nodeId)')
  <2>1. CASE queue'[d] = queue[d]
    BY <1>2, <2>1
  <2>2. CASE queue[n] # << >> /\ queue' = [queue EXCEPT ![n] = Tail(@)] /\ d = n
    <3>1. queue'[n] = Tail(queue[n])
      BY <2>2 DEF TypeOK
    <3>2. /\ Len(queue[n]) \in Nat /\ Len(Tail(queue[n])) = Len(queue[n]) - 1
          /\ \A k \in 1..Len(queue[n]) - 1 : Tail(queue[n])[k] = queue[n][k + 1]
      BY <2>2, TailElements DEF TypeOK
    <3>3. i \in 1..Len(queue[n]) - 1
      BY <2>2, <3>1, <3>2
    <3>4. i + 1 \in 1..Len(queue[n]) /\ queue'[n][i] = queue[n][i + 1]
      BY <3>1, <3>2, <3>3
    <3> QED
      BY <1>2, <2>2, <3>4
  <2>3. ASSUME NEW e \in Elem, queue' = [queue EXCEPT ![n] = Insert(@, e)], d = n,
               e = Own(e.nodeId)', Active(e.nodeId)'
        PROVE  (\E j \in 1..Len(queue[d]) : x = queue[d][j]) \/ (x = Own(x.nodeId)' /\ Active(x.nodeId)')
    <3>1. PICK q \in Seq(Elem) : q = queue[n]
      BY DEF TypeOK
    <3>2. queue'[n] = Insert(q, e)
      BY <2>3, <3>1 DEF TypeOK
    <3>3. x = e \/ \E j \in 1..Len(q) : x = q[j]
      <4>1. \A k \in 1..Len(Insert(q, e)) : Insert(q, e)[k] = e \/ \E j \in 1..Len(q) : Insert(q, e)[k] = q[j]
        BY Inserted
      <4> QED
        BY <1>2, <2>3, <3>2, <4>1
    <3>4. CASE x = e
      BY <2>3, <3>4
    <3> QED
      BY <2>3, <3>1, <3>3, <3>4
  <2>4. d # n => queue'[d] = queue[d]
    BY DEF TypeOK
  <2> QED
    BY <2>1, <2>2, <2>3, <2>4
<1>6. PICK m \in Nodes : m = x.nodeId
  BY <1>3
<1>7. x = Own(m)' /\ Active(m)'
  BY <1>4, <1>5, <1>6
<1> QED
  BY <1>2, <1>6, <1>7 DEF Own, Active

LEMMA TimestampsStamp ==
  ASSUME TypeOK, Stamped, Conserved, NEW n \in Nodes, StampRequest(n)
  PROVE  Timestamps'
<1>1. Goroutines /\ Broadcasts /\ Answers /\ Timestamps
  BY DEF Conserved
<1>2. lastReqTimestamp' = [lastReqTimestamp EXCEPT ![n] = clock[n]] /\ UNCHANGED <<lmsg, handlers>>
      /\ cpc' = [cpc EXCEPT ![n] = "request"]
  BY DEF StampRequest, Go, listenVars
<1>3. \A b \in Nodes : b # n => Stages(n, b) = {}
  BY <1>1, <1>2, StampStages
<1>4. ASSUME NEW b \in Nodes PROVE ~ Listening(n, b) /\ ~ Handled(n, b) /\ ~ Queued(n, b)
  <2>1. CASE b = n
    <3>1. ~ Queued(n, n)
      BY <1>1, StampStages
    <3>2. ~ Listening(n, n) /\ ~ Handled(n, n)
      BY <1>1 DEF Goroutines, Listening, Handled, Nothing
    <3> QED
      BY <2>1, <3>1, <3>2
  <2>2. CASE b # n
    BY <1>3, <2>2, StageOf
  <2> QED
    BY <2>1, <2>2
<1>5. \A a \in Nodes : a # n => lastReqTimestamp'[a] = lastReqTimestamp[a]
  BY <1>2 DEF TypeOK
<1>6. ListenStamps'
  <2> SUFFICES ASSUME NEW d \in Nodes, lmsg[d].action = "request"
               PROVE  lmsg[d].timestamp = lastReqTimestamp'[lmsg[d].node]
    BY <1>2 DEF ListenStamps
  <2>1. lmsg[d] \in Message
    BY DEF TypeOK, Nothing
  <2>2. lmsg[d].node \in Nodes /\ lmsg[d].node # n
    BY <1>4, <2>1 DEF Listening, Message
  <2> QED
    BY <1>1, <1>5, <2>2 DEF Timestamps
<1>7. HandlerStamps'
  <2> SUFFICES ASSUME NEW d \in Nodes, NEW h \in handlers[d], h.action = "request"
               PROVE  h.timestamp = lastReqTimestamp'[h.node]
    BY <1>2 DEF HandlerStamps
  <2>1. h.node \in Nodes /\ h.node # n
    BY <1>4, HandlerType DEF Handled
  <2> QED
    BY <1>1, <1>5, <2>1 DEF Timestamps
<1>8. QueueStamps'
  <2>1. PICK e \in Elem : e = [nodeId |-> n, timestamp |-> clock[n]]
    BY ElemType DEF TypeOK
  <2>2. queue' = [queue EXCEPT ![n] = Insert(@, e)]
    BY <1>1, <2>1, StampStages
  <2>3. e = Own(n)' /\ e.nodeId = n /\ Active(n)'
    BY <1>2, <2>1 DEF Own, Active, TypeOK
  <2>4. \A a, b \in Nodes : Queued(a, b)' =>
            (Own(a)' = Own(a) /\ (Active(a) => Active(a)')) \/ ~ Queued(a, b)
    BY <1>2, <1>4, <1>5 DEF Own, Active, TypeOK
  <2>5. \E f \in Elem : /\ queue' = [queue EXCEPT ![n] = Insert(@, f)]
                        /\ f = Own(f.nodeId)' /\ Active(f.nodeId)'
    BY <2>2, <2>3 DEF Own, Active
  <2> QED
    BY <1>1, <2>4, <2>5, QueueStampsStep, TimestampsParts
<1> QED
  BY <1>6, <1>7, <1>8 DEF Timestamps, ListenStamps, HandlerStamps, QueueStamps

\* The other steps keep all timestamps.
LEMMA ListenStampsStep ==
  ASSUME TypeOK, Timestamps, lastReqTimestamp' = lastReqTimestamp,
         \/ lmsg' = lmsg
         \/ \E n \in Nodes : lmsg' = [lmsg EXCEPT ![n] = Nothing]
         \/ \E n, d \in Nodes : \E t : Send(n, d, "ack", t)
         \/ \E n, d \in Nodes : Send(n, d, "request", lastReqTimestamp[n])
  PROVE  ListenStamps'
<1> SUFFICES ASSUME NEW d \in Nodes, lmsg'[d].action = "request"
             PROVE  lmsg'[d].timestamp = lastReqTimestamp[lmsg'[d].node]
  BY DEF ListenStamps
<1>1. ListenStamps
  BY TimestampsParts
<1>2. CASE lmsg' = lmsg
  BY <1>1, <1>2 DEF ListenStamps
<1>3. ASSUME NEW n \in Nodes, lmsg' = [lmsg EXCEPT ![n] = Nothing]
      PROVE  lmsg'[d].timestamp = lastReqTimestamp[lmsg'[d].node]
  BY <1>1, <1>3 DEF ListenStamps, Nothing, TypeOK
<1>4. ASSUME NEW n \in Nodes, NEW e \in Nodes, NEW t, Send(n, e, "ack", t)
      PROVE  lmsg'[d].timestamp = lastReqTimestamp[lmsg'[d].node]
  BY <1>1, <1>4 DEF Send, ListenStamps, TypeOK
<1>5. ASSUME NEW n \in Nodes, NEW e \in Nodes, Send(n, e, "request", lastReqTimestamp[n])
      PROVE  lmsg'[d].timestamp = lastReqTimestamp[lmsg'[d].node]
  BY <1>1, <1>5 DEF Send, ListenStamps, TypeOK
<1> QED
  BY <1>2, <1>3, <1>4, <1>5

LEMMA HandlerStampsStep ==
  ASSUME TypeOK, Timestamps, lastReqTimestamp' = lastReqTimestamp, NEW n \in Nodes,
         \/ handlers' = handlers
         \/ \E h \in handlers[n] : Finish(n, h) \/ \E k : HandlerMoves(n, h, k)
         \/ HandleMsg(n)
  PROVE  HandlerStamps'
<1> SUFFICES ASSUME NEW d \in Nodes, NEW x \in handlers'[d], x.action = "request"
             PROVE  x.timestamp = lastReqTimestamp[x.node]
  BY DEF HandlerStamps
<1>1. \A i \in Nodes : \A h \in handlers[i] : h.action = "request" => h.timestamp = lastReqTimestamp[h.node]
  BY DEF Timestamps
<1>2. CASE handlers' = handlers
  BY <1>1, <1>2
<1>3. ASSUME NEW h \in handlers[n], Finish(n, h) PROVE x.timestamp = lastReqTimestamp[x.node]
  BY <1>1, <1>3 DEF Finish, TypeOK
<1>4. ASSUME NEW h \in handlers[n], NEW k, HandlerMoves(n, h, k)
      PROVE  x.timestamp = lastReqTimestamp[x.node]
  <2>1. x \in handlers[d] \/ (x = k /\ d = n)
    BY <1>4 DEF HandlerMoves, Become, TypeOK
  <2>2. CASE x \in handlers[d]
    BY <1>1, <2>2
  <2>3. CASE x = k /\ d = n
    <3>1. h.action = "request" /\ x.node = h.node /\ x.timestamp = h.timestamp
      BY <1>4, <2>3 DEF HandlerMoves
    <3> QED
      BY <1>1, <3>1
  <2> QED
    BY <2>1, <2>2, <2>3
<1>5. CASE HandleMsg(n)
  <2> DEFINE k == [action |-> lmsg[n].action, node |-> lmsg[n].node,
                   timestamp |-> lmsg[n].timestamp, pc |-> "check", reg |-> 0]
  <2>1. x \in handlers[d] \/ x = k
    BY <1>5 DEF HandleMsg, TypeOK
  <2>2. CASE x \in handlers[d]
    BY <1>1, <2>2
  <2>3. CASE x = k
    BY <2>3 DEF Timestamps
  <2> QED
    BY <2>1, <2>2, <2>3
<1> QED
  BY <1>2, <1>3, <1>4, <1>5

LEMMA TimestampsHandler ==
  ASSUME TypeOK, Conserved, NEW n \in Nodes, NEW h \in handlers[n], HandlerStep(n, h)
  PROVE  Timestamps'
<1>1. Goroutines /\ Answers /\ Timestamps
  BY DEF Conserved
<1>2. UNCHANGED <<lastReqTimestamp, cpc>>
  BY HandlerLeaves DEF clientVars
<1>3. h \in Handler /\ h.node \in Nodes
  BY HandlerType
<1>4. Finish(n, h) \/ \E k : HandlerMoves(n, h, k)
  <2>1. CASE CheckOngoing(n, h)
    BY <1>1, <2>1, CheckMoves
  <2>2. CASE CompareRequests(n, h) \/ LoadAckClock(n, h) \/ StoreAckClock(n, h)
    BY <1>3, <2>2, ComparesOrLoads
  <2>3. CASE DeferRequest(n, h) \/ SendAck(n, h) \/ CountAck(n, h)
    BY <2>3 DEF DeferRequest, SendAck, CountAck
  <2> QED
    BY <2>1, <2>2, <2>3 DEF HandlerStep
<1>5. HandlerStamps'
  BY <1>1, <1>2, <1>4, HandlerStampsStep
<1>6. ListenStamps'
  <2>1. lmsg' = lmsg \/ \E d \in Nodes : \E t : Send(n, d, "ack", t)
    BY <1>3 DEF HandlerStep, CheckOngoing, CompareRequests, DeferRequest, LoadAckClock,
       StoreAckClock, SendAck, CountAck, listenVars
  <2> QED
    BY <1>1, <1>2, <2>1, ListenStampsStep
<1>7. QueueStamps'
  <2>1. \A a, b \in Nodes : Queued(a, b)' =>
            (Own(a)' = Own(a) /\ (Active(a) => Active(a)')) \/ ~ Queued(a, b)
    BY <1>2 DEF Own, Active
  <2>2. CASE DeferRequest(n, h)
    <3>1. PICK e \in Elem : e = [nodeId |-> h.node, timestamp |-> h.timestamp]
      BY HandlerType, ElemType
    <3>2. h.action = "request" /\ queue' = [queue EXCEPT ![n] = Insert(@, e)]
      BY <1>1, <2>2, <3>1, DeferStages
    <3>3. cpc[h.node] = "request" /\ h.timestamp = lastReqTimestamp[h.node]
      BY <1>1, <3>2, RequestIsOngoing DEF Timestamps
    <3>4. e.nodeId = h.node /\ e = Own(h.node)' /\ Active(h.node)'
      BY <1>2, <3>1, <3>3 DEF Own, Active
    <3>5. \E f \in Elem : /\ queue' = [queue EXCEPT ![n] = Insert(@, f)]
                          /\ f = Own(f.nodeId)' /\ Active(f.nodeId)'
      BY <3>2, <3>4
    <3> QED
      BY <1>1, <2>1, <3>5, QueueStampsStep, TimestampsParts
  <2>3. CASE ~ DeferRequest(n, h)
    <3>1. queue' = queue
      BY <2>3 DEF HandlerStep, CheckOngoing, CompareRequests, LoadAckClock, StoreAckClock, SendAck,
         CountAck, fieldVars
    <3> QED
      BY <1>1, <2>1, <3>1, QueueStampsStep, TimestampsParts
  <2> QED
    BY <2>2, <2>3
<1> QED
  BY <1>5, <1>6, <1>7 DEF Timestamps, ListenStamps, HandlerStamps, QueueStamps

LEMMA TimestampsClient ==
  ASSUME TypeOK, Stamped, Conserved, panic = "none", NEW n \in Nodes,
         AcquireLock(n) \/ ClientStep(n) \/ HandleMsg(n)
  PROVE  Timestamps'
<1>1. Goroutines /\ Broadcasts /\ Answers /\ Timestamps /\ Queues /\ Deferral /\ HolderInCS
  BY DEF Conserved
<1>2. CASE StampRequest(n)
  BY <1>2, TimestampsStamp
<1>3. CASE ~ StampRequest(n)
  <2>1. lastReqTimestamp' = lastReqTimestamp
    BY <1>3 DEF AcquireLock, ClientStep, HandleMsg, LoadClock, StoreClock, EnterCS,
       BroadcastRequest, ReleaseLock, ExtractDeferred, StoreDeferredClock, SendDeferredAck,
       DrainDone, ClearOngoing, fieldVars
  <2>2. ListenStamps'
    <3>1. \/ lmsg' = lmsg
          \/ lmsg' = [lmsg EXCEPT ![n] = Nothing]
          \/ \E d \in Nodes : \E t : Send(n, d, "ack", t)
          \/ \E d \in Nodes : Send(n, d, "request", lastReqTimestamp[n])
      BY <1>3 DEF AcquireLock, ClientStep, HandleMsg, LoadClock, StoreClock, EnterCS,
         BroadcastRequest, ReleaseLock, ExtractDeferred, StoreDeferredClock, SendDeferredAck,
         DrainDone, ClearOngoing, listenVars
    <3> QED
      BY <1>1, <2>1, <3>1, ListenStampsStep
  <2>3. HandlerStamps'
    <3>1. handlers' = handlers \/ HandleMsg(n)
      BY <1>3 DEF AcquireLock, ClientStep, LoadClock, StoreClock, EnterCS,
         BroadcastRequest, ReleaseLock, ExtractDeferred, StoreDeferredClock, SendDeferredAck,
         DrainDone, ClearOngoing
    <3> QED
      BY <1>1, <2>1, <3>1, HandlerStampsStep
  <2>4. QueueStamps'
    <3>1. CASE ReleaseLock(n)
      <4>1. queue[n] # << >> /\ queue' = [queue EXCEPT ![n] = Tail(@)] /\ Peek(queue[n]) = n
        BY <1>1, <3>1, ReleaseStages
      <4>2. \A a, b \in Nodes : Queued(a, b)' <=> Queued(a, b) /\ ~(a = n /\ b = n)
        BY <1>1, <4>1, QueuedTail
      <4>3. cpc[n] = "cs" /\ cpc' = [cpc EXCEPT ![n] = "drain"]
        BY <3>1 DEF ReleaseLock, Go
      <4>4. \A b \in Nodes : b # n => ~ Queued(n, b)
        BY <1>1, <4>3, StageOf DEF Answers
      <4>5. \A a, b \in Nodes : Queued(a, b)' => a # n
        BY <4>2, <4>4
      <4>6. \A a \in Nodes : a # n => Own(a)' = Own(a) /\ (Active(a) => Active(a)')
        BY <2>1, <4>3 DEF Own, Active, TypeOK
      <4> QED
        BY <1>1, <4>1, <4>5, <4>6, QueueStampsStep, TimestampsParts
    <3>2. CASE ~ ReleaseLock(n)
      <4>1. queue' = queue \/ (queue[n] # << >> /\ queue' = [queue EXCEPT ![n] = Tail(@)])
        BY <1>3, <3>2 DEF AcquireLock, ClientStep, HandleMsg, LoadClock, StoreClock, EnterCS,
           BroadcastRequest, ExtractDeferred, StoreDeferredClock, SendDeferredAck,
           DrainDone, ClearOngoing, fieldVars
      <4>2. \/ cpc' = cpc
            \/ \E from, to \in {"idle", "load", "store", "stamp", "drain", "ackStore", "ackSend",
                                "clear"} : Go(n, from, to)
            \/ Go(n, "request", "cs")
        BY <1>3, <3>2 DEF AcquireLock, ClientStep, HandleMsg, LoadClock, StoreClock, EnterCS,
           BroadcastRequest, ExtractDeferred, StoreDeferredClock, SendDeferredAck,
           DrainDone, ClearOngoing, clientVars
      <4>3. \A a \in Nodes : Own(a)' = Own(a) /\ (Active(a) => Active(a)')
        BY <2>1, <4>2 DEF Own, Active, Go, TypeOK
      <4> QED
        BY <1>1, <4>1, <4>3, QueueStampsStep, TimestampsParts
    <3> QED
      BY <3>1, <3>2
  <2> QED
    BY <2>2, <2>3, <2>4 DEF Timestamps, ListenStamps, HandlerStamps, QueueStamps
<1> QED
  BY <1>2, <1>3

-----------------------------------------------------------------------------
(***************************************************************************)
(* Who has granted a request, and who defers it.                           *)
(***************************************************************************)

Waits == {"check", "compare", "insert"}

LEMMA HeldStage ==
  ASSUME TypeOK, Answers, NEW n \in Nodes, NEW d \in Nodes, n # d, Held(n, d) \/ Deferring(d, n)
  PROVE  Stages(n, d) # {} /\ cpc[n] = "request"
<1>1. Unsent(n, d) \/ Listening(n, d) \/ Handled(n, d) \/ Queued(n, d)
  BY DEF Held, Deferring, AtHandler, Handled
<1>2. Stages(n, d) # {}
  BY <1>1, StageOf
<1> QED
  BY <1>2 DEF Answers

LEMMA BeforeTotal ==
  ASSUME TypeOK, NEW n \in Nodes, NEW d \in Nodes, n # d
  PROVE  Before(Own(n), Own(d)) <=> ~ Before(Own(d), Own(n))
<1>1. lastReqTimestamp[n] \in Nat \cup {-1} /\ lastReqTimestamp[d] \in Nat \cup {-1}
  BY DEF TypeOK
<1>2. n \in Nat /\ d \in Nat
  BY NodesAssumption
<1>3. lastReqTimestamp[n] \in Int /\ lastReqTimestamp[d] \in Int
  BY <1>1
<1> QED
  BY <1>2, <1>3 DEF Before, Own

\* A handler stops waiting only by its own step.
LEMMA WaitEnds ==
  ASSUME TypeOK, NEW i \in Nodes, NEW h \in handlers[i],
         Finish(i, h) \/ \E k : HandlerMoves(i, h, k),
         NEW n \in Nodes, NEW d \in Nodes, NEW pcs, AtHandler(n, d, pcs), ~ AtHandler(n, d, pcs)'
  PROVE  /\ d = i /\ h.action = "request" /\ h.node = n /\ h.pc \in pcs
         /\ \A k : HandlerMoves(i, h, k) => k.pc \notin pcs
<1>1. PICK x \in handlers[d] : x.action = "request" /\ x.node = n /\ x.pc \in pcs
  BY DEF AtHandler
<1>2. x \notin handlers'[d]
  BY <1>1 DEF AtHandler
<1>3. d = i /\ x = h
  <2>1. handlers \in [Nodes -> SUBSET Handler]
    BY DEF TypeOK
  <2>2. d = i
    BY <1>1, <1>2, <2>1 DEF Finish, HandlerMoves, Become
  <2>3. handlers[i] \ {h} \subseteq handlers'[i]
    BY <2>1 DEF Finish, HandlerMoves, Become
  <2> QED
    BY <1>1, <1>2, <2>2, <2>3
<1>4. ASSUME NEW k, HandlerMoves(i, h, k), k.pc \in pcs PROVE FALSE
  <2>1. k \in handlers'[i] /\ k.action = "request" /\ k.node = n
    BY <1>1, <1>3, <1>4 DEF HandlerMoves, Become, TypeOK
  <2> QED
    BY <1>3, <1>4, <2>1 DEF AtHandler
<1> QED
  BY <1>1, <1>3, <1>4

\* Only a step of the listener or of a handler changes where the handlers are.
LEMMA WaitStays ==
  ASSUME handlers' = handlers, NEW n \in Nodes, NEW d \in Nodes, NEW pcs
  PROVE  AtHandler(n, d, pcs)' <=> AtHandler(n, d, pcs)
  BY DEF AtHandler

LEMMA HeldByHandler ==
  ASSUME TypeOK, Stamped, Conserved, NEW i \in Nodes, NEW h \in handlers[i], HandlerStep(i, h),
         NEW n \in Nodes, NEW d \in Nodes, n # d, Held(n, d), ~ Held(n, d)'
  PROVE  cpc[d] = "idle" \/ Before(Own(n), Own(d))
<1>1. Goroutines /\ Answers /\ Timestamps
  BY DEF Conserved
<1>2. UNCHANGED <<cpc, unsent>> /\ h \in Handler /\ h.node \in Nodes
      /\ h.action \in {"request", "ack"} /\ h.pc \in PlacesOf(h.action)
  BY <1>1, HandlerLeaves, HandlerType DEF clientVars, Goroutines
<1>3. Unsent(n, d)' <=> Unsent(n, d)
  BY <1>2 DEF Unsent
<1>4. Listening(n, d) => Listening(n, d)'
  <2>1. lmsg' = lmsg \/ \E t : Send(i, h.node, "ack", t)
    BY DEF HandlerStep, CheckOngoing, CompareRequests, DeferRequest, LoadAckClock,
       StoreAckClock, SendAck, CountAck, listenVars
  <2> QED
    BY <1>2, <2>1, SendListens DEF Listening
<1>5. \A a, b \in Nodes : Queued(a, b) => Queued(a, b)'
  <2>1. CASE DeferRequest(i, h)
    <3>1. PICK e \in Elem : e = [nodeId |-> h.node, timestamp |-> h.timestamp]
      BY HandlerType, ElemType
    <3> QED
      BY <1>1, <2>1, <3>1, DeferStages, QueuedInsert
  <2>2. CASE ~ DeferRequest(i, h)
    BY <2>2 DEF HandlerStep, CheckOngoing, CompareRequests, LoadAckClock,
       StoreAckClock, SendAck, CountAck, fieldVars, Queued
  <2> QED
    BY <2>1, <2>2
<1>6. AtHandler(n, d, Waits) /\ ~ AtHandler(n, d, Waits)' /\ ~ Queued(n, d)'
  BY <1>3, <1>4, <1>5 DEF Held, Waits
<1>7. Finish(i, h) \/ \E k : HandlerMoves(i, h, k)
  <2>1. CASE CheckOngoing(i, h)
    BY <1>1, <2>1, CheckMoves
  <2>2. CASE CompareRequests(i, h) \/ LoadAckClock(i, h) \/ StoreAckClock(i, h)
    BY <1>2, <2>2, ComparesOrLoads
  <2>3. CASE DeferRequest(i, h) \/ SendAck(i, h) \/ CountAck(i, h)
    BY <2>3 DEF DeferRequest, SendAck, CountAck
  <2> QED
    BY <2>1, <2>2, <2>3 DEF HandlerStep
<1>8. /\ d = i /\ h.action = "request" /\ h.node = n /\ h.pc \in Waits
      /\ \A k : HandlerMoves(i, h, k) => k.pc \notin Waits
  BY <1>6, <1>7, WaitEnds
<1>9. CASE CheckOngoing(i, h)
  <2>1. PICK pc \in {"compare", "load", "count"} :
           /\ HandlerMoves(i, h, [h EXCEPT !.pc = pc])
           /\ h.action = "request" => pc = IF hasOngoingReq[i] THEN "compare" ELSE "load"
    BY <1>1, <1>9, CheckMoves
  <2>2. [h EXCEPT !.pc = pc].pc = pc
    BY <1>2 DEF Handler
  <2>3. ~ hasOngoingReq[i]
    BY <1>8, <2>1, <2>2 DEF Waits
  <2> QED
    BY <1>1, <1>8, <2>3 DEF Goroutines
<1>10. CASE CompareRequests(i, h)
  <2>1. [h EXCEPT !.pc = "insert"].pc = "insert"
        /\ [h EXCEPT !.pc = "insert"].action = h.action
        /\ [h EXCEPT !.pc = "insert"].node = h.node
        /\ [h EXCEPT !.pc = "insert"].timestamp = h.timestamp
    BY <1>2 DEF Handler
  <2>2. ~ HandlerMoves(i, h, [h EXCEPT !.pc = "insert"])
    BY <1>8, <2>1 DEF Waits
  <2>3. ~ OursIsEarlier(i, h)
    BY <1>10, <2>1, <2>2, Zenon DEF CompareRequests, HandlerMoves
  <2>4. h.timestamp = lastReqTimestamp[n]
    BY <1>1, <1>8 DEF Timestamps
  <2>5. ~ Before(Own(d), Own(n))
    BY <1>8, <2>3, <2>4 DEF OursIsEarlier, Before, Own
  <2> QED
    BY <2>5, BeforeTotal
<1>11. CASE DeferRequest(i, h)
  <2>1. PICK e \in Elem : e = [nodeId |-> h.node, timestamp |-> h.timestamp]
    BY HandlerType, ElemType
  <2>2. e.nodeId = n /\ queue' = [queue EXCEPT ![i] = Insert(@, e)]
    BY <1>1, <1>8, <1>11, <2>1, DeferStages
  <2>3. Queued(n, d)'
    BY <1>8, <2>2, QueuedInsert
  <2> QED
    BY <1>6, <2>3
<1>12. CASE LoadAckClock(i, h) \/ StoreAckClock(i, h) \/ SendAck(i, h) \/ CountAck(i, h)
  BY <1>8, <1>12 DEF LoadAckClock, StoreAckClock, SendAck, CountAck, Waits
<1> QED
  BY <1>9, <1>10, <1>11, <1>12 DEF HandlerStep

LEMMA HeldByClient ==
  ASSUME TypeOK, Stamped, Conserved, panic = "none", NEW i \in Nodes,
         AcquireLock(i) \/ ClientStep(i) \/ HandleMsg(i),
         NEW n \in Nodes, NEW d \in Nodes, n # d, Held(n, d), ~ Held(n, d)'
  PROVE  ExtractDeferred(d) /\ cpc[d] = "drain"
<1>1. Goroutines /\ Broadcasts /\ Answers /\ Timestamps /\ Queues /\ Deferral /\ HolderInCS
  BY DEF Conserved
<1>2. cpc[n] = "request" /\ Stages(n, d) # {}
  BY <1>1, HeldStage
<1>3. ASSUME lmsg' = lmsg, handlers' = handlers, QueuedSame, ClientSame
      PROVE  FALSE
  <2>1. Listening(n, d)' <=> Listening(n, d)
    BY <1>3 DEF Listening
  <2>2. AtHandler(n, d, Waits)' <=> AtHandler(n, d, Waits)
    BY <1>3 DEF AtHandler
  <2> QED
    BY <1>3, <2>1, <2>2 DEF Held, Waits, QueuedSame, ClientSame
<1>4. CASE \/ AcquireLock(i) \/ LoadClock(i) \/ StoreClock(i) \/ EnterCS(i)
           \/ StoreDeferredClock(i) \/ DrainDone(i) \/ ClearOngoing(i)
  <2>1. UNCHANGED <<lmsg, handlers, queue>>
    BY <1>4 DEF AcquireLock, LoadClock, StoreClock, EnterCS, StoreDeferredClock,
       DrainDone, ClearOngoing, listenVars, fieldVars
  <2>2. ClientSame
    <3>1. unsent' = unsent
      BY <1>4 DEF AcquireLock, LoadClock, StoreClock, EnterCS, StoreDeferredClock,
         DrainDone, ClearOngoing
    <3> QED
      BY <1>1, <1>4, <3>1, ClientMoves DEF AcquireLock, LoadClock, StoreClock, EnterCS,
         StoreDeferredClock, DrainDone, ClearOngoing
  <2> QED
    BY <1>3, <2>1, <2>2, QueuedFrame
<1>5. CASE StampRequest(i)
  <2>1. PICK e \in Elem : e = [nodeId |-> i, timestamp |-> clock[i]]
    BY ElemType DEF TypeOK
  <2>2. \A a, b \in Nodes : Queued(a, b) => Queued(a, b)'
    BY <1>1, <1>5, <2>1, StampStages, QueuedInsert
  <2>3. i # n /\ UNCHANGED <<lmsg, handlers>>
    BY <1>2, <1>5 DEF StampRequest, Go, listenVars
  <2>4. Unsent(n, d)' <=> Unsent(n, d)
    BY <1>5, <2>3 DEF StampRequest, Go, TypeOK, Unsent
  <2> QED
    BY <2>2, <2>3, <2>4, WaitStays DEF Held, Listening
<1>6. ASSUME NEW b \in Nodes, BroadcastRequest(i, b) PROVE FALSE
  <2>1. /\ \A x, y \in Nodes : Listening(x, y)' <=> Listening(x, y) \/ (x = i /\ y = b)
        /\ handlers' = handlers /\ queue' = queue
    BY <1>6, SendListens DEF BroadcastRequest, fieldVars
  <2>2. Unsent(n, d)' <=> Unsent(n, d) /\ ~(n = i /\ d = b)
    BY <1>6 DEF BroadcastRequest, TypeOK, Unsent
  <2> QED
    BY <2>1, <2>2, WaitStays, QueuedFrame DEF Held, QueuedSame
<1>7. CASE ReleaseLock(i)
  <2>1. UNCHANGED <<lmsg, handlers>>
    BY <1>7 DEF ReleaseLock, listenVars
  <2>2. ClientSame
    BY <1>1, <1>7, ClientMoves DEF ReleaseLock
  <2>3. queue[i] # << >> /\ i = Peek(queue[i]) /\ queue' = [queue EXCEPT ![i] = Tail(@)]
    BY <1>1, <1>7, ReleaseStages
  <2>4. QueuedSame
    BY <1>1, <2>3, QueuedTail DEF QueuedSame
  <2> QED
    BY <1>3, <2>1, <2>2, <2>4
<1>8. CASE ExtractDeferred(i)
  <2>1. UNCHANGED <<lmsg, handlers>>
    BY <1>8 DEF ExtractDeferred, listenVars
  <2>2. PICK m \in Nodes : m = Peek(queue[i]) /\ m # i /\ unsent' = [unsent EXCEPT ![i] = {m}]
    BY <1>1, <1>8, ExtractStages
  <2>3. \A a, b \in Nodes : Queued(a, b)' <=> Queued(a, b) /\ ~(a = m /\ b = i)
    BY <1>1, <1>8, <2>2, QueuedTail DEF ExtractDeferred
  <2>4. cpc[i] = "drain" /\ cpc' = [cpc EXCEPT ![i] = "ackStore"]
    BY <1>8 DEF ExtractDeferred, Go
  <2>5. Unsent(n, d)' <=> Unsent(n, d)
    BY <2>2, <2>4 DEF TypeOK, Unsent
  <2>6. d = i
    BY <2>1, <2>3, <2>5, WaitStays DEF Held, Listening
  <2> QED
    BY <1>8, <2>4, <2>6
<1>9. ASSUME NEW b \in Nodes, SendDeferredAck(i, b) PROVE FALSE
  <2>1. /\ \A x, y \in Nodes : Listening(x, y)' <=> Listening(x, y)
        /\ handlers' = handlers /\ queue' = queue
    BY <1>9, SendListens DEF SendDeferredAck, fieldVars
  <2>2. Unsent(n, d)' <=> Unsent(n, d)
    BY <1>9 DEF SendDeferredAck, Go, TypeOK, Unsent
  <2> QED
    BY <2>1, <2>2, WaitStays, QueuedFrame DEF Held, QueuedSame
<1>10. CASE HandleMsg(i)
  <2>1. UNCHANGED <<cpc, unsent, queue>>
    BY <1>10 DEF HandleMsg, clientVars, fieldVars
  <2> DEFINE h == [action |-> lmsg[i].action, node |-> lmsg[i].node, timestamp |-> lmsg[i].timestamp,
                   pc |-> "check", reg |-> 0]
  <2>2. /\ \A b \in Nodes : handlers[b] \subseteq handlers'[b]
        /\ h \in handlers'[i]
        /\ \A b \in Nodes : b # i => lmsg'[b] = lmsg[b]
    BY <1>10 DEF HandleMsg, TypeOK
  <2>3. h.action = lmsg[i].action /\ h.node = lmsg[i].node /\ h.pc = "check"
    OBVIOUS
  <2> HIDE DEF h
  <2>4. AtHandler(n, d, Waits) => AtHandler(n, d, Waits)'
    BY <2>2 DEF AtHandler
  <2>5. Listening(n, d) => Listening(n, d)' \/ AtHandler(n, d, Waits)'
    BY <2>2, <2>3 DEF Listening, AtHandler, Waits
  <2>6. (Unsent(n, d)' <=> Unsent(n, d)) /\ (Queued(n, d)' <=> Queued(n, d))
    BY <2>1 DEF Unsent, Queued
  <2> QED
    BY <2>4, <2>5, <2>6 DEF Held, Waits
<1> QED
  BY <1>4, <1>5, <1>6, <1>7, <1>8, <1>9, <1>10 DEF ClientStep

\* A handler comes to insert only from a comparison that its node wins.
LEMMA InsertBegins ==
  ASSUME TypeOK, Conserved, NEW i \in Nodes, NEW h \in handlers[i], HandlerStep(i, h),
         NEW n \in Nodes, NEW d \in Nodes,
         AtHandler(n, d, {"insert"})', ~ AtHandler(n, d, {"insert"})
  PROVE  d = i /\ h.action = "request" /\ h.node = n /\ OursIsEarlier(i, h)
<1>1. Goroutines /\ Answers /\ h \in Handler
  BY HandlerType DEF Conserved
<1>2. PICK x \in handlers'[d] : x.action = "request" /\ x.node = n /\ x.pc = "insert"
  BY DEF AtHandler
<1>3. x \notin handlers[d]
  BY <1>2 DEF AtHandler
<1>4. ASSUME NEW k, HandlerMoves(i, h, k) PROVE d = i /\ x = k
  <2>1. handlers \in [Nodes -> SUBSET Handler]
    BY DEF TypeOK
  <2>2. d = i
    BY <1>2, <1>3, <1>4, <2>1 DEF HandlerMoves, Become
  <2>3. handlers'[i] \subseteq handlers[i] \cup {k}
    BY <1>4, <2>1 DEF HandlerMoves, Become
  <2> QED
    BY <1>2, <1>3, <2>2, <2>3
<1>5. CASE CheckOngoing(i, h)
  <2>1. PICK pc \in {"compare", "load", "count"} : HandlerMoves(i, h, [h EXCEPT !.pc = pc])
    BY <1>1, <1>5, CheckMoves
  <2>2. [h EXCEPT !.pc = pc].pc = pc
    BY <1>1 DEF Handler
  <2> QED
    BY <1>2, <1>4, <2>1, <2>2
<1>6. CASE CompareRequests(i, h)
  <2>1. PICK pc \in {"insert", "load"} : /\ HandlerMoves(i, h, [h EXCEPT !.pc = pc])
                                         /\ pc = IF OursIsEarlier(i, h) THEN "insert" ELSE "load"
    <3>1. \A pc : /\ [h EXCEPT !.pc = pc].action = h.action
                  /\ [h EXCEPT !.pc = pc].node = h.node
                  /\ [h EXCEPT !.pc = pc].timestamp = h.timestamp
      BY <1>1 DEF Handler
    <3> QED
      BY <1>6, <3>1 DEF CompareRequests, HandlerMoves
  <2>2. [h EXCEPT !.pc = pc].pc = pc /\ [h EXCEPT !.pc = pc].action = h.action
        /\ [h EXCEPT !.pc = pc].node = h.node
    BY <1>1 DEF Handler
  <2> QED
    BY <1>2, <1>4, <2>1, <2>2
<1>7. CASE LoadAckClock(i, h) \/ StoreAckClock(i, h)
  <2>1. PICK k \in Handler : HandlerMoves(i, h, k) /\ k.pc \in {"store", "send"}
    <3>1. CASE LoadAckClock(i, h)
      <4>1. [h EXCEPT !.pc = "store", !.reg = clock[i]] \in Handler
            /\ [h EXCEPT !.pc = "store", !.reg = clock[i]].pc = "store"
        BY <1>1 DEF Handler, TypeOK
      <4> QED
        BY <1>1, <3>1, <4>1, ComparesOrLoads
    <3>2. CASE StoreAckClock(i, h)
      <4>1. h.reg + 1 \in Nat
        BY <1>1 DEF Handler
      <4>2. [h EXCEPT !.pc = "send", !.reg = h.reg + 1] \in Handler
            /\ [h EXCEPT !.pc = "send", !.reg = h.reg + 1].pc = "send"
        BY <1>1, <4>1 DEF Handler
      <4> QED
        BY <1>1, <3>2, <4>2, ComparesOrLoads
    <3> QED
      BY <1>7, <3>1, <3>2
  <2> QED
    BY <1>2, <1>4, <2>1
<1>8. CASE DeferRequest(i, h) \/ SendAck(i, h) \/ CountAck(i, h)
  <2>1. handlers' = [handlers EXCEPT ![i] = @ \ {h}]
    BY <1>8 DEF DeferRequest, SendAck, CountAck, Finish
  <2> QED
    BY <1>2, <1>3, <2>1 DEF TypeOK
<1> QED
  BY <1>5, <1>6, <1>7, <1>8 DEF HandlerStep

LEMMA DeferralHandler ==
  ASSUME TypeOK, Stamped, Conserved, NEW i \in Nodes, NEW h \in handlers[i], HandlerStep(i, h)
  PROVE  Deferral'
<1>1. Goroutines /\ Answers /\ Timestamps /\ Deferral
  BY DEF Conserved
<1>2. UNCHANGED <<cpc, lastReqTimestamp>>
  BY HandlerLeaves DEF clientVars
<1> SUFFICES ASSUME NEW d \in Nodes, NEW n \in Nodes, n # d, Deferring(d, n)'
             PROVE  /\ cpc'[d] = "request" /\ Before(Own(n)', Own(d)') => Held(d, n)'
                    /\ cpc'[d] = "cs" => Before(Own(d)', Own(n)')
  BY DEF Deferral, Before
<1>3. Own(n)' = Own(n) /\ Own(d)' = Own(d)
  BY <1>2 DEF Own
<1>4. CASE Deferring(d, n)
  <2>1. Active(n)
    BY <1>1, <1>4, HeldStage DEF Active
  <2>2. cpc[d] = "cs" => Before(Own(d), Own(n))
    BY <1>1, <1>4 DEF Deferral
  <2>3. ASSUME cpc[d] = "request", Before(Own(n), Own(d)) PROVE Held(d, n)'
    <3>1. Held(d, n)
      BY <1>1, <1>4, <2>3 DEF Deferral
    <3>2. ~ Before(Own(d), Own(n))
      BY <2>3, BeforeTotal
    <3> QED
      BY <2>1, <3>1, <3>2, HeldByHandler DEF Active
  <2> QED
    BY <1>2, <1>3, <2>2, <2>3
<1>5. CASE ~ Deferring(d, n)
  <2>1. Queued(n, d)' => Queued(n, d) \/ AtHandler(n, d, {"insert"})
    <3>1. CASE DeferRequest(i, h)
      <4>1. h.pc = "insert" /\ h.action = "request"
        BY <1>1, <3>1 DEF DeferRequest, Goroutines, PlacesOf
      <4>2. PICK e \in Elem : e = [nodeId |-> h.node, timestamp |-> h.timestamp]
        BY HandlerType, ElemType
      <4>3. queue' = [queue EXCEPT ![i] = Insert(@, e)] /\ e.nodeId = h.node
        BY <1>1, <3>1, <4>2, DeferStages
      <4>4. Queued(n, d)' => Queued(n, d) \/ (n = h.node /\ d = i)
        BY <4>3, QueuedInsert
      <4> QED
        BY <4>1, <4>4 DEF AtHandler
    <3>2. CASE ~ DeferRequest(i, h)
      BY <3>2 DEF HandlerStep, CheckOngoing, CompareRequests, LoadAckClock,
         StoreAckClock, SendAck, CountAck, fieldVars, Queued
    <3> QED
      BY <3>1, <3>2
  <2>2. d = i /\ h.action = "request" /\ h.node = n /\ OursIsEarlier(i, h)
    BY <1>5, <2>1, InsertBegins DEF Deferring
  <2>3. h.timestamp = lastReqTimestamp[n]
    BY <1>1, <2>2 DEF Timestamps
  <2>4. Before(Own(d), Own(n))
    BY <2>2, <2>3 DEF OursIsEarlier, Before, Own
  <2>5. ~ Before(Own(n), Own(d))
    BY <2>4, BeforeTotal
  <2> QED
    BY <1>3, <2>4, <2>5
<1> QED
  BY <1>4, <1>5

LEMMA DeferralClient ==
  ASSUME TypeOK, Stamped, Conserved, panic = "none", NEW i \in Nodes,
         AcquireLock(i) \/ ClientStep(i) \/ HandleMsg(i)
  PROVE  Deferral'
<1>1. Goroutines /\ Broadcasts /\ Answers /\ Timestamps /\ Queues /\ Deferral /\ HolderInCS
  BY DEF Conserved
<1> SUFFICES ASSUME NEW d \in Nodes, NEW n \in Nodes, n # d, Deferring(d, n)'
             PROVE  /\ cpc'[d] = "request" /\ Before(Own(n)', Own(d)') => Held(d, n)'
                    /\ cpc'[d] = "cs" => Before(Own(d)', Own(n)')
  BY DEF Deferral, Before
<1>2. Deferring(d, n)
  <2>1. AtHandler(n, d, {"insert"})' => AtHandler(n, d, {"insert"})
    <3>1. CASE HandleMsg(i)
      <4>1. \A b \in Nodes : \A k \in handlers'[b] : k \in handlers[b] \/ k.pc = "check"
        BY <3>1 DEF HandleMsg, TypeOK
      <4> QED
        BY <4>1 DEF AtHandler
    <3>2. CASE ~ HandleMsg(i)
      <4>1. handlers' = handlers
        BY <3>2 DEF AcquireLock, ClientStep, LoadClock, StoreClock, StampRequest, EnterCS,
           BroadcastRequest, ReleaseLock, ExtractDeferred, StoreDeferredClock, SendDeferredAck,
           DrainDone, ClearOngoing
      <4> QED
        BY <4>1, WaitStays
    <3> QED
      BY <3>1, <3>2
  <2>2. Queued(n, d)' => Queued(n, d)
    <3>1. CASE StampRequest(i)
      <4>1. PICK e \in Elem : e = [nodeId |-> i, timestamp |-> clock[i]]
        BY ElemType DEF TypeOK
      <4> QED
        BY <1>1, <3>1, <4>1, StampStages, QueuedInsert
    <3>2. CASE ReleaseLock(i) \/ ExtractDeferred(i)
      <4>1. queue[i] # << >> /\ queue' = [queue EXCEPT ![i] = Tail(@)]
        BY <1>1, <3>2, ReleaseStages DEF ExtractDeferred
      <4>2. PICK m \in Nodes : m = Peek(queue[i])
        BY <4>1, TailType
      <4>3. \A a, b \in Nodes : Queued(a, b)' <=> Queued(a, b) /\ ~(a = m /\ b = i)
        BY <1>1, <4>1, <4>2, QueuedTail
      <4> QED
        BY <4>3
    <3>3. CASE ~ StampRequest(i) /\ ~ ReleaseLock(i) /\ ~ ExtractDeferred(i)
      <4>1. queue' = queue
        BY <3>3 DEF AcquireLock, HandleMsg, ClientStep, LoadClock, StoreClock, EnterCS,
           BroadcastRequest, StoreDeferredClock, SendDeferredAck,
           DrainDone, ClearOngoing, fieldVars
      <4> QED
        BY <4>1 DEF Queued
    <3> QED
      BY <3>1, <3>2, <3>3
  <2> QED
    BY <2>1, <2>2 DEF Deferring
<1>3. cpc[n] = "request"
  BY <1>1, <1>2, HeldStage
<1>4. CASE StampRequest(d)
  <2>1. Unsent(d, n)' /\ cpc'[d] = "request"
    BY <1>4 DEF StampRequest, Go, TypeOK, Unsent
  <2> QED
    BY <2>1 DEF Held
<1>5. CASE ~ StampRequest(d)
  <2>1. Own(n)' = Own(n) /\ Own(d)' = Own(d)
    <3>1. CASE StampRequest(i)
      <4>1. i # n /\ i # d
        BY <1>3, <1>5, <3>1 DEF StampRequest, Go
      <4> QED
        BY <3>1, <4>1 DEF StampRequest, Own, TypeOK
    <3>2. CASE ~ StampRequest(i)
      BY <3>2 DEF AcquireLock, ClientStep, HandleMsg, LoadClock, StoreClock, EnterCS,
       BroadcastRequest, ReleaseLock, ExtractDeferred, StoreDeferredClock, SendDeferredAck,
       DrainDone, ClearOngoing, fieldVars, Own
    <3> QED
      BY <3>1, <3>2
  <2>2. cpc'[d] = "request" => cpc[d] = "request"
    BY <1>5 DEF AcquireLock, ClientStep, HandleMsg, LoadClock, StoreClock, StampRequest, EnterCS,
       BroadcastRequest, ReleaseLock, ExtractDeferred, StoreDeferredClock, SendDeferredAck,
       DrainDone, ClearOngoing, clientVars, Go, TypeOK
  <2>3. cpc'[d] = "cs" => cpc[d] = "cs" \/ EnterCS(d)
    BY DEF AcquireLock, ClientStep, HandleMsg, LoadClock, StoreClock, StampRequest, EnterCS,
       BroadcastRequest, ReleaseLock, ExtractDeferred, StoreDeferredClock, SendDeferredAck,
       DrainDone, ClearOngoing, clientVars, Go, TypeOK
  <2>4. ASSUME cpc'[d] = "request", Before(Own(n), Own(d)) PROVE Held(d, n)'
    <3>1. Held(d, n)
      BY <1>1, <1>2, <2>2, <2>4 DEF Deferral
    <3> QED
      BY <1>3, <3>1, HeldByClient DEF Active
  <2>5. CASE EnterCS(d)
    <3>1. Stages(d, n) = {} /\ cpc[d] = "request"
      BY <1>1, <2>5, EnterAnswers DEF Pending, EnterCS, Go
    <3>2. ~ Held(d, n)
      BY <1>1, <3>1, HeldStage
    <3>3. ~ Before(Own(n), Own(d))
      BY <1>1, <1>2, <3>1, <3>2 DEF Deferral
    <3>4. Before(Own(d), Own(n))
      BY <3>3, BeforeTotal
    <3>5. cpc'[d] = "cs"
      BY <2>5 DEF EnterCS, Go, TypeOK
    <3> QED
      BY <2>1, <3>4, <3>5
  <2>6. CASE ~ EnterCS(d)
    <3>1. cpc'[d] = "cs" => Before(Own(d), Own(n))
      BY <1>1, <1>2, <2>3, <2>6 DEF Deferral
    <3> QED
      BY <2>1, <2>4, <3>1
  <2> QED
    BY <2>5, <2>6
<1> QED
  BY <1>4, <1>5

-----------------------------------------------------------------------------
(***************************************************************************)
(* The answers are conserved.                                              *)
(***************************************************************************)

LEMMA InitConserved == Init => Conserved
<1> SUFFICES ASSUME Init PROVE Conserved
  OBVIOUS
<1>1. \A a, b \in Nodes : /\ ~ Unsent(a, b) /\ ~ Listening(a, b) /\ ~ Handled(a, b)
                          /\ ~ Queued(a, b) /\ ~ Drained(a, b) /\ ~ AckListening(a, b)
                          /\ ~ AckHandled(a, b) /\ ~ AtHandler(a, b, {"insert"})
  BY DEF Init, Unsent, Listening, Handled, Queued, Drained, AckListening, AckHandled, AtHandler,
     Nothing
<1>2. \A a, b \in Nodes : Stages(a, b) = {}
  BY <1>1 DEF Stages, At
<1>3. Answers
  BY <1>2 DEF Init, Answers
<1>4. Goroutines /\ Broadcasts
  BY DEF Init, Goroutines, Broadcasts
<1>5. Timestamps
  BY DEF Init, Timestamps, Nothing
<1>6. Queues
  BY DEF Init, Queues, Active, SortedQueue
<1>7. Deferral
  BY <1>1 DEF Deferral, Deferring
<1>8. HolderInCS
  <2>1. \A n \in Nodes : n # -1
    BY NodesAssumption
  <2> QED
    BY <2>1 DEF Init, HolderInCS, NoHolder
<1>9. NoOtherPanic
  BY DEF Init, NoOtherPanic
<1> QED
  BY <1>3, <1>4, <1>5, <1>6, <1>7, <1>8, <1>9 DEF Conserved

LEMMA StepConserved ==
  ASSUME TypeOK, Stamped, Conserved, [Next]_vars
  PROVE  Conserved'
<1>1. CASE UNCHANGED vars
  <2>1. UNCHANGED <<hasOngoingReq, lastReqTimestamp, reqAckCount, queue, cpc, unsent, lmsg,
                    handlers, holder, panic>>
    BY <1>1 DEF vars, clientVars, fieldVars, listenVars, sharedVars
  <2>2. Goroutines' /\ Broadcasts' /\ HolderInCS' /\ NoOtherPanic'
    BY <2>1 DEF Conserved, Goroutines, Broadcasts, HolderInCS, NoOtherPanic
  <2>3. \A a, b \in Nodes : Stages(a, b)' = Stages(a, b)
    BY <2>1 DEF Stages, At, Unsent, Listening, Handled, Queued, Drained, AckListening, AckHandled
  <2>4. Answers'
    <3>1. \A a \in Nodes : Pending(a)' = Pending(a)
      BY <2>3 DEF Pending
    <3> QED
      BY <2>1, <2>3, <3>1 DEF Conserved, Answers
  <2>5. Timestamps' /\ Queues'
    BY <2>1 DEF Conserved, Timestamps, Queues, Own, Active, Queued
  <2>6. Deferral'
    <3>1. \A a, b \in Nodes : /\ Held(a, b)' <=> Held(a, b)
                              /\ Deferring(a, b)' <=> Deferring(a, b)
      BY <2>1 DEF Held, Deferring, AtHandler, Unsent, Listening, Queued
    <3> QED
      BY <2>1, <3>1 DEF Conserved, Deferral, Before, Own
  <2> QED
    BY <2>2, <2>4, <2>5, <2>6 DEF Conserved
<1>2. ASSUME NEW n \in Nodes, panic = "none", AcquireLock(n) \/ ClientStep(n) \/ HandleMsg(n)
      PROVE  Conserved'
  <2>1. Goroutines'
    BY <1>2, GoroutinesClient
  <2>2. Broadcasts'
    BY <1>2, BroadcastsClient
  <2>3. Answers'
    BY <1>2, AnswersClient
  <2>4. Timestamps'
    BY <1>2, TimestampsClient
  <2>5. Queues'
    BY <1>2, QueuesClient
  <2>6. Deferral'
    BY <1>2, DeferralClient
  <2>7. HolderInCS' /\ NoOtherPanic'
    BY <1>2, HolderClient
  <2> QED
    BY <2>1, <2>2, <2>3, <2>4, <2>5, <2>6, <2>7 DEF Conserved
<1>3. ASSUME NEW n \in Nodes, NEW h \in handlers[n], HandlerStep(n, h) PROVE Conserved'
  <2>1. Goroutines'
    BY <1>3, GoroutinesHandler
  <2>2. Broadcasts' /\ HolderInCS' /\ NoOtherPanic'
    BY <1>3, HandlerLeaves
  <2>3. Answers'
    BY <1>3, AnswersHandler
  <2>4. Timestamps'
    BY <1>3, TimestampsHandler
  <2>5. Queues'
    BY <1>3, QueuesHandler
  <2>6. Deferral'
    BY <1>3, DeferralHandler
  <2> QED
    BY <2>1, <2>2, <2>3, <2>4, <2>5, <2>6 DEF Conserved
<1> QED
  BY <1>1, <1>2, <1>3 DEF Next, Running

\* The answer of every node to every request is at exactly one place and is counted once,
\* and a request that is deferred is deferred by an earlier one: AcquireLock waits for the
\* right number of answers, whatever the clocks do.
THEOREM Conservation == Spec => [](TypeOK /\ Conserved)
<1>1. Init => TypeOK /\ Stamped /\ Conserved
  BY InitType, InitStamped, InitConserved
<1>2. TypeOK /\ Stamped /\ Conserved /\ [Next]_vars => (TypeOK /\ Stamped /\ Conserved)'
  BY StepType, StampedStep, StepConserved
<1> QED
  BY <1>1, <1>2, PTL DEF Spec

\* ExitCS always finds its caller inside, ReleaseLock finds its request in the queue, no
\* request is inserted twice, and no node sends to itself.
THEOREM NoOtherPanicHolds == Spec => []NoOtherPanic
<1>1. TypeOK /\ Conserved => NoOtherPanic
  BY DEF Conserved
<1> QED
  BY <1>1, Conservation, PTL

-----------------------------------------------------------------------------
(***************************************************************************)
(* What orders the requests: a node that has received one stamps a later   *)
(* one.                                                                    *)
(***************************************************************************)

\* Node m has received the last request of n.
Known(n, m) == ~ Unsent(n, m) /\ ~ Listening(n, m)

\* A request that has been granted precedes the request of the node that granted it.
Ordered ==
    \A n, m \in Nodes : n # m /\ Active(n) /\ ~ Held(n, m) /\ Active(m) => Before(Own(n), Own(m))

LEMMA OwnByClient ==
  ASSUME TypeOK, NEW i \in Nodes, AcquireLock(i) \/ ClientStep(i) \/ HandleMsg(i),
         NEW n \in Nodes
  PROVE  \/ StampRequest(n) /\ i = n /\ lastReqTimestamp'[n] = clock[n] /\ Active(n)'
            /\ \A m \in Nodes : m # n => Unsent(n, m)' /\ (Active(m)' <=> Active(m))
         \/ ~ StampRequest(n) /\ lastReqTimestamp'[n] = lastReqTimestamp[n]
            /\ (Active(n)' => Active(n))
<1>1. CASE StampRequest(n)
  <2>1. i = n
    <3>1. cpc[n] = "stamp" /\ cpc' = [cpc EXCEPT ![n] = "request"]
      BY <1>1 DEF StampRequest, Go
    <3>2. cpc'[n] # cpc[n]
      BY <3>1 DEF TypeOK
    <3> QED
      BY <3>2 DEF AcquireLock, ClientStep, HandleMsg, LoadClock, StoreClock, StampRequest, EnterCS,
         BroadcastRequest, ReleaseLock, ExtractDeferred, StoreDeferredClock, SendDeferredAck,
         DrainDone, ClearOngoing, clientVars, Go, TypeOK
  <2> QED
    BY <1>1, <2>1 DEF StampRequest, Go, TypeOK, Active, Unsent
<1>2. CASE ~ StampRequest(n)
  <2>1. CASE StampRequest(i)
    <3>1. i # n
      BY <1>2, <2>1
    <3> QED
      BY <1>2, <2>1, <3>1 DEF StampRequest, Go, TypeOK, Active
  <2>2. CASE ~ StampRequest(i)
    <3>1. lastReqTimestamp' = lastReqTimestamp
      BY <2>2 DEF AcquireLock, ClientStep, HandleMsg, LoadClock, StoreClock, EnterCS,
       BroadcastRequest, ReleaseLock, ExtractDeferred, StoreDeferredClock, SendDeferredAck,
       DrainDone, ClearOngoing, fieldVars
    <3>2. \/ cpc' = cpc
          \/ Go(i, "request", "cs")
          \/ \E from, to \in {"idle", "load", "store", "stamp", "cs", "drain", "ackStore",
                              "ackSend", "clear"} : to # "cs" /\ Go(i, from, to)
      BY <2>2 DEF AcquireLock, ClientStep, HandleMsg, LoadClock, StoreClock, EnterCS,
       BroadcastRequest, ReleaseLock, ExtractDeferred, StoreDeferredClock, SendDeferredAck,
       DrainDone, ClearOngoing, clientVars
    <3>3. Active(n)' => Active(n)
      BY <3>2 DEF Go, TypeOK, Active
    <3> QED
      BY <1>2, <3>1, <3>3
  <2> QED
    BY <2>1, <2>2
<1> QED
  BY <1>1, <1>2

LEMMA SentByHandler ==
  ASSUME TypeOK, Stamped, Conserved, NEW i \in Nodes, NEW h \in handlers[i], HandlerStep(i, h),
         NEW n \in Nodes, NEW d \in Nodes, n # d
  PROVE  (Unsent(n, d)' <=> Unsent(n, d)) /\ (Listening(n, d)' <=> Listening(n, d))
<1>1. Unsent(n, d)' <=> Unsent(n, d)
  BY HandlerLeaves DEF Unsent, clientVars
<1>2. h.node \in Nodes
  BY HandlerType
<1>3. lmsg' = lmsg \/ \E t : Send(i, h.node, "ack", t)
  BY DEF HandlerStep, CheckOngoing, CompareRequests, DeferRequest, LoadAckClock,
     StoreAckClock, SendAck, CountAck, listenVars
<1>4. Listening(n, d)' <=> Listening(n, d)
  BY <1>2, <1>3, SendListens DEF Listening
<1> QED
  BY <1>1, <1>4

\* A request arrives only by the step of handleMsg.
LEMMA SentByClient ==
  ASSUME TypeOK, Stamped, Conserved, NEW i \in Nodes,
         AcquireLock(i) \/ ClientStep(i) \/ HandleMsg(i),
         NEW n \in Nodes, NEW d \in Nodes, n # d,
         Unsent(n, d) \/ Listening(n, d), ~ Unsent(n, d)', ~ Listening(n, d)'
  PROVE  i = d /\ HandleMsg(d) /\ Listening(n, d)
<1>1. Goroutines /\ Broadcasts /\ Answers
  BY DEF Conserved
<1>2. cpc[n] = "request"
  BY <1>1, HeldStage DEF Held
<1>3. CASE HandleMsg(i)
  <2>1. UNCHANGED <<cpc, unsent>> /\ (i # d => lmsg'[d] = lmsg[d])
    BY <1>3 DEF HandleMsg, clientVars, TypeOK
  <2> QED
    BY <1>3, <2>1 DEF Unsent, Listening
<1>4. ASSUME NEW b \in Nodes, BroadcastRequest(i, b) PROVE FALSE
  <2>1. Listening(n, d)' <=> Listening(n, d) \/ (n = i /\ d = b)
    BY <1>4, SendListens DEF BroadcastRequest
  <2>2. Unsent(n, d)' <=> Unsent(n, d) /\ ~(n = i /\ d = b)
    BY <1>4 DEF BroadcastRequest, TypeOK, Unsent
  <2> QED
    BY <2>1, <2>2
<1>5. ASSUME NEW b \in Nodes, SendDeferredAck(i, b) PROVE FALSE
  <2>1. Listening(n, d)' <=> Listening(n, d)
    BY <1>5, SendListens DEF SendDeferredAck
  <2>2. Unsent(n, d)' <=> Unsent(n, d)
    BY <1>5 DEF SendDeferredAck, Go, TypeOK, Unsent
  <2> QED
    BY <2>1, <2>2
<1>6. CASE \/ AcquireLock(i) \/ LoadClock(i) \/ StoreClock(i) \/ EnterCS(i) \/ StampRequest(i)
           \/ StoreDeferredClock(i) \/ DrainDone(i) \/ ClearOngoing(i) \/ ReleaseLock(i)
           \/ ExtractDeferred(i)
  <2>1. lmsg' = lmsg
    BY <1>6 DEF AcquireLock, LoadClock, StoreClock, EnterCS, StampRequest, StoreDeferredClock,
       DrainDone, ClearOngoing, ReleaseLock, ExtractDeferred, listenVars
  <2>2. ASSUME Unsent(n, d) PROVE Unsent(n, d)'
    <3>1. \E from, to : Go(i, from, to) /\ (from = "request" => unsent[i] = {})
      BY <1>6 DEF AcquireLock, LoadClock, StoreClock, EnterCS, StampRequest,
         StoreDeferredClock, DrainDone, ClearOngoing, ReleaseLock, ExtractDeferred, Go
    <3>2. i # n /\ cpc'[n] = cpc[n]
      BY <2>2, <3>1 DEF Go, TypeOK, Unsent
    <3>3. unsent' = unsent \/ \E s : unsent' = [unsent EXCEPT ![i] = s]
      BY <1>6 DEF AcquireLock, LoadClock, StoreClock, EnterCS, StampRequest,
         StoreDeferredClock, DrainDone, ClearOngoing, ReleaseLock, ExtractDeferred
    <3>4. unsent'[n] = unsent[n]
      BY <3>2, <3>3 DEF TypeOK
    <3> QED
      BY <2>2, <3>2, <3>4 DEF Unsent
  <2> QED
    BY <2>1, <2>2 DEF Listening
<1> QED
  BY <1>3, <1>4, <1>5, <1>6 DEF ClientStep

\* If a node that stamps its request has a clock above the requests it has received, the
\* order of the requests is kept.
LEMMA OrderedStep ==
  ASSUME TypeOK, Stamped, Conserved, Ordered, [Next]_vars,
         \A n, m \in Nodes : n # m /\ StampRequest(m) /\ Active(n) /\ Known(n, m) /\ ~ Held(n, m)
           => clock[m] > lastReqTimestamp[n]
  PROVE  Ordered'
<1> SUFFICES ASSUME NEW n \in Nodes, NEW m \in Nodes, n # m, Active(n)', ~ Held(n, m)', Active(m)'
             PROVE  Before(Own(n)', Own(m)')
  BY DEF Ordered, Before
<1>1. Goroutines /\ Answers
  BY DEF Conserved
<1>2. CASE UNCHANGED vars
  <2>1. UNCHANGED <<cpc, unsent, lmsg, handlers, queue, lastReqTimestamp>>
    BY <1>2 DEF vars, clientVars, fieldVars, listenVars
  <2> QED
    BY <2>1 DEF Ordered, Active, Held, Unsent, Listening, AtHandler, Queued, Own
<1>3. ASSUME NEW i \in Nodes, NEW h \in handlers[i], HandlerStep(i, h)
      PROVE  Before(Own(n)', Own(m)')
  <2>1. UNCHANGED <<cpc, lastReqTimestamp>>
    BY <1>3, HandlerLeaves DEF clientVars
  <2>2. Active(n) /\ Active(m) /\ Own(n)' = Own(n) /\ Own(m)' = Own(m)
    BY <2>1 DEF Active, Own
  <2>3. Before(Own(n), Own(m))
    <3>1. CASE Held(n, m)
      <4>1. cpc[m] # "idle"
        BY <2>2 DEF Active
      <4> QED
        BY <1>3, <3>1, <4>1, HeldByHandler
    <3>2. CASE ~ Held(n, m)
      BY <2>2, <3>2 DEF Ordered
    <3> QED
      BY <3>1, <3>2
  <2> QED
    BY <2>2, <2>3
<1>4. ASSUME panic = "none", NEW i \in Nodes, AcquireLock(i) \/ ClientStep(i) \/ HandleMsg(i)
      PROVE  Before(Own(n)', Own(m)')
  <2>1. ~ StampRequest(n) /\ lastReqTimestamp'[n] = lastReqTimestamp[n] /\ Active(n)
    <3>1. ~ Unsent(n, m)'
      BY DEF Held
    <3> QED
      BY <1>4, <3>1, OwnByClient
  <2>2. CASE StampRequest(m)
    <3>1. lastReqTimestamp'[m] = clock[m]
      BY <2>2 DEF StampRequest, TypeOK
    <3>2. ~ HandleMsg(m)
      BY <2>2 DEF StampRequest, HandleMsg, Go, TypeOK, clientVars
    <3>3. ~ Unsent(n, m)' /\ ~ Listening(n, m)'
      BY DEF Held
    <3>4. ~ Unsent(n, m) /\ ~ Listening(n, m)
      BY <1>4, <3>2, <3>3, SentByClient
    <3>5. clock[m] > lastReqTimestamp[n]
      <4>1. ~ Held(n, m)
        BY <1>4, <2>2, HeldByClient DEF StampRequest, Go
      <4> QED
        BY <2>1, <2>2, <3>4, <4>1 DEF Known
    <3> QED
      BY <2>1, <3>1, <3>5 DEF Before, Own
  <2>3. CASE ~ StampRequest(m)
    <3>1. lastReqTimestamp'[m] = lastReqTimestamp[m] /\ Active(m)
      BY <1>4, <2>3, OwnByClient
    <3>2. Before(Own(n), Own(m))
      <4>1. CASE Held(n, m)
        BY <1>4, <3>1, <4>1, HeldByClient DEF Active
      <4>2. CASE ~ Held(n, m)
        BY <2>1, <3>1, <4>2 DEF Ordered
      <4> QED
        BY <4>1, <4>2
    <3> QED
      BY <2>1, <3>1, <3>2 DEF Own
  <2> QED
    BY <2>2, <2>3
<1> QED
  BY <1>2, <1>3, <1>4 DEF Next, Running

LEMMA SafetyStep ==
  ASSUME TypeOK, Stamped, Conserved, Ordered, MutualExclusion, [Next]_vars
  PROVE  MutualExclusion'
<1>1. Answers /\ HolderInCS
  BY DEF Conserved
<1>2. ASSUME panic = "none", NEW i \in Nodes, EnterCS(i) PROVE holder = NoHolder
  <2> SUFFICES ASSUME NEW m \in Nodes, holder = m PROVE FALSE
    BY DEF TypeOK
  <2>1. cpc[i] = "request" /\ cpc[m] = "cs"
    BY <1>1, <1>2 DEF HolderInCS, EnterCS, Go
  <2>2. ~ Held(i, m)
    <3>1. Stages(i, m) = {}
      BY <1>1, <1>2, <2>1, EnterAnswers DEF Pending
    <3> QED
      BY <1>1, <2>1, <3>1, HeldStage
  <2>3. ~ Held(m, i)
    BY <1>1, <2>1, HeldStage
  <2>4. Before(Own(i), Own(m)) /\ Before(Own(m), Own(i))
    BY <2>1, <2>2, <2>3 DEF Ordered, Active
  <2> QED
    BY <2>1, <2>4, BeforeTotal
<1>3. CASE UNCHANGED vars
  BY <1>3 DEF vars, sharedVars, MutualExclusion
<1>4. ASSUME NEW i \in Nodes, NEW h \in handlers[i], HandlerStep(i, h) PROVE MutualExclusion'
  BY <1>4, HandlerLeaves DEF MutualExclusion
<1>5. ASSUME panic = "none", NEW i \in Nodes, AcquireLock(i) \/ ClientStep(i) \/ HandleMsg(i)
      PROVE  MutualExclusion'
  <2>1. CASE EnterCS(i)
    BY <1>2, <1>5, <2>1 DEF EnterCS, MutualExclusion
  <2>2. CASE ~ EnterCS(i)
    BY <1>5, <2>2 DEF AcquireLock, ClientStep, HandleMsg, LoadClock, StoreClock, StampRequest,
       BroadcastRequest, ReleaseLock, ExtractDeferred, StoreDeferredClock, SendDeferredAck,
       DrainDone, ClearOngoing, sharedVars, MutualExclusion
  <2> QED
    BY <2>1, <2>2
<1> QED
  BY <1>3, <1>4, <1>5 DEF Next, Running

LEMMA OrderedEnters ==
  ASSUME TypeOK, Conserved, Ordered
  PROVE  EarliestEnters
<1> SUFFICES ASSUME NEW n \in Nodes, NEW m \in Nodes, n # m, cpc[n] = "cs", cpc[m] = "request"
             PROVE  Before(Own(n), Own(m))
  BY DEF EarliestEnters, Own
<1>1. ~ Held(n, m)
  BY HeldStage DEF Conserved
<1> QED
  BY <1>1 DEF Ordered, Active

LEMMA InitOrdered == Init => Ordered /\ MutualExclusion
  BY DEF Init, Ordered, Active, MutualExclusion

\* handleMsg stores a clock above the request it has received.
Heard == \A n, m \in Nodes : n # m /\ Listening(n, m) => lreg[m] > lastReqTimestamp[n]

LEMMA IntType ==
  ASSUME TypeOK, NEW n \in Nodes
  PROVE  lastReqTimestamp[n] \in Int /\ clock[n] \in Nat /\ lreg[n] \in Nat /\ creg[n] \in Nat
<1>1. lastReqTimestamp[n] \in Nat \cup {-1}
  BY DEF TypeOK
<1>2. clock[n] \in Nat /\ lreg[n] \in Nat /\ creg[n] \in Nat
  BY DEF TypeOK
<1> QED
  BY <1>1, <1>2

\* The message that handleMsg works on, and the clock it has computed, stay until it stores.
LEMMA ListenerStays ==
  ASSUME TypeOK, NEW i \in Nodes, NEW m \in Nodes, lmsg[m] # Nothing, ~ HandleMsg(m),
         \/ AcquireLock(i) \/ ClientStep(i) \/ HandleMsg(i)
         \/ \E h \in handlers[i] : HandlerStep(i, h)
  PROVE  lmsg'[m] = lmsg[m] /\ lreg'[m] = lreg[m]
<1>1. \/ lmsg' = lmsg /\ lreg' = lreg
      \/ HandleMsg(i)
      \/ \E d, a, t : Send(i, d, a, t)
  <2>1. CASE \E h \in handlers[i] : HandlerStep(i, h)
    BY <2>1 DEF HandlerStep, CheckOngoing, CompareRequests, DeferRequest, LoadAckClock,
       StoreAckClock, SendAck, CountAck, listenVars
  <2>2. CASE AcquireLock(i) \/ ClientStep(i) \/ HandleMsg(i)
    BY <2>2 DEF AcquireLock, ClientStep, LoadClock, StoreClock, StampRequest,
       EnterCS, BroadcastRequest, ReleaseLock, ExtractDeferred, StoreDeferredClock,
       SendDeferredAck, DrainDone, ClearOngoing, listenVars
  <2> QED
    BY <2>1, <2>2
<1>2. ASSUME NEW d, NEW a, NEW t, Send(i, d, a, t) PROVE lmsg'[m] = lmsg[m] /\ lreg'[m] = lreg[m]
  BY <1>2 DEF Send, TypeOK
<1>3. CASE HandleMsg(i)
  BY <1>3 DEF HandleMsg, TypeOK
<1> QED
  BY <1>1, <1>2, <1>3

LEMMA HeardStep ==
  ASSUME TypeOK, Stamped, Conserved, Heard, [Next]_vars
  PROVE  Heard'
<1> SUFFICES ASSUME NEW n \in Nodes, NEW m \in Nodes, n # m, Listening(n, m)'
             PROVE  lreg'[m] > lastReqTimestamp'[n]
  BY DEF Heard
<1>1. Goroutines /\ Broadcasts /\ Answers
  BY DEF Conserved
<1>2. CASE UNCHANGED vars
  BY <1>2 DEF vars, fieldVars, listenVars, Listening, Heard
<1>3. ASSUME NEW i \in Nodes,
             \/ AcquireLock(i) \/ ClientStep(i) \/ HandleMsg(i)
             \/ \E h \in handlers[i] : HandlerStep(i, h)
      PROVE  lreg'[m] > lastReqTimestamp'[n]
  <2>1. ~ HandleMsg(m)
    <3>1. HandleMsg(m) => lmsg'[m] = Nothing
      BY DEF HandleMsg, TypeOK
    <3> QED
      BY <3>1 DEF Listening, Nothing
  <2>2. CASE Listening(n, m)
    <3>1. cpc[n] = "request"
      BY <1>1, <2>2, HeldStage DEF Held
    <3>2. lastReqTimestamp'[n] = lastReqTimestamp[n]
      <4>1. CASE \E h \in handlers[i] : HandlerStep(i, h)
        BY <4>1, HandlerLeaves
      <4>2. CASE AcquireLock(i) \/ ClientStep(i) \/ HandleMsg(i)
        BY <3>1, <4>2, OwnByClient DEF StampRequest, Go
      <4> QED
        BY <1>3, <4>1, <4>2
    <3>3. lmsg[m] # Nothing
      BY <2>2 DEF Listening, Nothing
    <3>4. lreg'[m] = lreg[m]
      BY <1>3, <2>1, <3>3, ListenerStays
    <3> QED
      BY <2>2, <3>2, <3>4 DEF Heard
  <2>3. CASE ~ Listening(n, m)
    <3>1. AcquireLock(i) \/ ClientStep(i) \/ HandleMsg(i)
      BY <1>3, <2>3, SentByHandler
    <3>2. BroadcastRequest(n, m)
      <4>1. ASSUME NEW b \in Nodes, SendDeferredAck(i, b) PROVE FALSE
        BY <2>3, <4>1, SendListens DEF SendDeferredAck
      <4>2. ASSUME NEW b \in Nodes, BroadcastRequest(i, b) PROVE i = n /\ b = m
        BY <2>3, <4>2, SendListens DEF BroadcastRequest
      <4>3. ~ HandleMsg(i)
        <5>1. HandleMsg(i) => lmsg'[m] \in {lmsg[m], Nothing}
          BY DEF HandleMsg, TypeOK
        <5>2. Nothing.action # "request"
          BY DEF Nothing
        <5> QED
          BY <2>3, <5>1, <5>2 DEF Listening
      <4>4. lmsg' # lmsg
        BY <2>3 DEF Listening
      <4> QED
        BY <3>1, <4>1, <4>2, <4>3, <4>4 DEF AcquireLock, ClientStep, LoadClock, StoreClock,
           StampRequest, EnterCS, ReleaseLock, ExtractDeferred, StoreDeferredClock,
           DrainDone, ClearOngoing, listenVars
    <3>3. lreg'[m] = 1 + (IF clock[m] > lastReqTimestamp[n] THEN clock[m] ELSE lastReqTimestamp[n])
      BY <3>2 DEF BroadcastRequest, Send, TypeOK
    <3>4. lastReqTimestamp' = lastReqTimestamp
      BY <3>2 DEF BroadcastRequest, fieldVars
    <3>5. lastReqTimestamp[n] \in Int /\ clock[m] \in Nat
      BY IntType
    <3> QED
      BY <3>3, <3>4, <3>5
  <2> QED
    BY <2>2, <2>3
<1> QED
  BY <1>2, <1>3 DEF Next

\* Node m comes to know a request by storing a clock above it.
LEMMA KnownBegins ==
  ASSUME TypeOK, Stamped, Conserved, [Next]_vars, NEW n \in Nodes, NEW m \in Nodes, n # m,
         Known(n, m)', ~ Known(n, m)
  PROVE  HandleMsg(m) /\ Listening(n, m)
<1>1. ~ UNCHANGED vars
  BY DEF vars, clientVars, listenVars, Known, Unsent, Listening
<1> QED
  BY <1>1, SentByHandler, SentByClient DEF Next, Known

\* The last timestamp of a node changes only when it stamps a request, which nobody knows.
LEMMA StampUnknown ==
  ASSUME TypeOK, Stamped, Conserved, [Next]_vars, NEW n \in Nodes, NEW m \in Nodes, n # m,
         Known(n, m)'
  PROVE  ~ StampRequest(n) /\ lastReqTimestamp'[n] = lastReqTimestamp[n] /\ (Active(n)' => Active(n))
<1>1. CASE UNCHANGED vars
  <2>1. cpc' = cpc /\ lastReqTimestamp' = lastReqTimestamp
    BY <1>1 DEF vars, clientVars, fieldVars
  <2>2. ~ StampRequest(n)
    BY <2>1 DEF StampRequest, Go, TypeOK
  <2> QED
    BY <2>1, <2>2 DEF Active
<1>2. ASSUME NEW i \in Nodes, NEW h \in handlers[i], HandlerStep(i, h)
      PROVE  ~ StampRequest(n) /\ lastReqTimestamp'[n] = lastReqTimestamp[n] /\ (Active(n)' => Active(n))
  <2>1. cpc' = cpc /\ lastReqTimestamp' = lastReqTimestamp
    BY <1>2, HandlerLeaves DEF clientVars
  <2>2. ~ StampRequest(n)
    BY <2>1 DEF StampRequest, Go, TypeOK
  <2> QED
    BY <2>1, <2>2 DEF Active
<1>3. ASSUME NEW i \in Nodes, AcquireLock(i) \/ ClientStep(i) \/ HandleMsg(i)
      PROVE  ~ StampRequest(n) /\ lastReqTimestamp'[n] = lastReqTimestamp[n] /\ (Active(n)' => Active(n))
  BY <1>3, OwnByClient DEF Known
<1> QED
  BY <1>1, <1>2, <1>3 DEF Next

LEMMA InitHeard == Init => Heard
  BY DEF Init, Heard, Listening, Nothing

-----------------------------------------------------------------------------
(***************************************************************************)
(* Any number of nodes, as long as no clock goes back.                     *)
(***************************************************************************)

\* No update of a clock is lost: a store never puts back an earlier value.
ClockGrows == \A n \in Nodes : clock'[n] >= clock[n]

\* The clock of a node is above the requests it has received.
ClocksAbove ==
    \A n, m \in Nodes : n # m /\ Active(n) /\ Known(n, m) => clock[m] > lastReqTimestamp[n]

LEMMA ClocksAboveStep ==
  ASSUME TypeOK, Stamped, Conserved, Heard, ClocksAbove, [Next]_vars, TypeOK', [ClockGrows]_vars
  PROVE  ClocksAbove'
<1> SUFFICES ASSUME NEW n \in Nodes, NEW m \in Nodes, n # m, Active(n)', Known(n, m)'
             PROVE  clock'[m] > lastReqTimestamp'[n]
  BY DEF ClocksAbove
<1>1. lastReqTimestamp[n] \in Int /\ clock[m] \in Nat
  BY IntType
<1>2. clock'[m] \in Nat /\ clock'[m] >= clock[m]
  <2>1. clock'[m] \in Nat
    BY DEF TypeOK
  <2>2. CASE ClockGrows
    BY <2>1, <2>2 DEF ClockGrows
  <2>3. CASE UNCHANGED vars
    BY <1>1, <2>3 DEF vars
  <2> QED
    BY <2>1, <2>2, <2>3
<1>3. lastReqTimestamp'[n] = lastReqTimestamp[n] /\ Active(n)
  BY StampUnknown
<1>4. CASE Known(n, m)
  <2>1. clock[m] > lastReqTimestamp[n]
    BY <1>3, <1>4 DEF ClocksAbove
  <2> QED
    BY <1>1, <1>2, <1>3, <2>1
<1>5. CASE ~ Known(n, m)
  <2>1. HandleMsg(m) /\ Listening(n, m)
    BY <1>5, KnownBegins
  <2>2. clock'[m] = lreg[m]
    BY <2>1 DEF HandleMsg, TypeOK
  <2> QED
    BY <1>3, <2>1, <2>2 DEF Heard
<1> QED
  BY <1>4, <1>5

LEMMA InitClocksAbove == Init => ClocksAbove
  BY DEF Init, ClocksAbove, Active

GrowingInv == TypeOK /\ Stamped /\ Conserved /\ Ordered /\ Heard /\ ClocksAbove /\ MutualExclusion

LEMMA InitGrowing == Init => GrowingInv
  BY InitType, InitStamped, InitConserved, InitOrdered, InitHeard, InitClocksAbove DEF GrowingInv

LEMMA StepGrowing == GrowingInv /\ [Next]_vars /\ [ClockGrows]_vars => GrowingInv'
<1> SUFFICES ASSUME GrowingInv, [Next]_vars, [ClockGrows]_vars PROVE GrowingInv'
  OBVIOUS
<1>1. TypeOK /\ Stamped /\ Conserved /\ Ordered /\ Heard /\ ClocksAbove /\ MutualExclusion
  BY DEF GrowingInv
<1>2. TypeOK' /\ Stamped'
  BY <1>1, StepType, StampedStep
<1>3. Conserved'
  BY <1>1, StepConserved
<1>4. Heard' /\ ClocksAbove'
  BY <1>1, <1>2, HeardStep, ClocksAboveStep
<1>5. Ordered'
  <2>1. \A n, m \in Nodes : n # m /\ StampRequest(m) /\ Active(n) /\ Known(n, m) /\ ~ Held(n, m)
          => clock[m] > lastReqTimestamp[n]
    BY <1>1 DEF ClocksAbove
  <2> QED
    BY <1>1, <2>1, OrderedStep
<1>6. MutualExclusion'
  BY <1>1, SafetyStep
<1> QED
  BY <1>2, <1>3, <1>4, <1>5, <1>6 DEF GrowingInv

\* With any number of nodes, no two are ever in the critical section, in every behaviour
\* in which the unlocked n.clock++ and handleMsg never set a clock back.
THEOREM GrowingExclusion == Spec /\ [][ClockGrows]_vars => []MutualExclusion
<1>1. GrowingInv => MutualExclusion
  BY DEF GrowingInv
<1> QED
  BY <1>1, InitGrowing, StepGrowing, PTL DEF Spec

\* In the same behaviours the node in the critical section has the earliest request.
THEOREM GrowingEarliest == Spec /\ [][ClockGrows]_vars => []EarliestEnters
<1>1. GrowingInv => EarliestEnters
  BY OrderedEnters DEF GrowingInv
<1> QED
  BY <1>1, InitGrowing, StepGrowing, PTL DEF Spec

-----------------------------------------------------------------------------
(***************************************************************************)
(* Two nodes: no lost update of a clock can break the order.               *)
(***************************************************************************)

TwoNodes == \A a, b, c \in Nodes : a # b /\ a # c => b = c

\* What is about to be stored in the clock of n by its listener or a handler is above t.
Above(n, t) ==
    /\ clock[n] >= t
    /\ lmsg[n] # Nothing => lreg[n] > t
    /\ \A h \in handlers[n] : h.pc = "store" => h.reg >= t

\* The clock of n is above t and stays there, whatever is stored.
Fresh(n, t) ==
    /\ Above(n, t)
    /\ clock[n] > t
    /\ cpc[n] \in {"store", "ackStore"} => creg[n] >= t

LEMMA ClockBy ==
  ASSUME [Next]_vars, NEW n \in Nodes, TypeOK
  PROVE  \/ clock'[n] = clock[n]
         \/ HandleMsg(n)
         \/ \E h \in handlers[n] : StoreAckClock(n, h)
         \/ StoreClock(n)
         \/ StoreDeferredClock(n)
<1>1. CASE UNCHANGED vars
  BY <1>1 DEF vars
<1>2. ASSUME NEW i \in Nodes, NEW h \in handlers[i], HandlerStep(i, h)
      PROVE  clock'[n] = clock[n] \/ \E k \in handlers[n] : StoreAckClock(n, k)
  <2>1. CASE StoreAckClock(i, h)
    <3>1. CASE i = n
      BY <2>1, <3>1
    <3>2. CASE i # n
      BY <2>1, <3>2 DEF StoreAckClock, TypeOK
    <3> QED
      BY <3>1, <3>2
  <2>2. CASE ~ StoreAckClock(i, h)
    BY <1>2, <2>2 DEF HandlerStep, CheckOngoing, CompareRequests, DeferRequest, LoadAckClock,
       SendAck, CountAck
  <2> QED
    BY <2>1, <2>2
<1>3. ASSUME NEW i \in Nodes, AcquireLock(i) \/ ClientStep(i) \/ HandleMsg(i)
      PROVE  clock'[n] = clock[n] \/ HandleMsg(n) \/ StoreClock(n) \/ StoreDeferredClock(n)
  <2>1. CASE HandleMsg(i) \/ StoreClock(i) \/ StoreDeferredClock(i)
    <3>1. CASE i = n
      BY <2>1, <3>1
    <3>2. CASE i # n
      BY <2>1, <3>2 DEF HandleMsg, StoreClock, StoreDeferredClock, TypeOK
    <3> QED
      BY <3>1, <3>2
  <2>2. CASE ~ HandleMsg(i) /\ ~ StoreClock(i) /\ ~ StoreDeferredClock(i)
    BY <1>3, <2>2 DEF AcquireLock, ClientStep, LoadClock, StampRequest,
       EnterCS, BroadcastRequest, ReleaseLock, ExtractDeferred,
       SendDeferredAck, DrainDone, ClearOngoing
  <2> QED
    BY <2>1, <2>2
<1> QED
  BY <1>1, <1>2, <1>3 DEF Next

\* The register of a handler that is about to store is the clock it has loaded.
LEMMA RegBy ==
  ASSUME [Next]_vars, NEW n \in Nodes, TypeOK, NEW k \in handlers'[n], k.pc = "store"
  PROVE  \/ k \in handlers[n]
         \/ k.reg = clock[n] /\ clock' = clock /\ \E h \in handlers[n] : LoadAckClock(n, h)
<1>1. CASE UNCHANGED vars
  BY <1>1 DEF vars
<1>2. ASSUME NEW i \in Nodes, NEW h \in handlers[i], HandlerStep(i, h), k \notin handlers[n]
      PROVE  i = n /\ LoadAckClock(n, h) /\ k.reg = clock[n] /\ clock' = clock
  <2>1. h \in Handler
    BY HandlerType
  <2>2. ASSUME NEW x, Become(i, h, x) PROVE i = n /\ k = x
    BY <1>2, <2>2 DEF Become, TypeOK
  <2>3. \A pc : [h EXCEPT !.pc = pc].pc = pc
    BY <2>1 DEF Handler
  <2>4. ~ Finish(i, h)
    <3>1. handlers \in [Nodes -> SUBSET Handler]
      BY DEF TypeOK
    <3>2. Finish(i, h) => handlers'[n] \subseteq handlers[n]
      BY <3>1 DEF Finish
    <3> QED
      BY <1>2, <3>2
  <2>5. CASE LoadAckClock(i, h)
    <3>1. [h EXCEPT !.pc = "store", !.reg = clock[i]].reg = clock[i]
      BY <2>1 DEF Handler
    <3> QED
      BY <2>2, <2>5, <3>1 DEF LoadAckClock
  <2>6. ~ StoreAckClock(i, h)
    <3>1. [h EXCEPT !.pc = "send", !.reg = h.reg + 1].pc = "send"
      BY <2>1 DEF Handler
    <3> QED
      BY <2>2, <3>1 DEF StoreAckClock
  <2>7. ~ CompareRequests(i, h)
    <3>1. CompareRequests(i, h) => \E pc \in {"insert", "load"} : Become(i, h, [h EXCEPT !.pc = pc])
      BY DEF CompareRequests
    <3>2. ASSUME NEW pc \in {"insert", "load"}, Become(i, h, [h EXCEPT !.pc = pc]) PROVE FALSE
      <4>1. k = [h EXCEPT !.pc = pc]
        BY <2>2, <3>2
      <4>2. k.pc = pc
        BY <2>3, <4>1
      <4> QED
        BY <4>2
    <3> QED
      BY <3>1, <3>2
  <2>8. ~ CheckOngoing(i, h)
    <3>1. CheckOngoing(i, h) => \/ Finish(i, h)
                               \/ \E pc \in {"compare", "load", "count"} : Become(i, h, [h EXCEPT !.pc = pc])
      <4>1. h.action \in {"request", "ack"}
        BY HandlerType
      <4>2. CASE h.action = "request"
        BY <4>2 DEF CheckOngoing
      <4>3. CASE h.action = "ack"
        BY <4>3 DEF CheckOngoing
      <4> QED
        BY <4>1, <4>2, <4>3
    <3>2. ASSUME NEW pc \in {"compare", "load", "count"}, Become(i, h, [h EXCEPT !.pc = pc])
          PROVE  FALSE
      <4>1. k = [h EXCEPT !.pc = pc]
        BY <2>2, <3>2
      <4>2. k.pc = pc
        BY <2>3, <4>1
      <4> QED
        BY <4>2
    <3> QED
      BY <2>4, <3>1, <3>2
  <2> QED
    BY <1>2, <2>4, <2>5, <2>6, <2>7, <2>8 DEF HandlerStep, DeferRequest, SendAck, CountAck
<1>3. ASSUME NEW i \in Nodes, AcquireLock(i) \/ ClientStep(i) \/ HandleMsg(i)
      PROVE  k \in handlers[n]
  <2>1. CASE HandleMsg(i)
    BY <2>1 DEF HandleMsg, TypeOK
  <2>2. CASE ~ HandleMsg(i)
    BY <1>3, <2>2 DEF AcquireLock, ClientStep, LoadClock, StoreClock, StampRequest,
       EnterCS, BroadcastRequest, ReleaseLock, ExtractDeferred, StoreDeferredClock,
       SendDeferredAck, DrainDone, ClearOngoing
  <2> QED
    BY <2>1, <2>2
<1> QED
  BY <1>1, <1>2, <1>3 DEF Next

\* A listener computes a clock above the one it loads.
LEMMA LregBy ==
  ASSUME [Next]_vars, NEW n \in Nodes, TypeOK, lmsg'[n] # Nothing,
         ~ (lmsg[n] # Nothing /\ lmsg'[n] = lmsg[n] /\ lreg'[n] = lreg[n])
  PROVE  lmsg[n] = Nothing /\ lreg'[n] > clock[n] /\ clock' = clock
<1>1. ~ UNCHANGED vars
  BY DEF vars, listenVars
<1>2. PICK i \in Nodes : \/ AcquireLock(i) \/ ClientStep(i) \/ HandleMsg(i)
                         \/ \E h \in handlers[i] : HandlerStep(i, h)
  BY <1>1 DEF Next
<1>3. ~ HandleMsg(n)
  BY DEF HandleMsg, TypeOK
<1>4. lmsg[n] = Nothing
  BY <1>2, <1>3, ListenerStays
<1>5. lmsg'[n] # lmsg[n]
  BY <1>4
<1>6. \E d \in Nodes, a \in {"request", "ack"}, t \in Int : Send(i, d, a, t) /\ clock' = clock
  <2>1. CASE \E h \in handlers[i] : HandlerStep(i, h)
    <3>1. PICK h \in handlers[i] : HandlerStep(i, h)
      BY <2>1
    <3>2. SendAck(i, h)
      BY <1>5, <3>1 DEF HandlerStep, CheckOngoing, CompareRequests, DeferRequest, LoadAckClock,
         StoreAckClock, CountAck, listenVars
    <3>3. h.node \in Nodes /\ h.reg \in Int
      BY HandlerType
    <3> QED
      BY <3>2, <3>3 DEF SendAck
  <2>2. CASE AcquireLock(i) \/ ClientStep(i) \/ HandleMsg(i)
    <3>1. ~ HandleMsg(i)
      BY <1>4, <1>5 DEF HandleMsg, TypeOK
    <3>2. lastReqTimestamp[i] \in Int /\ creg[i] \in Int
      BY IntType
    <3> QED
      BY <1>5, <2>2, <3>1, <3>2 DEF AcquireLock, ClientStep, LoadClock, StoreClock, StampRequest,
       EnterCS, BroadcastRequest, ReleaseLock, ExtractDeferred, StoreDeferredClock,
       SendDeferredAck, DrainDone, ClearOngoing, listenVars
  <2> QED
    BY <1>2, <2>1, <2>2
<1>7. PICK d \in Nodes, a \in {"request", "ack"}, t \in Int : Send(i, d, a, t) /\ clock' = clock
  BY <1>6
<1>8. d = n
  BY <1>5, <1>7 DEF Send, TypeOK
<1>9. lreg'[n] = 1 + (IF clock[n] > t THEN clock[n] ELSE t) /\ clock[n] \in Nat
  BY <1>7, <1>8 DEF Send, TypeOK
<1> QED
  BY <1>4, <1>7, <1>9

\* The client increments the clock it has loaded.
LEMMA CregBy ==
  ASSUME [Next]_vars, NEW n \in Nodes, TypeOK, cpc'[n] \in {"store", "ackStore"}
  PROVE  \/ cpc'[n] = cpc[n] /\ creg'[n] = creg[n]
         \/ creg'[n] = clock[n] /\ clock' = clock /\ (LoadClock(n) \/ ExtractDeferred(n))
<1>1. CASE UNCHANGED vars
  BY <1>1 DEF vars, clientVars
<1>2. ASSUME NEW i \in Nodes, NEW h \in handlers[i], HandlerStep(i, h)
      PROVE  cpc'[n] = cpc[n] /\ creg'[n] = creg[n]
  BY <1>2 DEF HandlerStep, CheckOngoing, CompareRequests, DeferRequest, LoadAckClock,
     StoreAckClock, SendAck, CountAck, clientVars
<1>3. ASSUME NEW i \in Nodes, AcquireLock(i) \/ ClientStep(i) \/ HandleMsg(i)
      PROVE  \/ cpc'[n] = cpc[n] /\ creg'[n] = creg[n]
             \/ creg'[n] = clock[n] /\ clock' = clock /\ (LoadClock(n) \/ ExtractDeferred(n))
  <2>1. CASE i # n
    BY <1>3, <2>1 DEF AcquireLock, HandleMsg, ClientStep, LoadClock, StoreClock, StampRequest,
       EnterCS, BroadcastRequest, ReleaseLock, ExtractDeferred, StoreDeferredClock,
       SendDeferredAck, DrainDone, ClearOngoing, clientVars, Go, TypeOK
  <2>2. CASE i = n
    <3>1. CASE LoadClock(n) \/ ExtractDeferred(n)
      BY <3>1 DEF LoadClock, ExtractDeferred, TypeOK
    <3>2. CASE ~ LoadClock(n) /\ ~ ExtractDeferred(n)
      BY <1>3, <2>2, <3>2 DEF AcquireLock, HandleMsg, ClientStep, StoreClock, StampRequest,
       EnterCS, BroadcastRequest, ReleaseLock, StoreDeferredClock,
       SendDeferredAck, DrainDone, ClearOngoing, clientVars, Go, TypeOK
    <3> QED
      BY <3>1, <3>2
  <2> QED
    BY <2>1, <2>2
<1> QED
  BY <1>1, <1>2, <1>3 DEF Next

LEMMA AboveStep ==
  ASSUME [Next]_vars, NEW n \in Nodes, TypeOK, TypeOK', NEW t \in Int, Above(n, t),
         ~ StoreClock(n), ~ StoreDeferredClock(n)
  PROVE  Above(n, t)'
<1>1. clock[n] \in Nat /\ lreg[n] \in Nat /\ clock'[n] \in Nat /\ lreg'[n] \in Nat
      /\ handlers[n] \subseteq Handler /\ handlers'[n] \subseteq Handler
  BY DEF TypeOK
<1>2. clock'[n] >= t
  <2>1. CASE HandleMsg(n)
    BY <1>1, <2>1 DEF HandleMsg, TypeOK, Above
  <2>2. ASSUME NEW h \in handlers[n], StoreAckClock(n, h) PROVE clock'[n] >= t
    <3>1. clock'[n] = h.reg + 1 /\ h.reg \in Nat /\ h.reg >= t
      BY <1>1, <2>2 DEF StoreAckClock, TypeOK, Above, Handler
    <3> QED
      BY <3>1
  <2> QED
    BY <2>1, <2>2, ClockBy DEF Above
<1>3. ASSUME lmsg'[n] # Nothing PROVE lreg'[n] > t
  <2>1. CASE lmsg[n] # Nothing /\ lmsg'[n] = lmsg[n] /\ lreg'[n] = lreg[n]
    BY <2>1 DEF Above
  <2>2. CASE ~ (lmsg[n] # Nothing /\ lmsg'[n] = lmsg[n] /\ lreg'[n] = lreg[n])
    <3>1. lreg'[n] > clock[n]
      BY <1>3, <2>2, LregBy
    <3> QED
      BY <1>1, <3>1 DEF Above
  <2> QED
    BY <2>1, <2>2
<1>4. ASSUME NEW k \in handlers'[n], k.pc = "store" PROVE k.reg >= t
  <2>1. k \in handlers[n] \/ k.reg = clock[n]
    BY <1>4, RegBy
  <2> QED
    BY <1>4, <2>1 DEF Above
<1> QED
  BY <1>2, <1>3, <1>4 DEF Above

LEMMA FreshStep ==
  ASSUME [Next]_vars, NEW n \in Nodes, TypeOK, TypeOK', NEW t \in Int, Fresh(n, t)
  PROVE  Fresh(n, t)'
<1>1. clock[n] \in Nat /\ lreg[n] \in Nat /\ creg[n] \in Nat /\ clock'[n] \in Nat
      /\ handlers[n] \subseteq Handler
  BY DEF TypeOK
<1>2. clock'[n] > t
  <2>1. CASE HandleMsg(n)
    BY <1>1, <2>1 DEF HandleMsg, TypeOK, Above, Fresh
  <2>2. ASSUME NEW h \in handlers[n], StoreAckClock(n, h) PROVE clock'[n] > t
    <3>1. clock'[n] = h.reg + 1 /\ h.reg \in Nat /\ h.reg >= t
      BY <1>1, <2>2 DEF StoreAckClock, TypeOK, Above, Fresh, Handler
    <3> QED
      BY <3>1
  <2>3. CASE StoreClock(n) \/ StoreDeferredClock(n)
    <3>1. clock'[n] = creg[n] + 1 /\ creg[n] >= t
      BY <2>3 DEF StoreClock, StoreDeferredClock, Go, TypeOK, Fresh
    <3> QED
      BY <1>1, <3>1
  <2> QED
    BY <2>1, <2>2, <2>3, ClockBy DEF Fresh
<1>3. Above(n, t)'
  <2>1. CASE StoreClock(n) \/ StoreDeferredClock(n)
    <3>1. UNCHANGED <<lmsg, lreg, handlers>>
      BY <2>1 DEF StoreClock, StoreDeferredClock, listenVars
    <3> QED
      BY <1>1, <1>2, <3>1 DEF Above, Fresh
  <2>2. CASE ~ StoreClock(n) /\ ~ StoreDeferredClock(n)
    BY <2>2, AboveStep DEF Fresh
  <2> QED
    BY <2>1, <2>2
<1>4. ASSUME cpc'[n] \in {"store", "ackStore"} PROVE creg'[n] >= t
  <2>1. (cpc'[n] = cpc[n] /\ creg'[n] = creg[n]) \/ creg'[n] = clock[n]
    BY <1>4, CregBy
  <2> QED
    BY <1>1, <1>4, <2>1 DEF Fresh
<1> QED
  BY <1>2, <1>3, <1>4 DEF Fresh

\* A handler that is giving its REQ_ACK has granted the request.
LEMMA Giver ==
  ASSUME TypeOK, Conserved, NEW n \in Nodes, NEW h \in handlers[n], h.pc \in {"load", "store", "send"}
  PROVE  /\ h.action = "request" /\ h.node \in Nodes /\ h.node # n
         /\ cpc[h.node] = "request" /\ Stages(h.node, n) = {"handler"}
         /\ ~ Held(h.node, n)
<1>1. Goroutines /\ Answers
  BY DEF Conserved
<1>2. h.action = "request"
  <2>1. h.pc \in PlacesOf(h.action) /\ h.action \in {"request", "ack"}
    BY <1>1, HandlerType DEF Goroutines
  <2> QED
    BY <2>1 DEF PlacesOf
<1>3. /\ h.node \in Nodes /\ h.node # n /\ cpc[h.node] = "request"
      /\ Stages(h.node, n) = {"handler"}
  BY <1>1, <1>2, RequestIsOngoing
<1>4. ~ Unsent(h.node, n) /\ ~ Listening(h.node, n) /\ ~ Queued(h.node, n)
  BY <1>3, StageOf
<1>5. ~ AtHandler(h.node, n, {"check", "compare", "insert"})
  BY <1>1, <1>2 DEF AtHandler, Goroutines
<1> QED
  BY <1>2, <1>3, <1>4, <1>5 DEF Held

\* Of two requests only one is granted by the node of the other.
LEMMA GrantedOnce ==
  ASSUME TypeOK, Ordered, NEW n \in Nodes, NEW m \in Nodes, n # m, Active(n), Active(m),
         ~ Held(n, m), ~ Held(m, n)
  PROVE  FALSE
  BY BeforeTotal DEF Ordered

\* With two nodes, handleMsg, the handlers and the draining client of one node do not work
\* for the other at the same time: its request is at one place.
LEMMA OneWriter ==
  ASSUME TypeOK, Conserved, TwoNodes, NEW n \in Nodes, NEW m \in Nodes, n # m,
         Listening(m, n) \/ cpc[n] \in {"ackStore", "ackSend"}
  PROVE  /\ \A h \in handlers[n] : h.pc # "store"
         /\ Listening(m, n) => cpc[n] \notin {"ackStore", "ackSend"}
<1>1. Answers /\ Broadcasts
  BY DEF Conserved
<1>2. cpc[n] \in {"ackStore", "ackSend"} => Drained(m, n)
  <2>1. ASSUME cpc[n] \in {"ackStore", "ackSend"} PROVE Drained(m, n)
    <3>1. PICK d \in Nodes \ {n} : unsent[n] = {d}
      BY <1>1, <2>1 DEF Broadcasts
    <3>2. d = m
      BY <3>1 DEF TwoNodes
    <3> QED
      BY <2>1, <3>1, <3>2 DEF Drained
  <2> QED
    BY <2>1
<1>3. \A s, t \in Stages(m, n) : s = t
  BY <1>1 DEF Answers
<1>4. ~ (Listening(m, n) /\ Drained(m, n))
  BY <1>3, StageOf
<1>5. ASSUME NEW h \in handlers[n], h.pc = "store" PROVE FALSE
  <2>1. h.node \in Nodes /\ h.node # n /\ Stages(h.node, n) = {"handler"}
    BY <1>5, Giver
  <2>2. h.node = m
    BY <2>1 DEF TwoNodes
  <2> QED
    BY <1>2, <2>1, <2>2, StageOf
<1> QED
  BY <1>2, <1>4, <1>5

\* The steps of the client.
LEMMA ClientMovesBy ==
  ASSUME [Next]_vars, NEW n \in Nodes, TypeOK
  PROVE  cpc'[n] = cpc[n] \/ AcquireLock(n) \/ ClientStep(n)
<1>1. CASE UNCHANGED vars
  BY <1>1 DEF vars, clientVars
<1>2. ASSUME NEW i \in Nodes, NEW h \in handlers[i], HandlerStep(i, h) PROVE cpc'[n] = cpc[n]
  BY <1>2 DEF HandlerStep, CheckOngoing, CompareRequests, DeferRequest, LoadAckClock,
     StoreAckClock, SendAck, CountAck, clientVars
<1>3. ASSUME NEW i \in Nodes, AcquireLock(i) \/ ClientStep(i) \/ HandleMsg(i)
      PROVE  cpc'[n] = cpc[n] \/ AcquireLock(n) \/ ClientStep(n)
  <2>1. CASE i = n /\ ~ HandleMsg(n)
    BY <1>3, <2>1
  <2>2. CASE HandleMsg(i)
    BY <2>2 DEF HandleMsg, clientVars
  <2>3. CASE i # n /\ ~ HandleMsg(i)
    BY <1>3, <2>3 DEF AcquireLock, ClientStep, LoadClock, StoreClock, StampRequest,
       EnterCS, BroadcastRequest, ReleaseLock, ExtractDeferred, StoreDeferredClock,
       SendDeferredAck, DrainDone, ClearOngoing, Go, TypeOK
  <2> QED
    BY <2>1, <2>2, <2>3
<1> QED
  BY <1>1, <1>2, <1>3 DEF Next

\* Where a node is before it stores, before it stamps, while it requests, and elsewhere.
LEMMA ClientFrom ==
  ASSUME [Next]_vars, NEW n \in Nodes, TypeOK
  PROVE  /\ cpc'[n] = "store" => cpc[n] = "store" \/ LoadClock(n)
         /\ cpc'[n] = "stamp" => cpc[n] = "stamp" \/ StoreClock(n)
         /\ cpc'[n] = "request" => cpc[n] = "request" \/ StampRequest(n)
         /\ cpc'[n] = "ackSend" => cpc[n] = "ackSend" \/ StoreDeferredClock(n)
         /\ cpc'[n] \notin {"store", "stamp", "request"} =>
              cpc[n] \notin {"store", "stamp", "request"} \/ EnterCS(n)
         /\ cpc[n] = "request" => cpc'[n] = "request" \/ EnterCS(n)
         /\ cpc[n] \in {"store", "stamp"} =>
              cpc'[n] = cpc[n] \/ (cpc[n] = "store" /\ cpc'[n] = "stamp") \/ StampRequest(n)
         /\ cpc'[n] = cpc[n] => ~ StoreClock(n) /\ ~ StoreDeferredClock(n)
<1>1. cpc'[n] = cpc[n] => ~ StoreClock(n) /\ ~ StoreDeferredClock(n)
  BY DEF StoreClock, StoreDeferredClock, Go, TypeOK
<1>2. CASE cpc'[n] = cpc[n]
  BY <1>1, <1>2
<1>3. CASE AcquireLock(n) \/ ClientStep(n)
  BY <1>1, <1>3 DEF AcquireLock, ClientStep, LoadClock, StoreClock, StampRequest,
     EnterCS, BroadcastRequest, ReleaseLock, ExtractDeferred, StoreDeferredClock,
     SendDeferredAck, DrainDone, ClearOngoing, Go, TypeOK
<1> QED
  BY <1>2, <1>3, ClientMovesBy

LEMMA CSFrom ==
  ASSUME [Next]_vars, NEW n \in Nodes, TypeOK, cpc'[n] = "cs"
  PROVE  cpc[n] = "cs" \/ EnterCS(n)
<1>1. CASE AcquireLock(n) \/ ClientStep(n)
  BY <1>1 DEF AcquireLock, ClientStep, LoadClock, StoreClock, StampRequest,
     EnterCS, BroadcastRequest, ReleaseLock, ExtractDeferred, StoreDeferredClock,
     SendDeferredAck, DrainDone, ClearOngoing, Go, TypeOK
<1> QED
  BY <1>1, ClientMovesBy

\* A handler finishes, or goes on with the same message.
LEMMA HandlerGoesOn ==
  ASSUME TypeOK, Conserved, NEW n \in Nodes, NEW h \in handlers[n], HandlerStep(n, h)
  PROVE  Finish(n, h) \/ \E k : HandlerMoves(n, h, k)
<1>1. Goroutines /\ Answers /\ h \in Handler
  BY HandlerType DEF Conserved
<1>2. CASE CheckOngoing(n, h)
  BY <1>1, <1>2, CheckMoves
<1>3. CASE CompareRequests(n, h) \/ LoadAckClock(n, h) \/ StoreAckClock(n, h)
  BY <1>1, <1>3, ComparesOrLoads
<1>4. CASE DeferRequest(n, h) \/ SendAck(n, h) \/ CountAck(n, h)
  BY <1>4 DEF DeferRequest, SendAck, CountAck
<1> QED
  BY <1>2, <1>3, <1>4 DEF HandlerStep

\* An answer comes to its handler through handleMsg.
LEMMA AckBegins ==
  ASSUME TypeOK, Conserved, [Next]_vars, NEW n \in Nodes, NEW m \in Nodes,
         AckHandled(n, m)', ~ AckHandled(n, m)
  PROVE  HandleMsg(n) /\ AckListening(n, m)
<1>1. ~ UNCHANGED vars
  BY DEF vars, AckHandled
<1>2. PICK k \in handlers'[n] : k.action = "ack" /\ k.node = m /\ k \notin handlers[n]
  BY DEF AckHandled
<1>3. ASSUME NEW i \in Nodes, NEW h \in handlers[i], HandlerStep(i, h) PROVE FALSE
  <2>1. Goroutines
    BY DEF Conserved
  <2>2. CASE Finish(i, h)
    BY <1>2, <2>1, <2>2, FinishHandled
  <2>3. ASSUME NEW x, HandlerMoves(i, h, x) PROVE FALSE
    BY <2>3, BecomeFrame DEF HandlerMoves, HandledSame
  <2> QED
    BY <1>3, <2>2, <2>3, HandlerGoesOn
<1>4. ASSUME NEW i \in Nodes, AcquireLock(i) \/ ClientStep(i) \/ HandleMsg(i)
      PROVE  HandleMsg(n) /\ AckListening(n, m)
  <2>1. handlers'[n] # handlers[n]
    BY <1>2
  <2>2. i = n /\ HandleMsg(n)
    BY <1>4, <2>1 DEF AcquireLock, ClientStep, HandleMsg, LoadClock, StoreClock, StampRequest,
       EnterCS, BroadcastRequest, ReleaseLock, ExtractDeferred, StoreDeferredClock,
       SendDeferredAck, DrainDone, ClearOngoing, TypeOK
  <2>3. k = [action |-> lmsg[n].action, node |-> lmsg[n].node, timestamp |-> lmsg[n].timestamp,
             pc |-> "check", reg |-> 0]
    BY <1>2, <2>2 DEF HandleMsg, TypeOK
  <2>4. k.action = lmsg[n].action /\ k.node = lmsg[n].node
    BY <2>3
  <2> QED
    BY <1>2, <2>2, <2>4 DEF AckListening
<1> QED
  BY <1>1, <1>3, <1>4 DEF Next

\* An answer ends when it is counted.
LEMMA StagesEnd ==
  ASSUME TypeOK, Stamped, Conserved, [Next]_vars, NEW n \in Nodes, NEW m \in Nodes, n # m,
         Stages(n, m) # {}, Stages(n, m)' = {}
  PROVE  AckHandled(n, m)
<1>1. Goroutines /\ Broadcasts /\ Answers /\ Timestamps /\ Queues /\ Deferral /\ HolderInCS
  BY DEF Conserved
<1>2. ~ AnswerMoves
  <2>1. ~ Steady
    BY DEF Steady
  <2>2. ASSUME NEW a \in Nodes, NEW b \in Nodes, a # b, NEW t, MovesTo(a, b, t) PROVE FALSE
    BY <2>2 DEF MovesTo, OthersStay
  <2> QED
    BY <2>1, <2>2 DEF AnswerMoves
<1>3. ~ UNCHANGED vars
  <2>1. UNCHANGED vars => UNCHANGED <<cpc, unsent, lmsg, handlers, queue>>
    BY DEF vars, clientVars, fieldVars, listenVars
  <2>2. UNCHANGED vars => Steady
    BY <2>1, ClientFrame, ListenFrame, HandledFrame, QueuedFrame, StagesFrame
  <2> QED
    BY <1>2, <2>2 DEF AnswerMoves
<1>4. ASSUME NEW i \in Nodes, NEW h \in handlers[i], HandlerStep(i, h) PROVE AckHandled(n, m)
  <2>1. CountAck(i, h)
    BY <1>1, <1>2, <1>4, HandlerAnswers
  <2>2. h.node \in Nodes /\ h.node # i /\ OthersStay(i, h.node)
    BY <1>1, <2>1, CountAckStages
  <2>3. i = n /\ h.node = m
    BY <2>2 DEF OthersStay
  <2>4. h.action = "ack"
    <3>1. h.pc = "count" /\ h.pc \in PlacesOf(h.action) /\ h.action \in {"request", "ack"}
      BY <1>1, <2>1, HandlerType DEF CountAck, Goroutines
    <3> QED
      BY <3>1 DEF PlacesOf
  <2> QED
    BY <2>3, <2>4 DEF AckHandled
<1>5. ASSUME panic = "none", NEW i \in Nodes, AcquireLock(i) \/ ClientStep(i) \/ HandleMsg(i)
      PROVE  AckHandled(n, m)
  <2>1. StampRequest(i) \/ EnterCS(i)
    BY <1>1, <1>2, <1>5, ClientAnswers
  <2>2. CASE StampRequest(i)
    <3>1. Stages(n, m)' = IF n = i THEN {"unsent"} ELSE Stages(n, m)
      BY <1>1, <2>2, StampStages
    <3> QED
      BY <3>1
  <2>3. CASE EnterCS(i)
    BY <1>1, <2>3, QuietStages DEF Steady
  <2> QED
    BY <2>1, <2>2, <2>3
<1> QED
  BY <1>3, <1>4, <1>5 DEF Next, Running

\* The timestamp that a handler is about to send is the clock it has stored.
LEMMA SentRegBy ==
  ASSUME [Next]_vars, TypeOK, Conserved, NEW n \in Nodes, NEW k \in handlers'[n], k.pc = "send"
  PROVE  \/ k \in handlers[n]
         \/ \E h \in handlers[n] : /\ h.pc = "store" /\ h.action = k.action /\ h.node = k.node
                                   /\ k.reg = h.reg + 1
<1>1. CASE UNCHANGED vars
  BY <1>1 DEF vars
<1>2. ASSUME NEW i \in Nodes, NEW h \in handlers[i], HandlerStep(i, h), k \notin handlers[n]
      PROVE  /\ i = n /\ h.pc = "store" /\ h.action = k.action /\ h.node = k.node
             /\ k.reg = h.reg + 1
  <2>1. h \in Handler /\ Goroutines /\ Answers
    BY HandlerType DEF Conserved
  <2>2. ASSUME NEW x, Become(i, h, x) PROVE i = n /\ k = x
    BY <1>2, <2>2 DEF Become, TypeOK
  <2>3. \A pc : [h EXCEPT !.pc = pc].pc = pc
    BY <2>1 DEF Handler
  <2>4. ~ Finish(i, h)
    <3>1. handlers \in [Nodes -> SUBSET Handler]
      BY DEF TypeOK
    <3>2. Finish(i, h) => handlers'[n] \subseteq handlers[n]
      BY <3>1 DEF Finish
    <3> QED
      BY <1>2, <3>2
  <2>5. CASE StoreAckClock(i, h)
    <3>1. /\ [h EXCEPT !.pc = "send", !.reg = h.reg + 1].reg = h.reg + 1
          /\ [h EXCEPT !.pc = "send", !.reg = h.reg + 1].action = h.action
          /\ [h EXCEPT !.pc = "send", !.reg = h.reg + 1].node = h.node
      BY <2>1 DEF Handler
    <3> QED
      BY <2>2, <2>5, <3>1 DEF StoreAckClock
  <2>6. ~ LoadAckClock(i, h)
    <3>1. [h EXCEPT !.pc = "store", !.reg = clock[i]].pc = "store"
      BY <2>1 DEF Handler
    <3> QED
      BY <2>2, <3>1 DEF LoadAckClock
  <2>7. ASSUME NEW pc \in {"insert", "load", "compare", "count"},
               HandlerMoves(i, h, [h EXCEPT !.pc = pc])
        PROVE  FALSE
    <3>1. k = [h EXCEPT !.pc = pc]
      BY <2>2, <2>7 DEF HandlerMoves
    <3>2. k.pc = pc
      BY <2>3, <3>1
    <3> QED
      BY <3>2
  <2>8. ~ CompareRequests(i, h) /\ ~ CheckOngoing(i, h)
    BY <2>1, <2>7, ComparesOrLoads, CheckMoves
  <2> QED
    BY <1>2, <2>4, <2>5, <2>6, <2>8 DEF HandlerStep, DeferRequest, SendAck, CountAck
<1>3. ASSUME NEW i \in Nodes, AcquireLock(i) \/ ClientStep(i) \/ HandleMsg(i)
      PROVE  k \in handlers[n]
  <2>1. CASE HandleMsg(i)
    BY <2>1 DEF HandleMsg, TypeOK
  <2>2. CASE ~ HandleMsg(i)
    BY <1>3, <2>2 DEF AcquireLock, ClientStep, LoadClock, StoreClock, StampRequest,
       EnterCS, BroadcastRequest, ReleaseLock, ExtractDeferred, StoreDeferredClock,
       SendDeferredAck, DrainDone, ClearOngoing
  <2> QED
    BY <2>1, <2>2
<1> QED
  BY <1>1, <1>2, <1>3 DEF Next

\* A REQ_ACK comes from a handler, or from the client that drains its queue.
LEMMA AckSentBy ==
  ASSUME [Next]_vars, TypeOK, Conserved, NEW n \in Nodes, NEW m \in Nodes, n # m,
         AckListening(m, n)', ~ AckListening(m, n)
  PROVE  \/ SendDeferredAck(n, m)
         \/ \E h \in handlers[n] : SendAck(n, h) /\ h.node = m
<1>1. ~ UNCHANGED vars
  BY DEF vars, listenVars, AckListening
<1>2. ASSUME NEW i \in Nodes, NEW h \in handlers[i], HandlerStep(i, h)
      PROVE  i = n /\ SendAck(n, h) /\ h.node = m
  <2>1. SendAck(i, h)
    BY <1>2 DEF HandlerStep, CheckOngoing, CompareRequests, DeferRequest, LoadAckClock,
       StoreAckClock, CountAck, listenVars, AckListening
  <2>2. h.node \in Nodes /\ Send(i, h.node, "ack", h.reg)
    BY <2>1, HandlerType DEF SendAck
  <2> QED
    BY <2>1, <2>2, SendListens
<1>3. ASSUME NEW i \in Nodes, AcquireLock(i) \/ ClientStep(i) \/ HandleMsg(i)
      PROVE  SendDeferredAck(n, m)
  <2>1. ASSUME NEW b \in Nodes, BroadcastRequest(i, b) PROVE FALSE
    BY <2>1, SendListens DEF BroadcastRequest
  <2>2. ASSUME NEW b \in Nodes, SendDeferredAck(i, b) PROVE i = n /\ b = m
    BY <2>2, SendListens DEF SendDeferredAck
  <2>3. ~ HandleMsg(i)
    <3>1. HandleMsg(i) => lmsg'[m] \in {lmsg[m], Nothing}
      BY DEF HandleMsg, TypeOK
    <3>2. Nothing.action # "ack"
      BY DEF Nothing
    <3> QED
      BY <3>1, <3>2 DEF AckListening
  <2> QED
    BY <1>3, <2>1, <2>2, <2>3 DEF AcquireLock, ClientStep, LoadClock, StoreClock, StampRequest,
       EnterCS, ReleaseLock, ExtractDeferred, StoreDeferredClock, DrainDone, ClearOngoing,
       listenVars, AckListening
<1> QED
  BY <1>1, <1>2, <1>3 DEF Next

\* Each node is above the timestamp of its own last request.
OwnClock ==
    \A n \in Nodes :
        /\ Fresh(n, lastReqTimestamp[n] - 1)
        /\ cpc[n] = "ackStore" => creg[n] >= lastReqTimestamp[n]
        /\ cpc[n] = "ackSend" => creg[n] > lastReqTimestamp[n]

\* No store puts the clock of a node back, while it does not wait for answers.
Level ==
    \A n \in Nodes :
        /\ cpc[n] = "stamp" => Above(n, clock[n] - 1)
        /\ cpc[n] = "store" => Above(n, creg[n])
        /\ cpc[n] \notin {"store", "stamp", "request"} => Above(n, clock[n])
        /\ cpc[n] = "request" /\ lmsg[n] # Nothing =>
             \A m \in Nodes \ {n} : AckHandled(n, m) \/ Stages(n, m) = {} => lreg[n] > clock[n]

\* A node that does not wait for answers stores a clock when nobody else is about to.
LEMMA LastWriter ==
  ASSUME [Next]_vars, TypeOK, TypeOK', Conserved, TwoNodes, NEW n \in Nodes, cpc[n] # "request",
         HandleMsg(n) \/ StoreDeferredClock(n) \/ \E h \in handlers[n] : StoreAckClock(n, h)
  PROVE  Above(n, clock[n])'
<1>1. Goroutines /\ Answers /\ Broadcasts
  BY DEF Conserved
<1>2. clock'[n] \in Nat /\ clock[n] \in Nat
  BY DEF TypeOK
<1>3. lmsg[n] # Nothing => \E m \in Nodes \ {n} : Listening(m, n)
  <2> SUFFICES ASSUME lmsg[n] # Nothing PROVE \E m \in Nodes \ {n} : Listening(m, n)
    OBVIOUS
  <2>1. PICK m \in Nodes \ {n} : m = lmsg[n].node /\ lmsg[n].action \in {"request", "ack"}
    BY <1>1 DEF TypeOK, Message, Goroutines
  <2>2. ~ AckListening(n, m)
    BY <1>1, <2>1, StageOf DEF Answers
  <2> QED
    BY <2>1, <2>2 DEF Listening, AckListening
<1>4. /\ lmsg[n] # Nothing => \A h \in handlers[n] : h.pc # "store"
      /\ lmsg[n] # Nothing => cpc[n] # "ackStore"
  BY <1>3, OneWriter
<1>5. CASE HandleMsg(n)
  <2>1. lmsg'[n] = Nothing /\ lmsg[n] # Nothing
    BY <1>5 DEF HandleMsg, TypeOK
  <2>2. \A k \in handlers'[n] : k.pc # "store"
    BY <1>4, <1>5, <2>1 DEF HandleMsg, TypeOK
  <2> QED
    BY <1>2, <2>1, <2>2 DEF Above
<1>6. CASE StoreDeferredClock(n)
  <2>1. cpc[n] = "ackStore" /\ UNCHANGED <<lmsg, handlers>>
    BY <1>6 DEF StoreDeferredClock, Go, listenVars
  <2>2. PICK m \in Nodes \ {n} : unsent[n] = {m}
    BY <1>1, <2>1 DEF Broadcasts
  <2>3. \A h \in handlers[n] : h.pc # "store"
    BY <2>1, <2>2, OneWriter
  <2>4. lmsg[n] = Nothing
    BY <1>4, <2>1
  <2> QED
    BY <1>2, <2>1, <2>3, <2>4 DEF Above
<1>7. ASSUME NEW h \in handlers[n], StoreAckClock(n, h) PROVE Above(n, clock[n])'
  <2>1. h.pc = "store" /\ lmsg' = lmsg
    BY <1>7 DEF StoreAckClock, listenVars
  <2>2. lmsg[n] = Nothing
    BY <1>4, <2>1
  <2>3. ASSUME NEW k \in handlers'[n], k.pc = "store" PROVE FALSE
    <3>1. h \in Handler /\ [h EXCEPT !.pc = "send", !.reg = h.reg + 1].pc = "send"
      BY HandlerType DEF Handler
    <3>2. k \in handlers[n] /\ k # h
      BY <1>7, <2>3, <3>1 DEF StoreAckClock, Become, TypeOK
    <3>3. /\ h.action = "request" /\ h.node \in Nodes /\ h.node # n
          /\ k.action = "request" /\ k.node \in Nodes /\ k.node # n
      BY <2>1, <2>3, <3>2, Giver
    <3>4. h.node = k.node
      BY <3>3 DEF TwoNodes
    <3> QED
      BY <1>1, <3>2, <3>3, <3>4 DEF Goroutines
  <2> QED
    BY <1>2, <2>1, <2>2, <2>3 DEF Above
<1> QED
  BY <1>5, <1>6, <1>7

\* The last timestamp changes only when a request is stamped.
LEMMA StampBy ==
  ASSUME TypeOK, Stamped, Conserved, [Next]_vars, NEW n \in Nodes, ~ StampRequest(n)
  PROVE  lastReqTimestamp'[n] = lastReqTimestamp[n]
<1>1. CASE UNCHANGED vars
  BY <1>1 DEF vars, fieldVars
<1>2. ASSUME NEW i \in Nodes, NEW h \in handlers[i], HandlerStep(i, h)
      PROVE  lastReqTimestamp'[n] = lastReqTimestamp[n]
  BY <1>2, HandlerLeaves
<1>3. ASSUME NEW i \in Nodes, AcquireLock(i) \/ ClientStep(i) \/ HandleMsg(i)
      PROVE  lastReqTimestamp'[n] = lastReqTimestamp[n]
  BY <1>3, OwnByClient
<1> QED
  BY <1>1, <1>2, <1>3 DEF Next

\* Nor does the timestamp of a REQ_ACK, until it is sent.
LEMMA SendRegStays ==
  ASSUME TypeOK, [Next]_vars, NEW n \in Nodes, cpc[n] = "ackSend", cpc'[n] = "ackSend"
  PROVE  creg'[n] = creg[n]
<1>1. CASE UNCHANGED vars
  BY <1>1 DEF vars, clientVars
<1>2. ASSUME NEW i \in Nodes, NEW h \in handlers[i], HandlerStep(i, h) PROVE creg'[n] = creg[n]
  BY <1>2 DEF HandlerStep, CheckOngoing, CompareRequests, DeferRequest, LoadAckClock,
     StoreAckClock, SendAck, CountAck, clientVars
<1>3. ASSUME NEW i \in Nodes, AcquireLock(i) \/ ClientStep(i) \/ HandleMsg(i)
      PROVE  creg'[n] = creg[n]
  <2>1. CASE i = n
    BY <1>3, <2>1 DEF AcquireLock, HandleMsg, ClientStep, LoadClock, StoreClock, StampRequest,
       EnterCS, BroadcastRequest, ReleaseLock, ExtractDeferred, StoreDeferredClock,
       SendDeferredAck, DrainDone, ClearOngoing, clientVars, Go, TypeOK
  <2>2. CASE i # n
    BY <1>3, <2>2 DEF AcquireLock, HandleMsg, ClientStep, LoadClock, StoreClock, StampRequest,
       EnterCS, BroadcastRequest, ReleaseLock, ExtractDeferred, StoreDeferredClock,
       SendDeferredAck, DrainDone, ClearOngoing, clientVars, Go, TypeOK
  <2> QED
    BY <2>1, <2>2
<1> QED
  BY <1>1, <1>2, <1>3 DEF Next

\* A request begins when it is stamped.
LEMMA ActiveBy ==
  ASSUME TypeOK, [Next]_vars, NEW n \in Nodes, ~ StampRequest(n), Active(n)'
  PROVE  Active(n)
<1>1. CASE cpc'[n] = "request"
  BY <1>1, ClientFrom DEF Active
<1>2. CASE cpc'[n] = "cs"
  <2>1. cpc[n] = "cs" \/ EnterCS(n)
    BY <1>2, CSFrom
  <2> QED
    BY <2>1 DEF EnterCS, Go, Active
<1> QED
  BY <1>1, <1>2 DEF Active

LEMMA OwnClockStep ==
  ASSUME TypeOK, TypeOK', Stamped, Conserved, [Next]_vars, OwnClock, Level
  PROVE  OwnClock'
<1> SUFFICES ASSUME NEW n \in Nodes
             PROVE  /\ Fresh(n, lastReqTimestamp[n] - 1)'
                    /\ cpc'[n] = "ackStore" => creg'[n] >= lastReqTimestamp'[n]
                    /\ cpc'[n] = "ackSend" => creg'[n] > lastReqTimestamp'[n]
  BY DEF OwnClock
<1>1. PICK t \in Int : t = lastReqTimestamp[n]
  BY IntType
<1>2. /\ clock[n] \in Nat /\ creg[n] \in Nat /\ lreg[n] \in Nat
      /\ Fresh(n, t - 1)
      /\ cpc[n] = "ackStore" => creg[n] >= t
      /\ cpc[n] = "ackSend" => creg[n] > t
  BY <1>1, IntType DEF OwnClock
<1>3. CASE StampRequest(n)
  <2>1. /\ cpc[n] = "stamp" /\ cpc'[n] = "request" /\ lastReqTimestamp'[n] = clock[n]
        /\ UNCHANGED <<clock, lmsg, lreg, handlers>>
    BY <1>3 DEF StampRequest, Go, TypeOK, listenVars
  <2>2. Above(n, clock[n] - 1)
    BY <2>1 DEF Level
  <2> QED
    BY <1>2, <2>1, <2>2 DEF Fresh, Above
<1>4. CASE ~ StampRequest(n)
  <2>1. lastReqTimestamp'[n] = t
    BY <1>1, <1>4, StampBy
  <2>2. t - 1 \in Int
    BY <1>1
  <2>3. Fresh(n, t - 1)'
    BY <1>2, <2>2, FreshStep
  <2>4. cpc'[n] = "ackStore" => creg'[n] >= t
    <3>1. clock[n] > t - 1
      BY <1>2 DEF Fresh
    <3>2. clock[n] >= t
      BY <1>1, <1>2, <3>1
    <3> QED
      BY <1>2, <3>2, CregBy
  <2>5. cpc'[n] = "ackSend" => creg'[n] > t
    <3>1. CASE cpc'[n] # cpc[n] /\ cpc'[n] = "ackSend"
      <4>1. StoreDeferredClock(n)
        BY <3>1, ClientFrom
      <4>2. cpc[n] = "ackStore" /\ creg'[n] = creg[n] + 1
        BY <4>1 DEF StoreDeferredClock, Go, TypeOK
      <4> QED
        BY <1>2, <4>2
    <3>2. CASE cpc'[n] = cpc[n] /\ cpc[n] = "ackSend"
      <4>1. creg'[n] = creg[n]
        BY <3>2, SendRegStays
      <4> QED
        BY <1>2, <3>2, <4>1
    <3> QED
      BY <3>1, <3>2
  <2>6. Fresh(n, lastReqTimestamp[n] - 1)' <=> Fresh(n, t - 1)'
    BY <2>1 DEF Fresh, Above
  <2> QED
    BY <2>1, <2>3, <2>4, <2>5, <2>6
<1> QED
  BY <1>3, <1>4

LEMMA LevelStep ==
  ASSUME TypeOK, TypeOK', Stamped, Conserved, [Next]_vars, TwoNodes, Ordered, Level
  PROVE  Level'
<1> SUFFICES ASSUME NEW n \in Nodes
             PROVE  /\ cpc'[n] = "stamp" => Above(n, clock[n] - 1)'
                    /\ cpc'[n] = "store" => Above(n, creg[n])'
                    /\ cpc'[n] \notin {"store", "stamp", "request"} => Above(n, clock[n])'
                    /\ cpc'[n] = "request" /\ lmsg'[n] # Nothing =>
                         \A m \in Nodes \ {n} :
                           AckHandled(n, m)' \/ Stages(n, m)' = {} => lreg'[n] > clock'[n]
  BY DEF Level
<1>1. /\ clock[n] \in Nat /\ creg[n] \in Nat /\ lreg[n] \in Nat /\ clock'[n] \in Nat
      /\ creg'[n] \in Nat /\ lreg'[n] \in Nat
      /\ handlers[n] \subseteq Handler /\ handlers'[n] \subseteq Handler
      /\ Goroutines /\ Answers /\ Broadcasts
  BY DEF TypeOK, Conserved
<1>2. ASSUME cpc'[n] = "stamp" PROVE Above(n, clock[n] - 1)'
  <2>1. CASE StoreClock(n)
    <3>1. /\ cpc[n] = "store" /\ clock'[n] = creg[n] + 1 /\ UNCHANGED <<lmsg, lreg, handlers>>
      BY <2>1 DEF StoreClock, Go, TypeOK, listenVars
    <3>2. Above(n, creg[n])
      BY <3>1 DEF Level
    <3> QED
      BY <1>1, <3>1, <3>2 DEF Above
  <2>2. CASE cpc[n] = "stamp"
    <3>1. CASE clock'[n] = clock[n]
      <4>1. PICK t \in Int : t = clock[n] - 1
        BY <1>1
      <4>2. Above(n, t)
        BY <2>2, <4>1 DEF Level
      <4>3. Above(n, t)'
        BY <1>2, <2>2, <4>2, ClientFrom, AboveStep
      <4> QED
        BY <3>1, <4>1, <4>3 DEF Above
    <3>2. CASE clock'[n] # clock[n]
      <4>1. Above(n, clock[n])'
        <5>1. ~ StoreClock(n)
          BY <2>2 DEF StoreClock, Go
        <5> QED
          BY <2>2, <3>2, <5>1, ClockBy, LastWriter
      <4> QED
        <5>1. \A x, c \in Nat : x >= c => x >= c - 1
          OBVIOUS
        <5>2. \A x, c \in Nat : x > c => x > c - 1
          OBVIOUS
        <5>3. \A h \in handlers'[n] : h.reg \in Nat
          BY <1>1 DEF Handler
        <5> QED
          BY <1>1, <4>1, <5>1, <5>2, <5>3 DEF Above
    <3> QED
      BY <3>1, <3>2
  <2> QED
    BY <1>2, <2>1, <2>2, ClientFrom
<1>3. ASSUME cpc'[n] = "store" PROVE Above(n, creg[n])'
  <2>1. CASE LoadClock(n)
    <3>1. /\ cpc[n] = "load" /\ creg'[n] = clock[n] /\ UNCHANGED <<clock, lmsg, lreg, handlers>>
      BY <2>1 DEF LoadClock, Go, TypeOK, listenVars
    <3>2. Above(n, clock[n])
      BY <3>1 DEF Level
    <3> QED
      BY <3>1, <3>2 DEF Above
  <2>2. CASE cpc[n] = "store" /\ ~ LoadClock(n)
    <3>1. PICK t \in Int : t = creg[n]
      BY <1>1
    <3>2. Above(n, t)
      BY <2>2, <3>1 DEF Level
    <3>3. Above(n, t)'
      BY <1>3, <2>2, <3>2, ClientFrom, AboveStep
    <3>4. creg'[n] = creg[n]
      <4>1. ~ ExtractDeferred(n)
        BY <2>2 DEF ExtractDeferred, Go
      <4> QED
        BY <1>3, <2>2, <4>1, CregBy
    <3> QED
      BY <3>1, <3>3, <3>4 DEF Above
  <2> QED
    BY <1>3, <2>1, <2>2, ClientFrom
<1>4. ASSUME cpc'[n] \notin {"store", "stamp", "request"} PROVE Above(n, clock[n])'
  <2>1. CASE EnterCS(n)
    <3>1. cpc[n] = "request" /\ UNCHANGED <<clock, lmsg, lreg, handlers>>
      BY <2>1 DEF EnterCS, Go, listenVars
    <3>2. \A m \in Nodes \ {n} : Stages(n, m) = {}
      BY <1>1, <2>1, EnterAnswers DEF Pending
    <3>3. lmsg[n] # Nothing => lreg[n] > clock[n]
      <4>1. lmsg[n] # Nothing => lmsg[n].node \in Nodes \ {n}
        BY <1>1 DEF TypeOK, Message, Goroutines
      <4> QED
        BY <3>1, <3>2, <4>1 DEF Level
    <3>4. ASSUME NEW h \in handlers[n], h.pc = "store" PROVE FALSE
      <4>1. /\ h.node \in Nodes /\ h.node # n /\ cpc[h.node] = "request" /\ ~ Held(h.node, n)
        BY <3>4, Giver
      <4>2. ~ Held(n, h.node)
        BY <1>1, <3>2, <4>1, HeldStage
      <4> QED
        BY <3>1, <4>1, <4>2, GrantedOnce DEF Active
    <3> QED
      BY <1>1, <3>1, <3>3, <3>4 DEF Above
  <2>2. CASE cpc[n] \notin {"store", "stamp", "request"}
    <3>1. ~ StoreClock(n)
      BY <2>2 DEF StoreClock, Go
    <3>2. CASE clock'[n] = clock[n] /\ ~ StoreDeferredClock(n)
      <4>1. PICK t \in Int : t = clock[n]
        BY <1>1
      <4>2. Above(n, t)
        BY <2>2, <4>1 DEF Level
      <4>3. Above(n, t)'
        BY <3>1, <3>2, <4>2, AboveStep
      <4> QED
        BY <3>2, <4>1, <4>3 DEF Above
    <3>3. CASE clock'[n] # clock[n] \/ StoreDeferredClock(n)
      BY <2>2, <3>1, <3>3, ClockBy, LastWriter
    <3> QED
      BY <3>2, <3>3
  <2> QED
    BY <1>4, <2>1, <2>2, ClientFrom
<1>5. ASSUME cpc'[n] = "request", lmsg'[n] # Nothing, NEW m \in Nodes \ {n},
             AckHandled(n, m)' \/ Stages(n, m)' = {}
      PROVE  lreg'[n] > clock'[n]
  <2>1. ~ StampRequest(n)
    <3>1. StampRequest(n) => Stages(n, m)' = {"unsent"}
      BY <1>1, StampStages DEF Conserved
    <3>2. AckHandled(n, m)' => "ackHandler" \in Stages(n, m)'
      BY DEF Stages, At, StageNames
    <3> QED
      BY <1>5, <3>1, <3>2
  <2>2. cpc[n] = "request"
    BY <1>5, <2>1, ClientFrom
  <2>3. ~ HandleMsg(n)
    BY <1>5 DEF HandleMsg, TypeOK
  <2>4. AckHandled(n, m) \/ Stages(n, m) = {}
    BY <1>5, <2>3, AckBegins, StagesEnd
  <2>5. CASE ~ (lmsg[n] # Nothing /\ lmsg'[n] = lmsg[n] /\ lreg'[n] = lreg[n])
    BY <1>5, <2>5, LregBy
  <2>6. CASE lmsg[n] # Nothing /\ lmsg'[n] = lmsg[n] /\ lreg'[n] = lreg[n]
    <3>1. lreg[n] > clock[n]
      BY <2>2, <2>4, <2>6 DEF Level
    <3>2. ASSUME NEW h \in handlers[n], StoreAckClock(n, h) PROVE FALSE
      <4>1. /\ h.node \in Nodes /\ h.node # n /\ cpc[h.node] = "request" /\ ~ Held(h.node, n)
        BY <3>2, Giver DEF StoreAckClock
      <4>2. h.node = m
        BY <4>1 DEF TwoNodes
      <4>3. ~ Held(n, m)
        <5>1. AckHandled(n, m) => Stages(n, m) = {"ackHandler"}
          BY <1>1, StageOf DEF Answers
        <5>2. ~ Unsent(n, m) /\ ~ Listening(n, m) /\ ~ Handled(n, m) /\ ~ Queued(n, m)
          BY <2>4, <5>1, StageOf
        <5> QED
          BY <5>2 DEF Held, AtHandler, Handled
      <4> QED
        BY <2>2, <4>1, <4>2, <4>3, GrantedOnce DEF Active
    <3>3. ~ StoreClock(n) /\ ~ StoreDeferredClock(n)
      BY <2>2 DEF StoreClock, StoreDeferredClock, Go
    <3> QED
      BY <2>3, <2>6, <3>1, <3>2, <3>3, ClockBy
  <2> QED
    BY <2>5, <2>6
<1> QED
  BY <1>2, <1>3, <1>4, <1>5

\* The last request of a node that has no request now precedes the requests of the other.
Inactive == \A n, m \in Nodes : n # m /\ Active(n) /\ ~ Active(m) => Before(Own(m), Own(n))

\* The answer of n to the request of m has yet to come, and carries more than the timestamp of n.
AckBrings(m, n) ==
    /\ ~ AckHandled(m, n)
    /\ Stages(m, n) # {}
    /\ \A h \in handlers[n] : h.action = "request" /\ h.node = m =>
         /\ h.pc = "store" => h.reg >= lastReqTimestamp[n]
         /\ h.pc = "send" => h.reg > lastReqTimestamp[n]
    /\ AckListening(m, n) => lreg[m] > lastReqTimestamp[n]

\* A node that has received a request has a clock above it, or it is about to put back an
\* earlier clock: then it defers the request, and the answer to its own brings its clock up.
Knows ==
    \A n, m \in Nodes : n # m /\ Known(n, m) =>
        \/ Fresh(m, lastReqTimestamp[n])
        \/ cpc[m] \in {"store", "stamp"} /\ Held(n, m)
        \/ cpc[m] = "request" /\ AckBrings(m, n)

LEMMA InactiveStep ==
  ASSUME TypeOK, Stamped, Conserved, [Next]_vars, Ordered, Inactive, Knows
  PROVE  Inactive'
<1> SUFFICES ASSUME NEW n \in Nodes, NEW m \in Nodes, n # m, Active(n)', ~ Active(m)'
             PROVE  Before(Own(m)', Own(n)')
  BY DEF Inactive, Before
<1>1. Answers /\ lastReqTimestamp[n] \in Int /\ lastReqTimestamp[m] \in Int /\ clock[n] \in Int
  BY IntType DEF Conserved
<1>2. ~ StampRequest(m)
  BY DEF StampRequest, Go, TypeOK, Active
<1>3. lastReqTimestamp'[m] = lastReqTimestamp[m]
  BY <1>2, StampBy
<1>4. CASE StampRequest(n)
  <2>1. cpc[n] = "stamp" /\ lastReqTimestamp'[n] = clock[n] /\ cpc'[m] = cpc[m]
    BY <1>4 DEF StampRequest, Go, TypeOK
  <2>2. cpc[m] # "request"
    BY <2>1 DEF Active
  <2>3. Known(m, n) /\ ~ Held(m, n)
    <3>1. Stages(m, n) = {}
      BY <1>1, <2>2 DEF Answers
    <3>2. ~ Held(m, n)
      BY <1>1, <2>2, HeldStage
    <3> QED
      BY <3>2 DEF Known, Held
  <2>4. Fresh(n, lastReqTimestamp[m])
    BY <2>1, <2>3 DEF Knows
  <2> QED
    BY <1>1, <1>3, <2>1, <2>4 DEF Fresh, Before, Own
<1>5. CASE ~ StampRequest(n)
  <2>1. lastReqTimestamp'[n] = lastReqTimestamp[n]
    BY <1>5, StampBy
  <2>2. Active(n)
    BY <1>5, ActiveBy
  <2>3. CASE ~ Active(m)
    BY <1>3, <2>1, <2>2, <2>3 DEF Inactive, Own
  <2>4. CASE Active(m)
    <3>1. cpc[m] = "cs"
      <4>1. cpc[m] = "request" => cpc'[m] \in {"request", "cs"}
        BY ClientFrom DEF EnterCS, Go, TypeOK
      <4> QED
        BY <2>4, <4>1 DEF Active
    <3>2. ~ Held(m, n)
      BY <1>1, <3>1, HeldStage
    <3> QED
      BY <1>3, <2>1, <2>2, <2>4, <3>2 DEF Ordered, Own
  <2> QED
    BY <2>3, <2>4
<1> QED
  BY <1>4, <1>5

\* The answer to m is not counted before it has brought its timestamp.
LEMMA AckBringsStep ==
  ASSUME TypeOK, TypeOK', Stamped, Conserved, [Next]_vars, OwnClock,
         NEW n \in Nodes, NEW m \in Nodes, n # m, cpc[m] = "request", AckBrings(m, n),
         lastReqTimestamp'[n] = lastReqTimestamp[n], ~ (HandleMsg(m) /\ AckListening(m, n))
  PROVE  cpc'[m] = "request" /\ AckBrings(m, n)'
<1>1. Answers
  BY DEF Conserved
<1>2. PICK t \in Int : t = lastReqTimestamp[n]
  BY IntType
<1>3. clock[n] \in Nat /\ clock[m] \in Nat /\ creg[n] \in Nat /\ clock[n] >= t
      /\ (cpc[n] = "ackSend" => creg[n] > t)
  <2>1. clock[n] \in Nat /\ clock[m] \in Nat /\ creg[n] \in Nat /\ clock[n] > t - 1
        /\ (cpc[n] = "ackSend" => creg[n] > t)
    BY <1>2, IntType DEF OwnClock, Fresh
  <2> QED
    BY <2>1
<1>4. ~ AckHandled(m, n) /\ Stages(m, n) # {} /\ (AckListening(m, n) => lreg[m] > t)
  BY <1>2 DEF AckBrings
<1>5. \A h \in handlers[n] : h.action = "request" /\ h.node = m =>
        (h.pc = "store" => h.reg >= t) /\ (h.pc = "send" => h.reg > t)
  BY <1>2 DEF AckBrings
<1>6. cpc'[m] = "request"
  <2>1. ~ EnterCS(m)
    BY <1>1, <1>4, EnterAnswers DEF Pending
  <2> QED
    BY <2>1, ClientFrom
<1>7. ~ AckHandled(m, n)'
  BY <1>4, AckBegins
<1>8. Stages(m, n)' # {}
  BY <1>4, StagesEnd
<1>9. ASSUME NEW k \in handlers'[n], k.action = "request", k.node = m
      PROVE  (k.pc = "store" => k.reg >= t) /\ (k.pc = "send" => k.reg > t)
  <2>1. k.pc = "store" => k \in handlers[n] \/ k.reg = clock[n]
    BY RegBy
  <2>2. ASSUME k.pc = "send", k \notin handlers[n] PROVE k.reg > t
    <3>1. PICK h \in handlers[n] : /\ h.pc = "store" /\ h.action = k.action /\ h.node = k.node
                                   /\ k.reg = h.reg + 1
      BY <2>2, SentRegBy
    <3>2. h.reg >= t /\ h.reg \in Nat
      BY <1>5, <1>9, <3>1, HandlerType
    <3> QED
      BY <3>1, <3>2
  <2> QED
    BY <1>3, <1>5, <1>9, <2>1, <2>2
<1>10. ASSUME AckListening(m, n)' PROVE lreg'[m] > t
  <2>1. CASE AckListening(m, n)
    <3>1. (lmsg[m] # Nothing /\ ~ HandleMsg(m) /\ ~ UNCHANGED vars) \/ lreg'[m] = lreg[m]
      BY <2>1 DEF AckListening, Nothing, vars, listenVars
    <3>2. lreg'[m] = lreg[m]
      BY <3>1, ListenerStays DEF Next
    <3> QED
      BY <1>4, <2>1, <3>2
  <2>2. CASE ~ AckListening(m, n)
    <3>1. CASE SendDeferredAck(n, m)
      <4>1. /\ lreg'[m] = 1 + (IF clock[m] > creg[n] THEN clock[m] ELSE creg[n])
            /\ cpc[n] = "ackSend"
        BY <3>1 DEF SendDeferredAck, Send, Go, TypeOK
      <4> QED
        BY <1>3, <4>1
    <3>2. ASSUME NEW h \in handlers[n], SendAck(n, h), h.node = m PROVE lreg'[m] > t
      <4>1. /\ lreg'[m] = 1 + (IF clock[m] > h.reg THEN clock[m] ELSE h.reg)
            /\ h.pc = "send"
        BY <3>2 DEF SendAck, Send, TypeOK
      <4>2. h.action = "request" /\ h.reg \in Nat
        BY <4>1, Giver, HandlerType
      <4>3. h.reg > t
        BY <1>5, <3>2, <4>1, <4>2
      <4> QED
        BY <1>3, <4>1, <4>2, <4>3
    <3> QED
      BY <1>10, <2>2, <3>1, <3>2, AckSentBy
  <2> QED
    BY <2>1, <2>2
<1>11. AckBrings(m, n)'
  <2>1. lastReqTimestamp'[n] = t
    BY <1>2
  <2> QED
    BY <1>7, <1>8, <1>9, <1>10, <2>1 DEF AckBrings
<1> QED
  BY <1>6, <1>11

LEMMA KnowsStep ==
  ASSUME TypeOK, TypeOK', Stamped, Conserved, [Next]_vars, TwoNodes, Heard, Ordered, OwnClock,
         Inactive, Knows
  PROVE  Knows'
<1> SUFFICES ASSUME NEW n \in Nodes, NEW m \in Nodes, n # m, Known(n, m)'
             PROVE  \/ Fresh(m, lastReqTimestamp[n])'
                    \/ cpc'[m] \in {"store", "stamp"} /\ Held(n, m)'
                    \/ cpc'[m] = "request" /\ AckBrings(m, n)'
  BY DEF Knows
<1>1. Answers /\ Goroutines /\ Broadcasts /\ Timestamps
  BY DEF Conserved
<1>2. PICK t \in Int : t = lastReqTimestamp[n]
  BY IntType
<1>3. lastReqTimestamp'[n] = t
  BY <1>2, StampUnknown
<1>4. Fresh(m, lastReqTimestamp[n])' <=> Fresh(m, t)'
  BY <1>3 DEF Fresh, Above
<1>5. clock[m] \in Nat /\ lreg[m] \in Nat /\ clock'[m] \in Nat
  BY DEF TypeOK
\* The request arrives.
<1>6. CASE ~ Known(n, m)
  <2>1. HandleMsg(m) /\ Listening(n, m)
    BY <1>6, KnownBegins
  <2>2. UNCHANGED <<cpc, creg>> /\ clock'[m] = lreg[m] /\ lmsg'[m] = Nothing
    BY <2>1 DEF HandleMsg, TypeOK, clientVars
  <2>3. lreg[m] > t
    BY <1>2, <2>1 DEF Heard
  <2>4. CASE cpc[m] = "store"
    <3>1. Held(n, m)
      BY <2>1 DEF Held
    <3>2. ~ ExtractDeferred(m)
      BY <2>4 DEF ExtractDeferred, Go
    <3>3. Running
      <4>1. ~ UNCHANGED vars
        BY <2>1 DEF HandleMsg, vars, listenVars, TypeOK
      <4> QED
        BY <4>1 DEF Next
    <3>4. Held(n, m)'
      BY <2>1, <3>1, <3>2, <3>3, HeldByClient DEF Running
    <3> QED
      BY <2>2, <2>4, <3>4
  <2>5. CASE cpc[m] # "store"
    <3>1. cpc[m] # "ackStore" /\ \A h \in handlers[m] : h.pc # "store"
      BY <2>1, OneWriter
    <3>2. \A k \in handlers'[m] : k.pc # "store"
      BY <2>1, <3>1 DEF HandleMsg, TypeOK
    <3> QED
      BY <1>4, <1>5, <2>2, <2>3, <2>5, <3>1, <3>2 DEF Fresh, Above
  <2> QED
    BY <2>4, <2>5
\* The clock is above it.
<1>7. CASE Fresh(m, lastReqTimestamp[n])
  BY <1>2, <1>4, <1>7, FreshStep
\* Its answer is deferred.
<1>8. CASE cpc[m] \in {"store", "stamp"} /\ Held(n, m)
  <2>1. cpc[n] = "request"
    BY <1>1, <1>8, HeldStage
  <2>2. Held(n, m)'
    <3>1. CASE UNCHANGED vars
      <4>1. UNCHANGED <<cpc, unsent, lmsg, handlers, queue>>
        BY <3>1 DEF vars, clientVars, fieldVars, listenVars
      <4> QED
        BY <1>8, <4>1 DEF Held, Unsent, Listening, AtHandler, Queued
    <3>2. ASSUME NEW i \in Nodes, NEW h \in handlers[i], HandlerStep(i, h) PROVE Held(n, m)'
      <4>1. Before(Own(m), Own(n))
        BY <1>8, <2>1 DEF Inactive, Active
      <4> QED
        BY <1>8, <3>2, <4>1, HeldByHandler, BeforeTotal
    <3>3. ASSUME panic = "none", NEW i \in Nodes, AcquireLock(i) \/ ClientStep(i) \/ HandleMsg(i)
          PROVE  Held(n, m)'
      BY <1>8, <3>3, HeldByClient
    <3> QED
      BY <3>1, <3>2, <3>3 DEF Next, Running
  <2>3. CASE StampRequest(m)
    <3>1. Stages(m, n)' = {"unsent"}
      BY <1>1, <2>3, StampStages
    <3>2. ~ AckHandled(m, n)' /\ ~ AckListening(m, n)' /\ ~ Handled(m, n)'
      BY <3>1 DEF Stages, At, StageNames
    <3>3. cpc'[m] = "request"
      BY <2>3 DEF StampRequest, Go, TypeOK
    <3> QED
      BY <3>1, <3>2, <3>3 DEF AckBrings, Handled
  <2>4. CASE ~ StampRequest(m)
    BY <1>8, <2>2, <2>4, ClientFrom
  <2> QED
    BY <2>3, <2>4
\* It was granted before its node answers the request of m.
<1>9. CASE cpc[m] = "request" /\ AckBrings(m, n)
  <2>1. CASE HandleMsg(m) /\ AckListening(m, n)
    <3>1. UNCHANGED cpc /\ clock'[m] = lreg[m] /\ lmsg'[m] = Nothing
      BY <2>1 DEF HandleMsg, TypeOK, clientVars
    <3>2. lreg[m] > t
      BY <1>2, <1>9, <2>1 DEF AckBrings
    <3>3. ASSUME NEW h \in handlers[m], h.pc = "store" PROVE FALSE
      <4>1. h.node \in Nodes /\ h.node # m /\ cpc[h.node] = "request" /\ ~ Held(h.node, m)
        BY <3>3, Giver
      <4>2. h.node = n
        BY <4>1 DEF TwoNodes
      <4>3. ~ Held(m, n)
        <5>1. Stages(m, n) = {"ackListen"}
          BY <1>1, <2>1, StageOf DEF Answers
        <5>2. ~ Unsent(m, n) /\ ~ Listening(m, n) /\ ~ Handled(m, n) /\ ~ Queued(m, n)
          BY <5>1, StageOf
        <5> QED
          BY <5>2 DEF Held, AtHandler, Handled
      <4> QED
        BY <1>9, <4>1, <4>2, <4>3, GrantedOnce DEF Active
    <3>4. \A k \in handlers'[m] : k.pc # "store"
      <4> DEFINE h == [action |-> lmsg[m].action, node |-> lmsg[m].node,
                       timestamp |-> lmsg[m].timestamp, pc |-> "check", reg |-> 0]
      <4>1. handlers'[m] = handlers[m] \cup {h}
        BY <2>1 DEF HandleMsg, TypeOK
      <4>2. h.pc # "store"
        OBVIOUS
      <4> QED
        BY <4>1, <4>2, <3>3
    <3> QED
      BY <1>4, <1>5, <1>9, <3>1, <3>2, <3>4 DEF Fresh, Above
  <2>2. CASE ~ (HandleMsg(m) /\ AckListening(m, n))
    BY <1>2, <1>3, <1>9, <2>2, AckBringsStep
  <2> QED
    BY <2>1, <2>2
<1> QED
  BY <1>6, <1>7, <1>8, <1>9 DEF Knows

TwoInv == /\ TypeOK /\ Stamped /\ Conserved /\ Ordered /\ Heard /\ MutualExclusion
          /\ OwnClock /\ Level /\ Inactive /\ Knows

LEMMA InitTwo == Init => TwoInv
<1> SUFFICES ASSUME Init PROVE TwoInv
  OBVIOUS
<1>1. TypeOK /\ Stamped /\ Conserved /\ Ordered /\ Heard /\ MutualExclusion
  BY InitType, InitStamped, InitConserved, InitOrdered, InitHeard
<1>2. ASSUME NEW n \in Nodes
      PROVE  /\ lmsg[n] = Nothing /\ handlers[n] = {} /\ cpc[n] = "idle"
             /\ clock[n] = 0 /\ lastReqTimestamp[n] = -1
  BY DEF Init
<1>3. OwnClock
  BY <1>2 DEF OwnClock, Fresh, Above
<1>4. Level
  BY <1>2 DEF Level, Above
<1>5. Inactive
  BY <1>2 DEF Inactive, Active
<1>6. Knows
  BY <1>2 DEF Knows, Fresh, Above
<1> QED
  BY <1>1, <1>3, <1>4, <1>5, <1>6 DEF TwoInv

LEMMA StepTwo == TwoNodes /\ TwoInv /\ [Next]_vars => TwoInv'
<1> SUFFICES ASSUME TwoNodes, TwoInv, [Next]_vars PROVE TwoInv'
  OBVIOUS
<1>1. /\ TypeOK /\ Stamped /\ Conserved /\ Ordered /\ Heard /\ MutualExclusion
      /\ OwnClock /\ Level /\ Inactive /\ Knows
  BY DEF TwoInv
<1>2. TypeOK' /\ Stamped'
  BY <1>1, StepType, StampedStep
<1>3. Conserved'
  BY <1>1, StepConserved
<1>4. Heard' /\ MutualExclusion'
  BY <1>1, HeardStep, SafetyStep
<1>5. Ordered'
  <2>1. ASSUME NEW n \in Nodes, NEW m \in Nodes, n # m, StampRequest(m), Active(n), Known(n, m),
               ~ Held(n, m)
        PROVE  clock[m] > lastReqTimestamp[n]
    <3>1. cpc[m] = "stamp"
      BY <2>1 DEF StampRequest, Go
    <3> QED
      BY <1>1, <2>1, <3>1 DEF Knows, Fresh
  <2> QED
    BY <1>1, <2>1, OrderedStep
<1>6. OwnClock' /\ Level'
  BY <1>1, <1>2, OwnClockStep, LevelStep
<1>7. Inactive' /\ Knows'
  BY <1>1, <1>2, InactiveStep, KnowsStep
<1> QED
  BY <1>2, <1>3, <1>4, <1>5, <1>6, <1>7 DEF TwoInv

LEMMA AtMostTwo == Cardinality(Nodes) <= 2 => TwoNodes
<1> SUFFICES ASSUME NEW a \in Nodes, NEW b \in Nodes, NEW c \in Nodes, a # b, a # c, b # c
             PROVE  ~ (Cardinality(Nodes) <= 2)
  BY DEF TwoNodes
<1>1. IsFiniteSet({a}) /\ Cardinality({a}) = 1
  BY FS_Singleton
<1>2. IsFiniteSet({a} \cup {b}) /\ Cardinality({a} \cup {b}) = 2
  BY <1>1, FS_AddElement
<1>3. IsFiniteSet(({a} \cup {b}) \cup {c}) /\ Cardinality(({a} \cup {b}) \cup {c}) = 3
  BY <1>2, FS_AddElement
<1>4. IsFiniteSet(Nodes) /\ ({a} \cup {b}) \cup {c} \subseteq Nodes
  BY NodesAssumption
<1>5. Cardinality(({a} \cup {b}) \cup {c}) <= Cardinality(Nodes)
  BY <1>4, FS_Subset
<1>6. Cardinality(Nodes) \in Nat
  BY <1>4, FS_CardinalityType
<1> QED
  BY <1>3, <1>5, <1>6

\* With at most two nodes, no two are ever in the critical section, although n.clock++ and
\* handleMsg run unlocked and lose updates of the clock.
THEOREM TwoNodesExclude == ASSUME Cardinality(Nodes) <= 2 PROVE Spec => []MutualExclusion
<1>1. TwoInv => MutualExclusion
  BY DEF TwoInv
<1>2. TwoNodes
  BY AtMostTwo
<1> QED
  BY <1>1, <1>2, InitTwo, StepTwo, PTL DEF Spec

\* With at most two nodes, the node in the critical section has the earliest request.
THEOREM TwoNodesEarliest == ASSUME Cardinality(Nodes) <= 2 PROVE Spec => []EarliestEnters
<1>1. TwoInv => EarliestEnters
  BY OrderedEnters DEF TwoInv
<1>2. TwoNodes
  BY AtMostTwo
<1> QED
  BY <1>1, <1>2, InitTwo, StepTwo, PTL DEF Spec
=============================================================================
