---------------------------- MODULE LamportProofs ----------------------------
(***************************************************************************)
(* The proofs about Lamport's lock, for every finite set of nodes and any  *)
(* number of requests.  Whatever the interleaving: the mutexes pass from   *)
(* goroutine to goroutine, each node answers each request once, and no     *)
(* queue is popped when it is empty.  For requests that are spaced apart:  *)
(* the queues agree and the lock excludes.                                 *)
(***************************************************************************)
EXTENDS LamportQueue, PriorityQueueProofs, FunctionTheorems, SequenceTheorems,
        FiniteSetTheorems, TLAPS

-----------------------------------------------------------------------------
(***************************************************************************)
(* What is on the way.                                                     *)
(***************************************************************************)

\* The places in channel d of the messages of n with an action, and the handlers that
\* node d has for them.
Sent(n, d, action) ==
    {i \in 1..Len(channel[d]) : channel[d][i].node = n /\ channel[d][i].action = action}

Handled(n, d, action) == {h \in handlers[d] : h.node = n /\ h.action = action}

SentN(n, d, action) == Cardinality(Sent(n, d, action))
HandledN(n, d, action) == Cardinality(Handled(n, d, action))

\* The number of steps that still have to answer the request of n, for d: 0 or 1.
Pending(n, d) ==
    SentN(n, d, "request") + HandledN(n, d, "request") + SentN(d, n, "ack") + HandledN(d, n, "ack")

\* The number of goroutines of n at a place.
AtPlace(n, pc) == {h \in handlers[n] : h.pc = pc}
At(n, pc) == Cardinality(AtPlace(n, pc))

\* The request of m, made or about to be, is not in the queue of d.
InsertPending(m, d) ==
    \/ d \in unsent[m]
    \/ Sent(m, d, "request") # {}
    \/ \E h \in Handled(m, d, "request") : h.pc = "start"

Uninserted(m, d) ==
    \/ cpc[m] \in {"stamp", "insert"}
    \/ m # d /\ cpc[m] = "lockPending"
    \/ m # d /\ cpc[m] = "request" /\ InsertPending(m, d)

\* The nodes whose request is in the queue of n and has not been released.
Present(n) ==
    {m \in Nodes : /\ cpc[m] \in {"lockPending", "request", "cs", "extract"}
                   /\ ~ Uninserted(m, n)}

\* The RELEASEs that n has yet to handle: to be sent, in its channel, in a handler.
Releasing(n) == {m \in Nodes : cpc[m] = "release" /\ n \in unsent[m]}

ReleasesSent(n) == Cardinality({i \in 1..Len(channel[n]) : channel[n][i].action = "release"})

ReleasesHandled(n) == {h \in handlers[n] : h.action = "release"}
ReleaseHandlers(n) == Cardinality(ReleasesHandled(n))

Released(n) == Cardinality(Releasing(n)) + ReleasesSent(n) + ReleaseHandlers(n)

-----------------------------------------------------------------------------
(***************************************************************************)
(* The inductive invariant for every behaviour.                            *)
(***************************************************************************)

Places(action) == CASE action = "request" -> {"start", "try", "compare", "wait", "ackWaited",
                                              "ackLater", "ackFree"}
                    [] action = "release" -> {"start"}
                    [] action = "ack" -> {"start", "count"}

\* Each handler is at a place of its action; nobody sends to itself.
Goroutines ==
    \A n \in Nodes :
        /\ IsFiniteSet(handlers[n])
        /\ \A h \in handlers[n] : h.node # n /\ h.pc \in Places(h.action)
        /\ \A i \in 1..Len(channel[n]) : channel[n][i].node # n
        /\ n \notin unsent[n]
        /\ unsent[n] # {} => cpc[n] \in {"request", "release"}

PendingClient(n) == cpc[n] = "request" /\ reqAckCount[n] < Cardinality(Nodes)

OngoingClient(n) == cpc[n] \in {"tick", "read", "stamp", "insert", "lockPending", "request"}

\* The mutexes are locked by those who unlock them.  The only node of a system of one does
\* not unlock pendingReq.
Mutexes ==
    \A n \in Nodes :
        /\ Cardinality(Nodes) # 1 =>
             At(n, "ackWaited") + (IF PendingClient(n) THEN 1 ELSE 0)
               = IF pendingReq[n] THEN 1 ELSE 0
        /\ At(n, "ackFree") + (IF OngoingClient(n) THEN 1 ELSE 0)
             = IF ongoingReq[n] THEN 1 ELSE 0

\* Who has yet to answer: those the request has not been sent to, and those with an answer
\* pending.
AnswersTo(n) ==
    /\ cpc[n] # "request" => \A d \in Nodes : Pending(n, d) = 0
    /\ cpc[n] = "request" =>
         /\ \A d \in Nodes : Pending(n, d) <= IF d = n \/ d \in unsent[n] THEN 0 ELSE 1
         /\ reqAckCount[n] + Cardinality(unsent[n])
              + Cardinality({d \in Nodes : Pending(n, d) = 1}) = Cardinality(Nodes)

Answers == \A n \in Nodes : AnswersTo(n)

\* The element of the request of m.
ElemOf(m) == [nodeId |-> m, timestamp |-> stamp[m]]

\* A timestamp that a request of m in the queue of d may have.
StampedAt(m, t, d) ==
    /\ t <= clock[m]
    /\ cpc[m] = "read" => t < clock[m]
    /\ cpc[m] \in {"lockPending", "request", "cs", "extract"} => t <= stamp[m]
    /\ Uninserted(m, d) => t < stamp[m]

\* The requests of a node have growing timestamps.
Stamps ==
    /\ \A n \in Nodes :
         cpc[n] \in {"stamp", "insert", "lockPending", "request", "cs", "extract", "release"} =>
             stamp[n] <= clock[n]
    /\ \A n, d \in Nodes :
         /\ \A i \in Sent(n, d, "request") : channel[d][i].timestamp = stamp[n]
         /\ \A h \in Handled(n, d, "request") : h.pc = "start" => h.timestamp = stamp[n]
    /\ \A d \in Nodes : \A i \in 1..Len(queue[d]) :
         StampedAt(queue[d][i].nodeId, queue[d][i].timestamp, d)

\* So have its RELEASEs, and each is on its way to a node once.
ReleaseStamps ==
    \A n, d \in Nodes :
        /\ \A i \in Sent(n, d, "release") :
             /\ channel[d][i].timestamp <= clock[n]
             /\ cpc[n] = "release" /\ d \in unsent[n] => channel[d][i].timestamp < stamp[n]
             /\ \A j \in Sent(n, d, "release") :
                  channel[d][j].timestamp = channel[d][i].timestamp => j = i
             /\ \A h \in Handled(n, d, "release") : h.timestamp # channel[d][i].timestamp
        /\ \A h \in Handled(n, d, "release") :
             /\ h.timestamp <= clock[n]
             /\ cpc[n] = "release" /\ d \in unsent[n] => h.timestamp < stamp[n]

\* A queue has an element for each request in it, and one for each RELEASE on the way.
Lengths == \A n \in Nodes : Len(queue[n]) = Released(n) + Cardinality(Present(n))

HolderInCS == panic = "none" => \A n \in Nodes : holder = n <=> cpc[n] = "cs"

Conserved ==
    /\ Goroutines
    /\ Mutexes
    /\ Answers
    /\ Stamps
    /\ ReleaseStamps
    /\ Lengths
    /\ HolderInCS
    /\ NoOtherPanic

-----------------------------------------------------------------------------
(***************************************************************************)
(* The inductive invariant for requests that are spaced apart.             *)
(***************************************************************************)

\* The request of n is being stamped, queued, sent, or not compared by everyone yet.
Unsettled(n) ==
    \/ cpc[n] \in {"tick", "read", "stamp", "insert", "lockPending"}
    \/ cpc[n] = "request" /\ unsent[n] # {}
    \/ \E d \in Nodes :
         \/ Sent(n, d, "request") # {}
         \/ \E h \in Handled(n, d, "request") : h.pc \in {"start", "try", "compare"}

OneUnsettled == \A m, n \in Nodes : Unsettled(m) /\ Unsettled(n) => m = n

\* n has not received the request of m.
Unreceived(m, n) ==
    /\ m # n
    /\ \/ cpc[m] \in {"tick", "read", "stamp", "insert", "lockPending"}
       \/ cpc[m] = "request" /\ n \in unsent[m]
       \/ Sent(m, n, "request") # {}

\* Whoever has received a request is past its timestamp, and the next request is later
\* than all that are queued anywhere.
Known ==
    /\ \A n, d \in Nodes : \A i \in 1..Len(queue[d]) :
         queue[d][i].timestamp <= clock[n] \/ Unreceived(queue[d][i].nodeId, n)
    /\ \A m, n \in Nodes :
         cpc[m] \in {"stamp", "insert", "lockPending", "request", "cs", "extract"} =>
             stamp[m] <= clock[n] \/ Unreceived(m, n)
    /\ \A m, d \in Nodes : \A i \in 1..Len(queue[d]) :
         /\ cpc[m] = "read" => queue[d][i].timestamp < clock[m]
         /\ Uninserted(m, d) => queue[d][i].timestamp < stamp[m]

Sorted ==
    \A n \in Nodes : \A i, j \in 1..Len(queue[n]) :
        i < j => queue[n][i].timestamp < queue[n][j].timestamp

\* The requests to be released come first in a queue, the present ones follow.
ReleasedFirst ==
    \A n \in Nodes :
        /\ \A m \in Present(n) :
             \E i \in 1..Len(queue[n]) : i > Released(n) /\ queue[n][i] = ElemOf(m)
        /\ \A i \in 1..Len(queue[n]) :
             /\ i > Released(n) => \E m \in Present(n) : queue[n][i] = ElemOf(m)
             /\ queue[n][i].nodeId = n => i > Released(n)

InCS(n) == cpc[n] \in {"cs", "extract"}

\* The node in the critical section is alone there, and at the head of its queue, which has
\* nothing to be released.
OneInCS ==
    /\ \A m, n \in Nodes : InCS(m) /\ InCS(n) => m = n
    /\ \A n \in Nodes : InCS(n) =>
         Released(n) = 0 /\ queue[n] # <<>> /\ queue[n][1].nodeId = n

Agreed ==
    /\ OneUnsettled
    /\ Known
    /\ Sorted
    /\ ReleasedFirst
    /\ OneInCS
    /\ MutualExclusion

Spaced == ~hurried => Agreed

IInv == TypeOK /\ Conserved /\ Spaced

-----------------------------------------------------------------------------
(***************************************************************************)
(* Counting messages and goroutines.                                       *)
(***************************************************************************)

Actions == {"request", "release", "ack"}

\* The places of the elements of M in a sequence.
Occurs(s, M) == {i \in 1..Len(s) : s[i] \in M}

LEMMA OccursFinite ==
  ASSUME NEW S, NEW s \in Seq(S), NEW M
  PROVE  IsFiniteSet(Occurs(s, M)) /\ Cardinality(Occurs(s, M)) \in Nat
<1>1. IsFiniteSet(1..Len(s))
  BY LenProperties, FS_Interval
<1>2. IsFiniteSet(Occurs(s, M))
  BY <1>1, FS_Subset DEF Occurs
<1> QED
  BY <1>2, FS_CardinalityType

LEMMA OccursAppend ==
  ASSUME NEW S, NEW s \in Seq(S), NEW e \in S, NEW M
  PROVE  /\ Occurs(Append(s, e), M) = Occurs(s, M) \cup (IF e \in M THEN {Len(s) + 1} ELSE {})
         /\ Cardinality(Occurs(Append(s, e), M))
              = Cardinality(Occurs(s, M)) + (IF e \in M THEN 1 ELSE 0)
<1>1. /\ Len(s) \in Nat /\ Len(Append(s, e)) = Len(s) + 1
      /\ \A i \in 1..Len(s) : Append(s, e)[i] = s[i]
      /\ Append(s, e)[Len(s) + 1] = e
  BY AppendProperties, LenProperties
<1>2. Occurs(Append(s, e), M) = Occurs(s, M) \cup (IF e \in M THEN {Len(s) + 1} ELSE {})
  BY <1>1 DEF Occurs
<1>3. Len(s) + 1 \notin Occurs(s, M)
  BY <1>1 DEF Occurs
<1>4. IsFiniteSet(Occurs(s, M))
  BY OccursFinite
<1>5. Cardinality(Occurs(s, M) \cup {Len(s) + 1}) = Cardinality(Occurs(s, M)) + 1
  BY <1>3, <1>4, FS_AddElement
<1>6. Cardinality(Occurs(s, M)) \in Nat
  BY OccursFinite
<1>7. CASE e \in M
  BY <1>2, <1>5, <1>7
<1>8. CASE e \notin M
  <2>1. Occurs(Append(s, e), M) = Occurs(s, M)
    BY <1>2, <1>8
  <2> QED
    BY <1>2, <1>6, <1>8, <2>1
<1> QED
  BY <1>7, <1>8

\* Taking the first element moves the places of the others.
LEMMA OccursTail ==
  ASSUME NEW S, NEW s \in Seq(S), s # << >>, NEW M
  PROVE  Cardinality(Occurs(Tail(s), M))
           = Cardinality(Occurs(s, M)) - (IF Head(s) \in M THEN 1 ELSE 0)
<1> DEFINE T == Occurs(Tail(s), M)
           U == Occurs(s, M) \ {1}
           f == [i \in T |-> i + 1]
<1>1. /\ Len(s) \in Nat \ {0} /\ Len(Tail(s)) = Len(s) - 1
      /\ \A i \in 1..Len(Tail(s)) : Tail(s)[i] = s[i + 1]
      /\ Head(s) = s[1]
  BY HeadTailProperties, EmptySeq
<1>2. \A i \in T : i \in Nat /\ i + 1 \in U
  BY <1>1 DEF Occurs
<1>3. \A j \in U : j \in Int /\ j - 1 \in T /\ (j - 1) + 1 = j
  BY <1>1 DEF Occurs
<1>4. f \in Bijection(T, U)
  <2>1. f \in [T -> U]
    BY <1>2
  <2>2. \A i, j \in T : f[i] = f[j] => i = j
    BY <1>2
  <2>3. \A j \in U : \E i \in T : f[i] = j
    BY <1>3
  <2> QED
    BY <2>1, <2>2, <2>3, Fun_IsBij
<1>5. IsFiniteSet(T) /\ IsFiniteSet(Occurs(s, M))
  BY <1>1, HeadTailProperties, OccursFinite
<1>6. Cardinality(T) = Cardinality(U)
  BY <1>4, <1>5, FS_Bijection DEF ExistsBijection
<1>7. 1 \in Occurs(s, M) <=> Head(s) \in M
  BY <1>1 DEF Occurs
<1>8. Cardinality(U) = IF 1 \in Occurs(s, M) THEN Cardinality(Occurs(s, M)) - 1
                       ELSE Cardinality(Occurs(s, M))
  BY <1>5, FS_RemoveElement
<1>9. Cardinality(Occurs(s, M)) \in Nat
  BY OccursFinite
<1> QED
  BY <1>6, <1>7, <1>8, <1>9

\* Messages of n with an action, and RELEASEs.
From(n, action) == {m \in Message : m.node = n /\ m.action = action}
AnyRelease == {m \in Message : m.action = "release"}

LEMMA OccursOfMessages ==
  ASSUME NEW s \in Seq(Message)
  PROVE  /\ \A n, a : {i \in 1..Len(s) : s[i].node = n /\ s[i].action = a} = Occurs(s, From(n, a))
         /\ {i \in 1..Len(s) : s[i].action = "release"} = Occurs(s, AnyRelease)
<1>1. \A i \in 1..Len(s) : s[i] \in Message
  BY ElementOfSeq
<1> QED
  BY <1>1 DEF Occurs, From, AnyRelease

LEMMA SentTypes ==
  ASSUME TypeOK, NEW d \in Nodes
  PROVE  /\ \A n, a : IsFiniteSet(Sent(n, d, a)) /\ SentN(n, d, a) \in Nat
         /\ \A n, a : SentN(n, d, a) = 0 <=> Sent(n, d, a) = {}
         /\ ReleasesSent(d) \in Nat
<1>1. channel[d] \in Seq(Message)
  BY DEF TypeOK
<1>2. \A n, a : Sent(n, d, a) = Occurs(channel[d], From(n, a))
  BY <1>1, OccursOfMessages DEF Sent
<1>3. \A M : IsFiniteSet(Occurs(channel[d], M)) /\ Cardinality(Occurs(channel[d], M)) \in Nat
  BY <1>1, OccursFinite
<1>4. ReleasesSent(d) = Cardinality(Occurs(channel[d], AnyRelease))
  BY <1>1, OccursOfMessages DEF ReleasesSent
<1> QED
  BY <1>2, <1>3, <1>4, FS_EmptySet DEF SentN

\* A message that is sent is the last of its channel.
SendsLast(n, d, a, t) ==
    /\ channel' \in [Nodes -> Seq(Message)]
    /\ SentN(n, d, a)' = SentN(n, d, a) + 1
    /\ \A x, y \in Nodes : \A b :
         ~(x = n /\ y = d /\ b = a) => /\ Sent(x, y, b)' = Sent(x, y, b)
                                       /\ SentN(x, y, b)' = SentN(x, y, b)
    /\ a = "release" => ReleasesSent(d)' = ReleasesSent(d) + 1
    /\ \A y \in Nodes : y # d \/ a # "release" => ReleasesSent(y)' = ReleasesSent(y)
    /\ Sent(n, d, a)' = Sent(n, d, a) \cup {Len(channel[d]) + 1}
    /\ \A y \in Nodes : \A i \in 1..Len(channel[y]) : channel'[y][i] = channel[y][i]
    /\ \A y \in Nodes \ {d} : channel'[y] = channel[y]
    /\ Len(channel'[d]) = Len(channel[d]) + 1 /\ Len(channel[d]) \in Nat
    /\ channel'[d][Len(channel[d]) + 1].node = n
    /\ channel'[d][Len(channel[d]) + 1].action = a
    /\ channel'[d][Len(channel[d]) + 1].timestamp = t

LEMMA SendEffect ==
  ASSUME TypeOK, NEW n \in Nodes, NEW d \in Nodes, NEW a \in Actions, NEW t \in Nat, Send(n, d, a, t)
  PROVE  SendsLast(n, d, a, t)
<1> DEFINE m == [action |-> a, node |-> n, timestamp |-> t]
<1>1. m \in Message
  BY DEF Message, Actions
<1>2. /\ channel \in [Nodes -> Seq(Message)]
      /\ channel' = [channel EXCEPT ![d] = Append(@, m)]
  BY DEF TypeOK, Send
<1> HIDE DEF m
<1>3. /\ Append(channel[d], m) \in Seq(Message)
      /\ Len(channel'[d]) = Len(channel[d]) + 1 /\ Len(channel[d]) \in Nat
      /\ \A i \in 1..Len(channel[d]) : channel'[d][i] = channel[d][i]
      /\ channel'[d][Len(channel[d]) + 1] = m
      /\ channel'[d] = Append(channel[d], m)
      /\ \A y \in Nodes \ {d} : channel'[y] = channel[y]
  BY <1>1, <1>2, AppendProperties, LenProperties
<1>4. channel' \in [Nodes -> Seq(Message)]
  BY <1>2, <1>3
<1>5. \A x, b : m \in From(x, b) <=> x = n /\ b = a
  BY <1>1 DEF From, m
<1>6. m \in AnyRelease <=> a = "release"
  BY <1>1 DEF AnyRelease, m
<1>7. ASSUME NEW x, NEW y \in Nodes, NEW b
      PROVE  /\ Sent(x, y, b) = Occurs(channel[y], From(x, b))
             /\ Sent(x, y, b)' = Occurs(channel'[y], From(x, b))
  <2>1. channel[y] \in Seq(Message) /\ channel'[y] \in Seq(Message)
    BY <1>2, <1>4
  <2> QED
    BY <2>1, OccursOfMessages DEF Sent
<1>8. \A y \in Nodes : /\ ReleasesSent(y) = Cardinality(Occurs(channel[y], AnyRelease))
                       /\ ReleasesSent(y)' = Cardinality(Occurs(channel'[y], AnyRelease))
  BY <1>2, <1>4, OccursOfMessages DEF ReleasesSent
<1>9. \A M : /\ Occurs(channel'[d], M)
                  = Occurs(channel[d], M) \cup IF m \in M THEN {Len(channel[d]) + 1} ELSE {}
             /\ Cardinality(Occurs(channel'[d], M))
                  = Cardinality(Occurs(channel[d], M)) + IF m \in M THEN 1 ELSE 0
  BY <1>1, <1>2, <1>3, OccursAppend
<1>10. \A y \in Nodes : \A M : Cardinality(Occurs(channel[y], M)) \in Nat
  BY <1>2, OccursFinite
<1>11. ASSUME NEW x \in Nodes, NEW y \in Nodes, NEW b
       PROVE  /\ SentN(x, y, b)' = SentN(x, y, b) + IF x = n /\ y = d /\ b = a THEN 1 ELSE 0
              /\ ~(x = n /\ y = d /\ b = a) => Sent(x, y, b)' = Sent(x, y, b)
  <2>1. CASE y = d
    <3>1. Sent(x, d, b) = Occurs(channel[d], From(x, b)) /\ Sent(x, d, b)' = Occurs(channel'[d], From(x, b))
      BY <1>7
    <3>2. m \notin From(x, b) => Occurs(channel'[d], From(x, b)) = Occurs(channel[d], From(x, b))
      BY <1>9
    <3> QED
      BY <1>5, <1>9, <2>1, <3>1, <3>2 DEF SentN
  <2>2. CASE y # d
    <3>1. Sent(x, y, b)' = Sent(x, y, b) /\ SentN(x, y, b) \in Nat
      BY <1>3, <1>7, <1>10, <2>2 DEF SentN
    <3> QED
      BY <2>2, <3>1 DEF SentN
  <2> QED
    BY <2>1, <2>2
<1>12. Sent(n, d, a)' = Sent(n, d, a) \cup {Len(channel[d]) + 1}
  BY <1>5, <1>7, <1>9
<1>13. \A y \in Nodes :
         ReleasesSent(y)' = ReleasesSent(y) + IF y = d /\ a = "release" THEN 1 ELSE 0
  <2> SUFFICES ASSUME NEW y \in Nodes
               PROVE  ReleasesSent(y)' = ReleasesSent(y) + IF y = d /\ a = "release" THEN 1 ELSE 0
    OBVIOUS
  <2>1. ReleasesSent(y) \in Nat
    BY <1>8, <1>10
  <2>2. y # d => channel'[y] = channel[y]
    BY <1>3
  <2> QED
    BY <1>6, <1>8, <1>9, <2>1, <2>2
<1>14. /\ SentN(n, d, a)' = SentN(n, d, a) + 1
       /\ \A x, y \in Nodes : \A b :
            ~(x = n /\ y = d /\ b = a) => SentN(x, y, b)' = SentN(x, y, b)
  <2>1. \A x, y \in Nodes : \A b : SentN(x, y, b) \in Nat
    BY SentTypes
  <2> QED
    BY <1>11, <2>1
<1>15. /\ a = "release" => ReleasesSent(d)' = ReleasesSent(d) + 1
       /\ \A y \in Nodes : y # d \/ a # "release" => ReleasesSent(y)' = ReleasesSent(y)
  <2>1. \A y \in Nodes : ReleasesSent(y) \in Nat
    BY SentTypes
  <2> QED
    BY <1>13, <2>1
<1>16. /\ channel'[d][Len(channel[d]) + 1].node = n
       /\ channel'[d][Len(channel[d]) + 1].action = a
       /\ channel'[d][Len(channel[d]) + 1].timestamp = t
  BY <1>3 DEF m
<1>17. \A x, y \in Nodes : \A b :
         ~(x = n /\ y = d /\ b = a) => /\ Sent(x, y, b)' = Sent(x, y, b)
                                       /\ SentN(x, y, b)' = SentN(x, y, b)
  BY <1>11, <1>14
<1>18. /\ \A y \in Nodes : \A i \in 1..Len(channel[y]) : channel'[y][i] = channel[y][i]
       /\ \A y \in Nodes \ {d} : channel'[y] = channel[y]
       /\ Len(channel'[d]) = Len(channel[d]) + 1 /\ Len(channel[d]) \in Nat
  BY <1>3
<1> QED
  BY <1>4, <1>12, <1>14, <1>15, <1>16, <1>17, <1>18 DEF SendsLast

\* A message that is received was the first of its channel.
ReceivesFirst(n, m) ==
    /\ channel' \in [Nodes -> Seq(Message)]
    /\ m \in Message
    /\ m = channel[n][1] /\ 1 \in 1..Len(channel[n])
    /\ SentN(m.node, n, m.action)' = SentN(m.node, n, m.action) - 1
    /\ \A x, y \in Nodes : \A b :
         ~(x = m.node /\ y = n /\ b = m.action) => SentN(x, y, b)' = SentN(x, y, b)
    /\ m.action = "release" => ReleasesSent(n)' = ReleasesSent(n) - 1
    /\ \A y \in Nodes : y # n \/ m.action # "release" => ReleasesSent(y)' = ReleasesSent(y)
    /\ \A x, y \in Nodes : \A b : SentN(x, y, b)' = 0 <=> Sent(x, y, b)' = {}
    /\ \A y \in Nodes \ {n} : channel'[y] = channel[y]
    /\ \A i \in 1..Len(channel'[n]) :
         i + 1 \in 1..Len(channel[n]) /\ channel'[n][i] = channel[n][i + 1]

LEMMA ReceiveEffect ==
  ASSUME TypeOK, NEW n \in Nodes, channel[n] # << >>,
         channel' = [channel EXCEPT ![n] = Tail(@)],
         NEW m, m = Head(channel[n])
  PROVE  ReceivesFirst(n, m)
<1>1. channel \in [Nodes -> Seq(Message)]
  BY DEF TypeOK
<1>2. /\ Tail(channel[n]) \in Seq(Message)
      /\ m \in Message
      /\ Len(Tail(channel[n])) = Len(channel[n]) - 1 /\ Len(channel[n]) \in Nat \ {0}
      /\ \A i \in 1..Len(Tail(channel[n])) : Tail(channel[n])[i] = channel[n][i + 1]
  BY <1>1, HeadTailProperties, EmptySeq
<1>3. /\ channel' \in [Nodes -> Seq(Message)]
      /\ channel'[n] = Tail(channel[n])
      /\ \A y \in Nodes \ {n} : channel'[y] = channel[y]
  BY <1>1, <1>2
<1>4. m = channel[n][1]
  BY <1>1
<1>5. \A i \in 1..Len(channel'[n]) :
        i + 1 \in 1..Len(channel[n]) /\ channel'[n][i] = channel[n][i + 1]
  BY <1>2, <1>3
<1>6. \A x, b : m \in From(x, b) <=> x = m.node /\ b = m.action
  BY <1>2 DEF From
<1>7. ASSUME NEW x, NEW y \in Nodes, NEW b
      PROVE  /\ Sent(x, y, b) = Occurs(channel[y], From(x, b))
             /\ Sent(x, y, b)' = Occurs(channel'[y], From(x, b))
  <2>1. channel[y] \in Seq(Message) /\ channel'[y] \in Seq(Message)
    BY <1>1, <1>3
  <2>2. {i \in 1..Len(channel[y]) : channel[y][i].node = x /\ channel[y][i].action = b}
          = Occurs(channel[y], From(x, b))
    BY <2>1, OccursOfMessages
  <2>3. PICK s \in Seq(Message) : s = channel'[y]
    BY <2>1
  <2>4. {i \in 1..Len(s) : s[i].node = x /\ s[i].action = b} = Occurs(s, From(x, b))
    BY OccursOfMessages
  <2> QED
    BY <2>2, <2>3, <2>4 DEF Sent
<1>8. \A y \in Nodes : /\ ReleasesSent(y) = Cardinality(Occurs(channel[y], AnyRelease))
                       /\ ReleasesSent(y)' = Cardinality(Occurs(channel'[y], AnyRelease))
  BY <1>1, <1>3, OccursOfMessages DEF ReleasesSent
<1>9. \A M : Cardinality(Occurs(channel'[n], M))
               = Cardinality(Occurs(channel[n], M)) - IF m \in M THEN 1 ELSE 0
  BY <1>1, <1>3, OccursTail
<1>10. \A y \in Nodes : \A M : Cardinality(Occurs(channel[y], M)) \in Nat
  BY <1>1, OccursFinite
<1>11. \A y \in Nodes : \A M : IsFiniteSet(Occurs(channel'[y], M))
  BY <1>3, OccursFinite
<1>12. ASSUME NEW x \in Nodes, NEW y \in Nodes, NEW b
       PROVE  /\ SentN(x, y, b)'
                   = SentN(x, y, b) - IF x = m.node /\ y = n /\ b = m.action THEN 1 ELSE 0
              /\ SentN(x, y, b)' = 0 <=> Sent(x, y, b)' = {}
  <2>1. SentN(x, y, b) \in Nat
    BY <1>7, <1>10 DEF SentN
  <2>2. SentN(x, y, b)' = 0 <=> Sent(x, y, b)' = {}
    BY <1>7, <1>11, FS_EmptySet DEF SentN
  <2>3. CASE y = n
    BY <1>6, <1>7, <1>9, <2>2, <2>3 DEF SentN
  <2>4. CASE y # n
    BY <1>3, <1>7, <2>1, <2>2, <2>4 DEF SentN
  <2> QED
    BY <2>3, <2>4
<1>13. m \in AnyRelease <=> m.action = "release"
  BY <1>2 DEF AnyRelease
<1>14. \A y \in Nodes :
         ReleasesSent(y)' = ReleasesSent(y) - IF y = n /\ m.action = "release" THEN 1 ELSE 0
  <2> SUFFICES ASSUME NEW y \in Nodes
               PROVE  ReleasesSent(y)'
                        = ReleasesSent(y) - IF y = n /\ m.action = "release" THEN 1 ELSE 0
    OBVIOUS
  <2>1. ReleasesSent(y) \in Nat
    BY <1>8, <1>10
  <2>2. y # n => channel'[y] = channel[y]
    BY <1>3
  <2> QED
    BY <1>8, <1>9, <1>13, <2>1, <2>2
<1>15. m.node \in Nodes
  BY <1>2 DEF Message
<1>16. /\ SentN(m.node, n, m.action)' = SentN(m.node, n, m.action) - 1
       /\ \A x, y \in Nodes : \A b :
            ~(x = m.node /\ y = n /\ b = m.action) => SentN(x, y, b)' = SentN(x, y, b)
       /\ \A x, y \in Nodes : \A b : SentN(x, y, b)' = 0 <=> Sent(x, y, b)' = {}
  <2>1. \A x, y \in Nodes : \A b : SentN(x, y, b) \in Nat
    BY SentTypes
  <2> QED
    BY <1>12, <1>15, <2>1
<1>17. /\ m.action = "release" => ReleasesSent(n)' = ReleasesSent(n) - 1
       /\ \A y \in Nodes : y # n \/ m.action # "release" => ReleasesSent(y)' = ReleasesSent(y)
  <2>1. \A y \in Nodes : ReleasesSent(y) \in Nat
    BY SentTypes
  <2> QED
    BY <1>14, <2>1
<1>18. 1 \in 1..Len(channel[n])
  BY <1>2
<1> QED
  BY <1>2, <1>3, <1>4, <1>5, <1>16, <1>17, <1>18 DEF ReceivesFirst

-----------------------------------------------------------------------------
(***************************************************************************)
(* Goroutines that start, move and end.                                    *)
(***************************************************************************)

PCs == {"start", "try", "compare", "wait", "ackWaited", "ackLater", "ackFree", "count"}

\* Moving a goroutine changes its place only.
LEMMA Moved ==
  ASSUME NEW h \in Handler, NEW pc \in PCs
  PROVE  /\ [h EXCEPT !.pc = pc] \in Handler
         /\ [h EXCEPT !.pc = pc].action = h.action /\ [h EXCEPT !.pc = pc].node = h.node
         /\ [h EXCEPT !.pc = pc].timestamp = h.timestamp /\ [h EXCEPT !.pc = pc].pc = pc
  BY DEF Handler, PCs

LEMMA HandlerTypes ==
  ASSUME TypeOK, Goroutines, NEW d \in Nodes
  PROVE  /\ IsFiniteSet(handlers[d])
         /\ \A n, a : IsFiniteSet(Handled(n, d, a)) /\ HandledN(n, d, a) \in Nat
         /\ \A n, a : HandledN(n, d, a) = 0 <=> Handled(n, d, a) = {}
         /\ \A pc : At(d, pc) \in Nat
         /\ ReleaseHandlers(d) \in Nat
<1>1. IsFiniteSet(handlers[d])
  BY DEF Goroutines
<1>2. \A S : S \subseteq handlers[d] => IsFiniteSet(S) /\ Cardinality(S) \in Nat
  BY <1>1, FS_Subset, FS_CardinalityType
<1> QED
  BY <1>1, <1>2, FS_EmptySet DEF Handled, HandledN, At, AtPlace, ReleaseHandlers, ReleasesHandled

LEMMA PendingType ==
  ASSUME TypeOK, Goroutines, NEW n \in Nodes, NEW d \in Nodes
  PROVE  /\ SentN(n, d, "request") \in Nat /\ HandledN(n, d, "request") \in Nat
         /\ SentN(d, n, "ack") \in Nat /\ HandledN(d, n, "ack") \in Nat
         /\ Pending(n, d) \in Nat
  BY SentTypes, HandlerTypes DEF Pending

LEMMA NothingPending ==
  ASSUME TypeOK, Goroutines, NEW n \in Nodes, NEW d \in Nodes, Pending(n, d) = 0
  PROVE  /\ Sent(n, d, "request") = {} /\ Handled(n, d, "request") = {}
         /\ Sent(d, n, "ack") = {} /\ Handled(d, n, "ack") = {}
<1>1. /\ SentN(n, d, "request") \in Nat /\ HandledN(n, d, "request") \in Nat
      /\ SentN(d, n, "ack") \in Nat /\ HandledN(d, n, "ack") \in Nat
  BY PendingType
<1>2. /\ SentN(n, d, "request") = 0 /\ HandledN(n, d, "request") = 0
      /\ SentN(d, n, "ack") = 0 /\ HandledN(d, n, "ack") = 0
  BY <1>1 DEF Pending
<1> QED
  BY <1>2, SentTypes, HandlerTypes

\* Each answer is pending once.
LEMMA AtMostOnePending ==
  ASSUME TypeOK, Goroutines, Answers, NEW n \in Nodes, NEW d \in Nodes
  PROVE  /\ Pending(n, d) \in 0..1
         /\ Pending(n, d) # 0 => cpc[n] = "request" /\ d # n /\ d \notin unsent[n]
<1>1. Pending(n, d) \in Nat
  BY PendingType
<1>2. /\ cpc[n] # "request" => Pending(n, d) = 0
      /\ cpc[n] = "request" => Pending(n, d) <= IF d = n \/ d \in unsent[n] THEN 0 ELSE 1
  BY DEF Answers, AnswersTo
<1> QED
  BY <1>1, <1>2

\* A node has one goroutine at most for the request, or the REQ_ACK, of another.
LEMMA OnlyHandler ==
  ASSUME TypeOK, Goroutines, Answers, NEW n \in Nodes,
         NEW h \in handlers[n], h.action \in {"request", "ack"}
  PROVE  /\ Handled(h.node, n, h.action) = {h}
         /\ HandledN(h.node, n, h.action) = 1
         /\ h.action = "request" => Pending(h.node, n) = 1
         /\ h.action = "ack" => Pending(n, h.node) = 1
         /\ h.node \in Nodes
<1>1. h.node \in Nodes
  BY DEF TypeOK, Handler
<1>2. h \in Handled(h.node, n, h.action)
  BY DEF Handled
<1>3. IsFiniteSet(Handled(h.node, n, h.action)) /\ HandledN(h.node, n, h.action) \in Nat \ {0}
  BY <1>2, HandlerTypes
<1>4. /\ h.action = "request" => Pending(h.node, n) >= HandledN(h.node, n, h.action)
      /\ h.action = "ack" => Pending(n, h.node) >= HandledN(h.node, n, h.action)
  <2>1. CASE h.action = "request"
    <3>1. /\ SentN(h.node, n, "request") \in Nat /\ HandledN(h.node, n, "request") \in Nat
          /\ SentN(n, h.node, "ack") \in Nat /\ HandledN(n, h.node, "ack") \in Nat
      BY <1>1, PendingType
    <3> QED
      BY <2>1, <3>1 DEF Pending
  <2>2. CASE h.action = "ack"
    <3>1. /\ SentN(n, h.node, "request") \in Nat /\ HandledN(n, h.node, "request") \in Nat
          /\ SentN(h.node, n, "ack") \in Nat /\ HandledN(h.node, n, "ack") \in Nat
      BY <1>1, PendingType
    <3> QED
      BY <2>2, <3>1 DEF Pending
  <2> QED
    BY <2>1, <2>2
<1>5. Pending(h.node, n) \in 0..1 /\ Pending(n, h.node) \in 0..1
  BY <1>1, AtMostOnePending
<1>6. /\ HandledN(h.node, n, h.action) = 1
      /\ h.action = "request" => Pending(h.node, n) = 1
      /\ h.action = "ack" => Pending(n, h.node) = 1
  BY <1>3, <1>4, <1>5
<1>7. Handled(h.node, n, h.action) = {h}
  BY <1>2, <1>3, <1>6, FS_Singleton DEF HandledN
<1> QED
  BY <1>1, <1>6, <1>7

\* A goroutine that starts, and that no other equals.
Starts(n, g) ==
    /\ handlers' \in [Nodes -> SUBSET Handler]
    /\ handlers'[n] = handlers[n] \cup {g}
    /\ \A y \in Nodes \ {n} : handlers'[y] = handlers[y]
    /\ \A y \in Nodes : IsFiniteSet(handlers'[y])
    /\ HandledN(g.node, n, g.action)' = HandledN(g.node, n, g.action) + 1
    /\ \A x, y \in Nodes : \A a :
         ~(x = g.node /\ y = n /\ a = g.action) => HandledN(x, y, a)' = HandledN(x, y, a)
    /\ g.action = "release" => ReleaseHandlers(n)' = ReleaseHandlers(n) + 1
    /\ \A y \in Nodes : y # n \/ g.action # "release" => ReleaseHandlers(y)' = ReleaseHandlers(y)
    /\ At(n, g.pc)' = At(n, g.pc) + 1
    /\ \A y \in Nodes : \A pc : y # n \/ pc # g.pc => At(y, pc)' = At(y, pc)

LEMMA StartEffect ==
  ASSUME TypeOK, Goroutines, NEW n \in Nodes, NEW g \in Handler, g \notin handlers[n],
         handlers' = [handlers EXCEPT ![n] = @ \cup {g}]
  PROVE  Starts(n, g)
<1>1. handlers \in [Nodes -> SUBSET Handler]
  BY DEF TypeOK
<1>2. /\ handlers' \in [Nodes -> SUBSET Handler]
      /\ handlers'[n] = handlers[n] \cup {g}
      /\ \A y \in Nodes \ {n} : handlers'[y] = handlers[y]
  BY <1>1
<1>3. \A y \in Nodes : IsFiniteSet(handlers[y])
  BY DEF Goroutines
<1>4. \A S : S \subseteq handlers[n] =>
        /\ IsFiniteSet(S) /\ Cardinality(S) \in Nat /\ IsFiniteSet(S \cup {g})
        /\ Cardinality(S \cup {g}) = Cardinality(S) + 1
  <2> SUFFICES ASSUME NEW S, S \subseteq handlers[n]
               PROVE  /\ IsFiniteSet(S) /\ Cardinality(S) \in Nat /\ IsFiniteSet(S \cup {g})
                      /\ Cardinality(S \cup {g}) = Cardinality(S) + 1
    OBVIOUS
  <2>1. IsFiniteSet(S) /\ Cardinality(S) \in Nat
    BY <1>3, FS_Subset, FS_CardinalityType
  <2> QED
    BY <2>1, FS_AddElement
<1>5. \A y \in Nodes : IsFiniteSet(handlers'[y])
  BY <1>2, <1>3, <1>4
<1>6. ASSUME NEW x \in Nodes, NEW y \in Nodes, NEW a
      PROVE  HandledN(x, y, a)'
               = HandledN(x, y, a) + IF x = g.node /\ y = n /\ a = g.action THEN 1 ELSE 0
  <2> DEFINE S == Handled(x, y, a)
  <2>1. S' = IF x = g.node /\ y = n /\ a = g.action THEN S \cup {g} ELSE S
    BY <1>2 DEF Handled
  <2>2. y = n => S \subseteq handlers[n]
    BY DEF Handled
  <2>3. Cardinality(S) \in Nat
    BY HandlerTypes DEF HandledN
  <2> QED
    BY <1>4, <2>1, <2>2, <2>3 DEF HandledN
<1>7. ASSUME NEW y \in Nodes
      PROVE  ReleaseHandlers(y)'
               = ReleaseHandlers(y) + IF y = n /\ g.action = "release" THEN 1 ELSE 0
  <2> DEFINE S == ReleasesHandled(y)
  <2>1. S' = IF y = n /\ g.action = "release" THEN S \cup {g} ELSE S
    BY <1>2 DEF ReleasesHandled
  <2>2. y = n => S \subseteq handlers[n]
    BY DEF ReleasesHandled, AtPlace
  <2>3. Cardinality(S) \in Nat
    BY HandlerTypes DEF ReleaseHandlers
  <2> QED
    BY <1>4, <2>1, <2>2, <2>3 DEF ReleaseHandlers
<1>8. ASSUME NEW y \in Nodes, NEW pc
      PROVE  At(y, pc)' = At(y, pc) + IF y = n /\ pc = g.pc THEN 1 ELSE 0
  <2> DEFINE S == AtPlace(y, pc)
  <2>1. S' = IF y = n /\ pc = g.pc THEN S \cup {g} ELSE S
    BY <1>2 DEF AtPlace
  <2>2. y = n => S \subseteq handlers[n]
    BY DEF ReleasesHandled, AtPlace
  <2>3. Cardinality(S) \in Nat
    BY HandlerTypes DEF At
  <2> QED
    BY <1>4, <2>1, <2>2, <2>3 DEF At
<1>9. g.node \in Nodes
  BY <1>1 DEF Handler
<1>10. /\ HandledN(g.node, n, g.action)' = HandledN(g.node, n, g.action) + 1
       /\ \A x, y \in Nodes : \A a :
            ~(x = g.node /\ y = n /\ a = g.action) => HandledN(x, y, a)' = HandledN(x, y, a)
  <2>1. \A x, y \in Nodes : \A a : HandledN(x, y, a) \in Nat
    BY HandlerTypes
  <2> QED
    BY <1>6, <1>9, <2>1
<1>11. /\ g.action = "release" => ReleaseHandlers(n)' = ReleaseHandlers(n) + 1
       /\ \A y \in Nodes : y # n \/ g.action # "release" => ReleaseHandlers(y)' = ReleaseHandlers(y)
  <2>1. \A y \in Nodes : ReleaseHandlers(y) \in Nat
    BY HandlerTypes
  <2> QED
    BY <1>7, <2>1
<1>12. /\ At(n, g.pc)' = At(n, g.pc) + 1
       /\ \A y \in Nodes : \A pc : y # n \/ pc # g.pc => At(y, pc)' = At(y, pc)
  <2>1. \A y \in Nodes : \A pc : At(y, pc) \in Nat
    BY HandlerTypes
  <2> QED
    BY <1>8, <2>1
<1> QED
  BY <1>2, <1>5, <1>10, <1>11, <1>12 DEF Starts

\* A goroutine that ends.
Ends(n, g) ==
    /\ handlers' \in [Nodes -> SUBSET Handler]
    /\ handlers'[n] = handlers[n] \ {g}
    /\ \A y \in Nodes \ {n} : handlers'[y] = handlers[y]
    /\ \A y \in Nodes : IsFiniteSet(handlers'[y])
    /\ HandledN(g.node, n, g.action)' = HandledN(g.node, n, g.action) - 1
    /\ \A x, y \in Nodes : \A a :
         ~(x = g.node /\ y = n /\ a = g.action) => HandledN(x, y, a)' = HandledN(x, y, a)
    /\ g.action = "release" => ReleaseHandlers(n)' = ReleaseHandlers(n) - 1
    /\ \A y \in Nodes : y # n \/ g.action # "release" => ReleaseHandlers(y)' = ReleaseHandlers(y)
    /\ At(n, g.pc)' = At(n, g.pc) - 1
    /\ \A y \in Nodes : \A pc : y # n \/ pc # g.pc => At(y, pc)' = At(y, pc)

LEMMA DoneEffect ==
  ASSUME TypeOK, Goroutines, NEW n \in Nodes, NEW g \in handlers[n],
         handlers' = [handlers EXCEPT ![n] = @ \ {g}]
  PROVE  Ends(n, g)
<1>1. handlers \in [Nodes -> SUBSET Handler]
  BY DEF TypeOK
<1>2. /\ handlers' \in [Nodes -> SUBSET Handler]
      /\ handlers'[n] = handlers[n] \ {g}
      /\ \A y \in Nodes \ {n} : handlers'[y] = handlers[y]
  BY <1>1
<1>3. \A y \in Nodes : IsFiniteSet(handlers[y])
  BY DEF Goroutines
<1>4. \A S : S \subseteq handlers[n] /\ g \in S =>
        /\ IsFiniteSet(S) /\ Cardinality(S) \in Nat /\ IsFiniteSet(S \ {g})
        /\ Cardinality(S \ {g}) = Cardinality(S) - 1
  <2> SUFFICES ASSUME NEW S, S \subseteq handlers[n], g \in S
               PROVE  /\ IsFiniteSet(S) /\ Cardinality(S) \in Nat /\ IsFiniteSet(S \ {g})
                      /\ Cardinality(S \ {g}) = Cardinality(S) - 1
    OBVIOUS
  <2>1. IsFiniteSet(S) /\ Cardinality(S) \in Nat
    BY <1>3, FS_Subset, FS_CardinalityType
  <2> QED
    BY <2>1, FS_RemoveElement
<1>5. \A y \in Nodes : IsFiniteSet(handlers'[y])
  BY <1>2, <1>3, <1>4
<1>6. ASSUME NEW x \in Nodes, NEW y \in Nodes, NEW a
      PROVE  HandledN(x, y, a)'
               = HandledN(x, y, a) - IF x = g.node /\ y = n /\ a = g.action THEN 1 ELSE 0
  <2> DEFINE S == Handled(x, y, a)
  <2>1. S' = IF x = g.node /\ y = n /\ a = g.action THEN S \ {g} ELSE S
    BY <1>2 DEF Handled
  <2>2. x = g.node /\ y = n /\ a = g.action => S \subseteq handlers[n] /\ g \in S
    BY DEF Handled
  <2>3. Cardinality(S) \in Nat
    BY HandlerTypes DEF HandledN
  <2> QED
    BY <1>4, <2>1, <2>2, <2>3 DEF HandledN
<1>7. ASSUME NEW y \in Nodes
      PROVE  ReleaseHandlers(y)'
               = ReleaseHandlers(y) - IF y = n /\ g.action = "release" THEN 1 ELSE 0
  <2> DEFINE S == ReleasesHandled(y)
  <2>1. S' = IF y = n /\ g.action = "release" THEN S \ {g} ELSE S
    BY <1>2 DEF ReleasesHandled
  <2>2. y = n /\ g.action = "release" => S \subseteq handlers[n] /\ g \in S
    BY DEF ReleasesHandled, AtPlace
  <2>3. Cardinality(S) \in Nat
    BY HandlerTypes DEF ReleaseHandlers
  <2> QED
    BY <1>4, <2>1, <2>2, <2>3 DEF ReleaseHandlers
<1>8. ASSUME NEW y \in Nodes, NEW pc
      PROVE  At(y, pc)' = At(y, pc) - IF y = n /\ pc = g.pc THEN 1 ELSE 0
  <2> DEFINE S == AtPlace(y, pc)
  <2>1. S' = IF y = n /\ pc = g.pc THEN S \ {g} ELSE S
    BY <1>2 DEF AtPlace
  <2>2. y = n /\ pc = g.pc => S \subseteq handlers[n] /\ g \in S
    BY DEF ReleasesHandled, AtPlace
  <2>3. Cardinality(S) \in Nat
    BY HandlerTypes DEF At
  <2> QED
    BY <1>4, <2>1, <2>2, <2>3 DEF At
<1>9. g.node \in Nodes
  BY <1>1 DEF Handler
<1>10. /\ HandledN(g.node, n, g.action)' = HandledN(g.node, n, g.action) - 1
       /\ \A x, y \in Nodes : \A a :
            ~(x = g.node /\ y = n /\ a = g.action) => HandledN(x, y, a)' = HandledN(x, y, a)
  <2>1. \A x, y \in Nodes : \A a : HandledN(x, y, a) \in Nat
    BY HandlerTypes
  <2> QED
    BY <1>6, <1>9, <2>1
<1>11. /\ g.action = "release" => ReleaseHandlers(n)' = ReleaseHandlers(n) - 1
       /\ \A y \in Nodes : y # n \/ g.action # "release" => ReleaseHandlers(y)' = ReleaseHandlers(y)
  <2>1. \A y \in Nodes : ReleaseHandlers(y) \in Nat
    BY HandlerTypes
  <2> QED
    BY <1>7, <2>1
<1>12. /\ At(n, g.pc)' = At(n, g.pc) - 1
       /\ \A y \in Nodes : \A pc : y # n \/ pc # g.pc => At(y, pc)' = At(y, pc)
  <2>1. \A y \in Nodes : \A pc : At(y, pc) \in Nat
    BY HandlerTypes
  <2> QED
    BY <1>8, <2>1
<1> QED
  BY <1>2, <1>5, <1>10, <1>11, <1>12 DEF Ends

\* A goroutine that moves on.
Moves(n, h, pc, g) ==
    /\ handlers' \in [Nodes -> SUBSET Handler]
    /\ g \in Handler /\ g.action = h.action /\ g.node = h.node
    /\ g.timestamp = h.timestamp /\ g.pc = pc
    /\ handlers'[n] = (handlers[n] \ {h}) \cup {g} /\ h \notin handlers'[n]
    /\ \A y \in Nodes \ {n} : handlers'[y] = handlers[y]
    /\ \A y \in Nodes : IsFiniteSet(handlers'[y])
    /\ \A x, y \in Nodes : \A a : HandledN(x, y, a)' = HandledN(x, y, a)
    /\ Handled(h.node, n, h.action)' = {g}
    /\ \A x, y \in Nodes : \A a :
         ~(x = h.node /\ y = n /\ a = h.action) => Handled(x, y, a)' = Handled(x, y, a)
    /\ \A y \in Nodes : ReleaseHandlers(y)' = ReleaseHandlers(y)
    /\ At(n, pc)' = At(n, pc) + 1 /\ At(n, h.pc)' = At(n, h.pc) - 1
    /\ \A y \in Nodes : \A c : y # n \/ c \notin {pc, h.pc} => At(y, c)' = At(y, c)

LEMMA MoveEffect ==
  ASSUME TypeOK, Goroutines, Answers, NEW n \in Nodes, NEW h \in handlers[n],
         h.action \in {"request", "ack"}, NEW pc \in PCs, pc # h.pc, Become(n, h, pc),
         NEW g, g = [h EXCEPT !.pc = pc]
  PROVE  Moves(n, h, pc, g)
<1>1. handlers \in [Nodes -> SUBSET Handler] /\ h \in Handler
  BY DEF TypeOK
<1>2. /\ g \in Handler /\ g.action = h.action /\ g.node = h.node
      /\ g.timestamp = h.timestamp /\ g.pc = pc
  BY <1>1, Moved
<1>3. /\ handlers' \in [Nodes -> SUBSET Handler]
      /\ handlers'[n] = (handlers[n] \ {h}) \cup {g} /\ h \notin handlers'[n]
      /\ \A y \in Nodes \ {n} : handlers'[y] = handlers[y]
  BY <1>1, <1>2 DEF Become
<1>4. Handled(h.node, n, h.action) = {h}
  BY OnlyHandler
<1>5. g \notin handlers[n]
  BY <1>2, <1>4 DEF Handled
<1>6. \A y \in Nodes : IsFiniteSet(handlers[y])
  BY DEF Goroutines
<1>7. \A y \in Nodes : IsFiniteSet(handlers'[y])
  <2>1. IsFiniteSet(handlers[n] \ {h})
    BY <1>6, FS_RemoveElement
  <2>2. IsFiniteSet((handlers[n] \ {h}) \cup {g})
    BY <2>1, FS_AddElement
  <2> QED
    BY <1>3, <1>6, <2>2
<1>8. Handled(h.node, n, h.action)' = {g}
  BY <1>2, <1>3, <1>4 DEF Handled
<1>9. \A x, y \in Nodes : \A a :
        ~(x = h.node /\ y = n /\ a = h.action) => Handled(x, y, a)' = Handled(x, y, a)
  BY <1>2, <1>3 DEF Handled
<1>10. \A x, y \in Nodes : \A a : HandledN(x, y, a)' = HandledN(x, y, a)
  <2>1. Cardinality({h}) = 1 /\ Cardinality({g}) = 1
    BY FS_Singleton
  <2> QED
    BY <1>4, <1>8, <1>9, <2>1 DEF HandledN
<1>11. \A y \in Nodes : ReleaseHandlers(y)' = ReleaseHandlers(y)
  BY <1>2, <1>3 DEF ReleaseHandlers, ReleasesHandled
<1>12. ASSUME NEW y \in Nodes, NEW c
       PROVE  At(y, c)'
                = At(y, c) + (IF y = n /\ c = pc THEN 1 ELSE 0) - (IF y = n /\ c = h.pc THEN 1 ELSE 0)
  <2>1. IsFiniteSet(AtPlace(y, c)) /\ Cardinality(AtPlace(y, c)) \in Nat
    BY <1>6, FS_Subset, FS_CardinalityType DEF AtPlace
  <2>2. CASE y = n /\ c = pc
    <3>1. AtPlace(y, c)' = AtPlace(y, c) \cup {g} /\ g \notin AtPlace(y, c)
      BY <1>2, <1>3, <1>5, <2>2 DEF AtPlace
    <3>2. Cardinality(AtPlace(y, c) \cup {g}) = Cardinality(AtPlace(y, c)) + 1
      BY <2>1, <3>1, FS_AddElement
    <3> QED
      BY <2>1, <2>2, <3>1, <3>2 DEF At
  <2>3. CASE y = n /\ c = h.pc
    <3>1. AtPlace(y, c)' = AtPlace(y, c) \ {h} /\ h \in AtPlace(y, c)
      BY <1>2, <1>3, <1>5, <2>3 DEF AtPlace
    <3>2. Cardinality(AtPlace(y, c) \ {h}) = Cardinality(AtPlace(y, c)) - 1
      BY <2>1, <3>1, FS_RemoveElement
    <3> QED
      BY <2>1, <2>3, <3>1, <3>2 DEF At
  <2>4. CASE ~(y = n /\ c = pc) /\ ~(y = n /\ c = h.pc)
    <3>1. AtPlace(y, c)' = AtPlace(y, c)
      BY <1>2, <1>3, <1>5, <2>4 DEF AtPlace
    <3> QED
      BY <2>1, <2>4, <3>1 DEF At
  <2> QED
    BY <2>2, <2>3, <2>4
<1>13. /\ At(n, pc)' = At(n, pc) + 1 /\ At(n, h.pc)' = At(n, h.pc) - 1
       /\ \A y \in Nodes : \A c : y # n \/ c \notin {pc, h.pc} => At(y, c)' = At(y, c)
  <2>1. \A y \in Nodes : \A c : At(y, c) \in Nat
    BY HandlerTypes
  <2> QED
    BY <1>12, <2>1
<1> QED
  BY <1>2, <1>3, <1>7, <1>8, <1>9, <1>10, <1>11, <1>13 DEF Moves

-----------------------------------------------------------------------------
(***************************************************************************)
(* The types.                                                              *)
(***************************************************************************)

LEMMA InitType == Init => TypeOK
<1> SUFFICES ASSUME Init PROVE TypeOK
  OBVIOUS
<1>1. \A S : << >> \in Seq(S)
  BY EmptySeq
<1> QED
  BY <1>1, MaxRequestsAssumption DEF Init, TypeOK, NoHolder

LEMMA QueueInsertType ==
  ASSUME TypeOK, NEW n \in Nodes, NEW e \in Elem, QueueInsert(n, e)
  PROVE  queue' \in [Nodes -> Seq(Elem)] /\ panic' \in {panic, "SameRequestTwice"}
<1>1. Insert(queue[n], e) \in Seq(Elem)
  BY Inserted DEF TypeOK
<1> QED
  BY <1>1 DEF QueueInsert, TypeOK

LEMMA QueueExtractType ==
  ASSUME TypeOK, NEW n \in Nodes, QueueExtract(n)
  PROVE  queue' \in [Nodes -> Seq(Elem)] /\ panic' \in {panic, "EmptyQueue"}
<1>1. queue[n] # << >> => Tail(queue[n]) \in Seq(Elem)
  BY HeadTailProperties DEF TypeOK
<1> QED
  BY <1>1 DEF QueueExtract, TypeOK

LEMMA ElemType ==
  ASSUME NEW n \in Nodes, NEW t \in Nat
  PROVE  [nodeId |-> n, timestamp |-> t] \in Elem
  BY DEF Elem

LEMMA MoveType ==
  ASSUME TypeOK, NEW n \in Nodes, NEW h \in handlers[n], NEW pc \in PCs, Become(n, h, pc)
  PROVE  handlers' \in [Nodes -> SUBSET Handler]
<1>1. handlers \in [Nodes -> SUBSET Handler] /\ h \in Handler
  BY DEF TypeOK
<1>2. [h EXCEPT !.pc = pc] \in Handler
  BY <1>1, Moved
<1> QED
  BY <1>1, <1>2 DEF Become

LEMMA SendType ==
  ASSUME TypeOK, NEW n \in Nodes, NEW d \in Nodes, NEW a \in Actions, NEW t \in Nat, Send(n, d, a, t)
  PROVE  channel' \in [Nodes -> Seq(Message)]
  BY SendEffect DEF SendsLast

LEMMA HandlerStepType ==
  ASSUME TypeOK, NEW n \in Nodes, NEW h \in handlers[n], HandlerStep(n, h)
  PROVE  TypeOK'
<1>1. h \in Handler /\ h.node \in Nodes /\ h.timestamp \in Nat
  <2>1. h \in Handler
    BY DEF TypeOK
  <2> QED
    BY <2>1 DEF Handler
<1>2. CASE InsertRequest(n, h)
  <2>1. [nodeId |-> h.node, timestamp |-> h.timestamp] \in Elem
    BY <1>1, ElemType
  <2>2. queue' \in [Nodes -> Seq(Elem)] /\ panic' \in {panic, "SameRequestTwice"}
    BY <1>2, <2>1, QueueInsertType DEF InsertRequest
  <2>3. handlers' \in [Nodes -> SUBSET Handler]
    BY <1>2, MoveType DEF InsertRequest, PCs
  <2> QED
    BY <1>2, <2>2, <2>3 DEF InsertRequest, TypeOK, lockVars, clientVars
<1>3. CASE TryOngoing(n, h)
  <2>1. handlers' \in [Nodes -> SUBSET Handler]
    BY <1>3, MoveType DEF TryOngoing, PCs
  <2> QED
    BY <1>3, <2>1 DEF TryOngoing, TypeOK, clientVars, sharedVars
<1>4. CASE CompareRequests(n, h)
  <2>1. handlers' \in [Nodes -> SUBSET Handler]
    BY <1>4, MoveType DEF CompareRequests, PCs
  <2> QED
    BY <1>4, <2>1 DEF CompareRequests, TypeOK, clientVars, sharedVars, lockVars
<1>5. CASE LockPending(n, h)
  <2>1. handlers' \in [Nodes -> SUBSET Handler]
    BY <1>5, MoveType DEF LockPending, PCs
  <2> QED
    BY <1>5, <2>1 DEF LockPending, TypeOK, clientVars, sharedVars
<1>6. CASE SendAck(n, h)
  <2>1. clock[n] + 1 \in Nat
    BY DEF TypeOK
  <2>2. channel' \in [Nodes -> Seq(Message)]
    BY <1>1, <1>6, <2>1, SendType DEF SendAck, Actions
  <2> QED
    BY <1>6, <2>1, <2>2 DEF SendAck, Finish, UnlockPending, TypeOK, clientVars
<1>7. CASE HandleRelease(n, h)
  <2>1. queue' \in [Nodes -> Seq(Elem)] /\ panic' \in {panic, "EmptyQueue"}
    BY <1>7, QueueExtractType DEF HandleRelease
  <2> QED
    BY <1>7, <2>1 DEF HandleRelease, Finish, TypeOK, clientVars, lockVars
<1>8. CASE HandleReqAck(n, h)
  <2>1. handlers' \in [Nodes -> SUBSET Handler]
    <3>1. ASSUME Finish(n, h) PROVE handlers' \in [Nodes -> SUBSET Handler]
      BY <3>1 DEF Finish, TypeOK
    <3> QED
      BY <1>8, <3>1, MoveType DEF HandleReqAck, PCs
  <2> QED
    BY <1>8, <2>1 DEF HandleReqAck, TypeOK, clientVars, lockVars, sharedVars
<1>9. CASE CountAck(n, h)
  <2>1. pendingReq' \in [Nodes -> BOOLEAN]
        /\ panic' \in {panic, "UnlockOfUnlocked", "TooManyAcks"}
    BY <1>9 DEF CountAck, UnlockPending, TypeOK
  <2>2. reqAckCount' \in [Nodes -> Nat] /\ handlers' \in [Nodes -> SUBSET Handler]
    BY <1>9, SMTT(30) DEF CountAck, Finish, TypeOK
  <2> QED
    BY <1>9, <2>1, <2>2 DEF CountAck, TypeOK, clientVars
<1> QED
  BY <1>2, <1>3, <1>4, <1>5, <1>6, <1>7, <1>8, <1>9 DEF HandlerStep

LEMMA ClientStepType ==
  ASSUME TypeOK, NEW n \in Nodes, ClientStep(n)
  PROVE  TypeOK'
<1> USE DEF Go
<1>1. CASE Tick(n)
  <2>1. clock' \in [Nodes -> Nat]
    <3>1. clock \in [Nodes -> Nat] /\ clock' = [clock EXCEPT ![n] = @ + 1]
      BY <1>1 DEF Tick, TypeOK
    <3> QED
      BY <3>1
  <2> QED
    BY <1>1, <2>1 DEF Tick, TypeOK, lockVars, sharedVars
<1>2. CASE ReadTimestamp(n)
  BY <1>2 DEF ReadTimestamp, TypeOK, lockVars, sharedVars
<1>3. CASE StampRequest(n)
  BY <1>3 DEF StampRequest, TypeOK, lockVars, sharedVars
<1>4. CASE InsertOwn(n)
  <2>1. [nodeId |-> n, timestamp |-> stamp[n]] \in Elem
    BY ElemType DEF TypeOK
  <2>2. queue' \in [Nodes -> Seq(Elem)] /\ panic' \in {panic, "SameRequestTwice"}
    BY <1>4, <2>1, QueueInsertType DEF InsertOwn
  <2> QED
    BY <1>4, <2>2 DEF InsertOwn, TypeOK, lockVars
<1>5. CASE LockOwnPending(n)
  BY <1>5 DEF LockOwnPending, TypeOK, sharedVars
<1>6. ASSUME NEW d \in Nodes, Broadcast(n, d) PROVE TypeOK'
  <2>1. channel' \in [Nodes -> Seq(Message)]
    <3>1. stamp[n] \in Nat
      BY DEF TypeOK
    <3>2. CASE cpc[n] = "request"
      BY <1>6, <3>1, <3>2, SendType DEF Broadcast, Actions
    <3>3. CASE cpc[n] # "request"
      BY <1>6, <3>1, <3>3, SendType DEF Broadcast, Actions
    <3> QED
      BY <3>2, <3>3
  <2> QED
    BY <1>6, <2>1 DEF Broadcast, TypeOK, lockVars, sharedVars
<1>7. CASE EnterCS(n)
  <2>1. holder' \in Nodes \cup {NoHolder} /\ panic' \in {panic, "EmptyQueue", "SafetyBreached"}
    BY <1>7 DEF EnterCS, TypeOK
  <2> QED
    BY <1>7, <2>1 DEF EnterCS, TypeOK
<1>8. CASE ReleaseLock(n)
  BY <1>8 DEF ReleaseLock, TypeOK, lockVars
<1>9. CASE ExtractOwn(n)
  <2>1. queue' \in [Nodes -> Seq(Elem)] /\ panic' \in {panic, "EmptyQueue"}
    BY <1>9, QueueExtractType DEF ExtractOwn
  <2>2. clock' \in [Nodes -> Nat] /\ stamp' \in [Nodes -> Nat]
    BY <1>9, SMTT(30) DEF ExtractOwn, TypeOK
  <2> QED
    BY <1>9, <2>1, <2>2 DEF ExtractOwn, TypeOK, lockVars
<1>10. CASE ReleaseDone(n)
  BY <1>10 DEF ReleaseDone, TypeOK, lockVars, sharedVars
<1> QED
  BY <1>1, <1>2, <1>3, <1>4, <1>5, <1>6, <1>7, <1>8, <1>9, <1>10 DEF ClientStep

LEMMA StepType ==
  ASSUME TypeOK, [Next]_vars
  PROVE  TypeOK'
<1>1. CASE UNCHANGED vars
  BY <1>1 DEF vars, clientVars, lockVars, sharedVars, TypeOK
<1>2. ASSUME NEW n \in Nodes, AcquireLock(n) PROVE TypeOK'
  <2>1. requested[n] + 1 \in 0..MaxRequests
    BY <1>2, MaxRequestsAssumption, SMTT(30) DEF AcquireLock, TypeOK
  <2> QED
    BY <1>2, <2>1 DEF AcquireLock, Go, TypeOK, sharedVars
<1>3. ASSUME NEW n \in Nodes, HandleMsg(n) PROVE TypeOK'
  <2>1. /\ Tail(channel[n]) \in Seq(Message) /\ Head(channel[n]) \in Message
    BY <1>3, HeadTailProperties DEF HandleMsg, TypeOK
  <2>2. PICK m \in Message : m = Head(channel[n])
    BY <2>1
  <2>3. /\ m.node \in Nodes /\ m.timestamp \in Nat
        /\ [action |-> m.action, node |-> m.node, timestamp |-> m.timestamp, pc |-> "start"] \in Handler
    BY DEF Message, Handler
  <2>4. /\ clock' = [clock EXCEPT ![n] = 1 + IF @ > m.timestamp THEN @ ELSE m.timestamp]
        /\ handlers' = [handlers EXCEPT ![n] = @ \cup
             {[action |-> m.action, node |-> m.node, timestamp |-> m.timestamp, pc |-> "start"]}]
    BY <1>3, <2>2 DEF HandleMsg
  <2>5. clock' \in [Nodes -> Nat]
    <3>1. clock \in [Nodes -> Nat]
      BY DEF TypeOK
    <3>2. 1 + (IF clock[n] > m.timestamp THEN clock[n] ELSE m.timestamp) \in Nat
      BY <2>3, <3>1
    <3> QED
      BY <2>4, <3>1, <3>2
  <2>6. handlers' \in [Nodes -> SUBSET Handler]
    BY <2>3, <2>4 DEF TypeOK
  <2> QED
    BY <1>3, <2>1, <2>5, <2>6 DEF HandleMsg, TypeOK, lockVars, clientVars, sharedVars
<1> QED
  BY <1>1, <1>2, <1>3, HandlerStepType, ClientStepType DEF Next

THEOREM TypeCorrect == Spec => []TypeOK
<1> QED
  BY InitType, StepType, PTL DEF Spec

-----------------------------------------------------------------------------
(***************************************************************************)
(* What steps leave alone.                                                 *)
(***************************************************************************)

LEMMA MessagesSame ==
  ASSUME UNCHANGED <<channel, handlers>>
  PROVE  \A n, d : /\ \A a : /\ Sent(n, d, a)' = Sent(n, d, a) /\ Handled(n, d, a)' = Handled(n, d, a)
                             /\ SentN(n, d, a)' = SentN(n, d, a)
                             /\ HandledN(n, d, a)' = HandledN(n, d, a)
                             /\ At(n, a)' = At(n, a)
                   /\ Pending(n, d)' = Pending(n, d)
                   /\ ReleasesSent(n)' = ReleasesSent(n)
                   /\ ReleaseHandlers(n)' = ReleaseHandlers(n)
  BY DEF Sent, Handled, SentN, HandledN, Pending, ReleasesSent, ReleaseHandlers, ReleasesHandled,
         At, AtPlace

LEMMA ElementType ==
  ASSUME TypeOK, NEW d \in Nodes, NEW i \in 1..Len(queue[d])
  PROVE  queue[d][i].nodeId \in Nodes /\ queue[d][i].timestamp \in Nat
<1>1. queue[d] \in Seq(Elem)
  BY DEF TypeOK
<1>2. queue[d][i] \in Elem
  BY <1>1, ElementOfSeq
<1> QED
  BY <1>2 DEF Elem

LEMMA AnswersSame ==
  ASSUME NEW n \in Nodes, AnswersTo(n), cpc'[n] = "request" <=> cpc[n] = "request",
         unsent'[n] = unsent[n], reqAckCount'[n] = reqAckCount[n],
         \A d \in Nodes : Pending(n, d)' = Pending(n, d)
  PROVE  AnswersTo(n)'
<1>1. {d \in Nodes : Pending(n, d)' = 1} = {d \in Nodes : Pending(n, d) = 1}
  OBVIOUS
<1> QED
  BY <1>1 DEF AnswersTo

\* Clocks grow, and requests that are sent or start have been before.
LEMMA StampsSame ==
  ASSUME TypeOK, TypeOK', Stamps,
         \A n \in Nodes : clock'[n] >= clock[n],
         UNCHANGED <<stamp, cpc>>,
         \A d \in Nodes : \A i \in 1..Len(queue'[d]) :
            \/ \E j \in 1..Len(queue[d]) : queue'[d][i] = queue[d][j]
            \/ \E m \in Present(d)' : queue'[d][i] = ElemOf(m)',
         \A n, d \in Nodes :
            /\ \A i \in Sent(n, d, "request")' :
                 \E j \in Sent(n, d, "request") : channel'[d][i].timestamp = channel[d][j].timestamp
            /\ \A h \in Handled(n, d, "request")' : h.pc = "start" =>
                 h \in Handled(n, d, "request")
                 \/ \E j \in Sent(n, d, "request") : h.timestamp = channel[d][j].timestamp,
         \A n, d \in Nodes : Uninserted(n, d)' => Uninserted(n, d)
  PROVE  Stamps'
<1>1. \A n \in Nodes : clock[n] \in Nat /\ clock'[n] \in Nat /\ stamp[n] \in Nat
  BY DEF TypeOK
<1>2. \A d \in Nodes : \A i \in 1..Len(queue[d]) :
        queue[d][i].nodeId \in Nodes /\ queue[d][i].timestamp \in Nat
  BY ElementType
<1>3. \A n \in Nodes :
         cpc[n] \in {"stamp", "insert", "lockPending", "request", "cs", "extract", "release"} =>
             stamp[n] <= clock'[n]
  BY <1>1 DEF Stamps
<1>4. \A n, d \in Nodes :
         /\ \A i \in Sent(n, d, "request")' : channel'[d][i].timestamp = stamp[n]
         /\ \A h \in Handled(n, d, "request")' : h.pc = "start" => h.timestamp = stamp[n]
  BY DEF Stamps
<1>5. ASSUME NEW d \in Nodes, NEW i \in 1..Len(queue[d]),
             NEW m, m = queue[d][i].nodeId, NEW t, t = queue[d][i].timestamp
      PROVE  StampedAt(m, t, d)'
  <2> USE DEF StampedAt
  <2>1. m \in Nodes /\ t \in Nat
    BY <1>2, <1>5
  <2>2. /\ t <= clock[m]
        /\ cpc[m] = "read" => t < clock[m]
        /\ cpc[m] \in {"lockPending", "request", "cs", "extract"} => t <= stamp[m]
        /\ Uninserted(m, d) => t < stamp[m]
    BY <1>5 DEF Stamps, StampedAt
  <2> QED
    BY <1>1, <2>1, <2>2
<1>6. ASSUME NEW d \in Nodes, NEW m \in Present(d)'
      PROVE  StampedAt(m, stamp[m], d)'
  BY <1>1, <1>3 DEF StampedAt, Present
<1>7. ASSUME NEW d \in Nodes, NEW i \in 1..Len(queue'[d])
      PROVE  StampedAt(queue[d][i].nodeId, queue[d][i].timestamp, d)'
  <2>1. CASE \E j \in 1..Len(queue[d]) : queue'[d][i] = queue[d][j]
    BY <1>5, <2>1
  <2>2. CASE \E m \in Present(d)' : queue'[d][i] = ElemOf(m)'
    BY <1>6, <2>2 DEF ElemOf
  <2> QED
    BY <2>1, <2>2
<1> QED
  BY <1>3, <1>4, <1>7 DEF Stamps

LEMMA ReleasedType ==
  ASSUME TypeOK, Goroutines, NEW n \in Nodes
  PROVE  /\ IsFiniteSet(Releasing(n)) /\ Cardinality(Releasing(n)) \in Nat
         /\ IsFiniteSet(Present(n)) /\ Cardinality(Present(n)) \in Nat
         /\ ReleasesSent(n) \in Nat /\ ReleaseHandlers(n) \in Nat
         /\ Released(n) \in Nat
<1>1. Releasing(n) \subseteq Nodes /\ Present(n) \subseteq Nodes
  BY DEF Releasing, Present
<1>2. IsFiniteSet(Releasing(n)) /\ IsFiniteSet(Present(n))
  BY <1>1, NodesAssumption, FS_Subset
<1> QED
  BY <1>2, SentTypes, HandlerTypes, FS_CardinalityType DEF Released

-----------------------------------------------------------------------------
(***************************************************************************)
(* The steps of the client.                                                *)
(***************************************************************************)

LEMMA ReleaseStampsSame ==
  ASSUME TypeOK, TypeOK', ReleaseStamps,
         \A m, d \in Nodes :
            /\ Sent(m, d, "release")' = Sent(m, d, "release")
            /\ Handled(m, d, "release")' \subseteq Handled(m, d, "release")
            /\ \A i \in Sent(m, d, "release") : channel'[d][i] = channel[d][i],
         \A m \in Nodes : clock'[m] >= clock[m],
         \A m, d \in Nodes : cpc'[m] = "release" /\ d \in unsent'[m] =>
            \/ cpc[m] = "release" /\ d \in unsent[m] /\ stamp'[m] = stamp[m]
            \/ stamp'[m] > clock[m]
  PROVE  ReleaseStamps'
<1>1. \A m \in Nodes : clock[m] \in Nat /\ clock'[m] \in Nat /\ stamp'[m] \in Nat
  BY DEF TypeOK
<1>3. ASSUME NEW n \in Nodes, NEW d \in Nodes, NEW i \in Sent(n, d, "release")
      PROVE  channel[d][i].timestamp \in Nat
  <2>1. channel[d] \in Seq(Message) /\ i \in 1..Len(channel[d])
    BY DEF TypeOK, Sent
  <2>2. channel[d][i] \in Message
    BY <2>1, ElementOfSeq
  <2> QED
    BY <2>2 DEF Message
<1>4. \A n, d \in Nodes : \A h \in Handled(n, d, "release") : h.timestamp \in Nat
  BY DEF TypeOK, Handled, Handler
<1> SUFFICES ASSUME NEW n \in Nodes, NEW d \in Nodes
             PROVE  /\ \A i \in Sent(n, d, "release") :
                         /\ channel[d][i].timestamp <= clock'[n]
                         /\ cpc'[n] = "release" /\ d \in unsent'[n] => channel[d][i].timestamp < stamp'[n]
                         /\ \A j \in Sent(n, d, "release") :
                              channel[d][j].timestamp = channel[d][i].timestamp => j = i
                         /\ \A h \in Handled(n, d, "release") : h.timestamp # channel[d][i].timestamp
                    /\ \A h \in Handled(n, d, "release") :
                         /\ h.timestamp <= clock'[n]
                         /\ cpc'[n] = "release" /\ d \in unsent'[n] => h.timestamp < stamp'[n]
  <2>1. ASSUME NEW m \in Nodes, NEW d \in Nodes
        PROVE  /\ Sent(m, d, "release")' = Sent(m, d, "release")
               /\ Handled(m, d, "release")' \subseteq Handled(m, d, "release")
               /\ \A i \in Sent(m, d, "release") : channel'[d][i] = channel[d][i]
    OBVIOUS
  <2> QED
    BY <2>1 DEF ReleaseStamps
<1>5. ASSUME NEW i \in Sent(n, d, "release")
      PROVE  /\ channel[d][i].timestamp <= clock'[n]
             /\ cpc'[n] = "release" /\ d \in unsent'[n] => channel[d][i].timestamp < stamp'[n]
             /\ \A j \in Sent(n, d, "release") :
                  channel[d][j].timestamp = channel[d][i].timestamp => j = i
             /\ \A h \in Handled(n, d, "release") : h.timestamp # channel[d][i].timestamp
  BY <1>1, <1>3 DEF ReleaseStamps
<1>6. ASSUME NEW h \in Handled(n, d, "release")
      PROVE  /\ h.timestamp <= clock'[n]
             /\ cpc'[n] = "release" /\ d \in unsent'[n] => h.timestamp < stamp'[n]
  BY <1>1, <1>4 DEF ReleaseStamps
<1> QED
  BY <1>5, <1>6

LEMMA ReleaseStampsKept ==
  ASSUME TypeOK, TypeOK', ReleaseStamps, UNCHANGED <<channel, handlers>>,
         \A m \in Nodes : clock'[m] >= clock[m],
         \A m, d \in Nodes : cpc'[m] = "release" /\ d \in unsent'[m] =>
            \/ cpc[m] = "release" /\ d \in unsent[m] /\ stamp'[m] = stamp[m]
            \/ stamp'[m] > clock[m]
  PROVE  ReleaseStamps'
<1>1. \A n, d, a : Sent(n, d, a)' = Sent(n, d, a) /\ Handled(n, d, a)' = Handled(n, d, a)
  BY MessagesSame
<1>2. \A m, d \in Nodes :
        /\ Sent(m, d, "release")' = Sent(m, d, "release")
        /\ Handled(m, d, "release")' \subseteq Handled(m, d, "release")
        /\ \A i \in Sent(m, d, "release") : channel'[d][i] = channel[d][i]
  BY <1>1
<1> QED
  BY <1>2, ReleaseStampsSame

\* A step of n that is not about messages, the queue or the count of REQ_ACKs, and does not
\* begin or end a request.
LEMMA QuietStep ==
  ASSUME TypeOK, TypeOK', Conserved, NEW n \in Nodes,
         UNCHANGED <<queue, channel, handlers, unsent, reqAckCount, pendingReq>>,
         \A m \in Nodes \ {n} : cpc'[m] = cpc[m] /\ stamp'[m] = stamp[m]
                                /\ ongoingReq'[m] = ongoingReq[m],
         \A m \in Nodes : clock'[m] >= clock[m],
         cpc[n] # "request" /\ cpc'[n] # "request" /\ cpc'[n] # "release",
         cpc[n] = "release" => unsent[n] = {},
         At(n, "ackFree") + (IF OngoingClient(n)' THEN 1 ELSE 0) = IF ongoingReq'[n] THEN 1 ELSE 0,
         \A d \in Nodes : Present(d)' = Present(d),
         Stamps', HolderInCS', NoOtherPanic'
  PROVE  Conserved'
<1> USE DEF Conserved
<1>1. /\ \A x, d : Pending(x, d)' = Pending(x, d) /\ At(x, d)' = At(x, d)
      /\ \A x : ReleasesSent(x)' = ReleasesSent(x) /\ ReleaseHandlers(x)' = ReleaseHandlers(x)
  BY MessagesSame
<1>2. Goroutines'
  BY DEF Goroutines
<1>3. Mutexes'
  BY <1>1 DEF Mutexes, PendingClient, OngoingClient
<1>4. Answers'
  BY <1>1, AnswersSame DEF Answers
<1>5. ReleaseStamps'
  BY ReleaseStampsKept
<1>6. Lengths'
  <2>1. \A x \in Nodes : Releasing(x)' = Releasing(x)
    BY DEF Releasing
  <2> QED
    BY <1>1, <2>1 DEF Lengths, Released
<1> QED
  BY <1>2, <1>3, <1>4, <1>5, <1>6

\* The stamps after a quiet step of n: what matters is how its elements compare.
LEMMA QuietStamps ==
  ASSUME TypeOK, TypeOK', Conserved, NEW n \in Nodes,
         UNCHANGED <<channel, handlers>>,
         \A m \in Nodes \ {n} : cpc'[m] = cpc[m] /\ stamp'[m] = stamp[m] /\ unsent'[m] = unsent[m],
         \A d \in Nodes : \A i \in 1..Len(queue'[d]) :
            \/ \E j \in 1..Len(queue[d]) : queue'[d][i] = queue[d][j]
            \/ \E m \in Present(d)' : queue'[d][i] = ElemOf(m)',
         \A m \in Nodes : clock'[m] >= clock[m],
         cpc[n] # "request" \/ stamp'[n] = stamp[n],
         cpc'[n] \in {"stamp", "insert", "lockPending", "request", "cs", "extract", "release"} =>
            stamp'[n] <= clock'[n],
         \A d \in Nodes : \A i \in 1..Len(queue[d]) : queue[d][i].nodeId = n =>
            /\ cpc'[n] = "read" => queue[d][i].timestamp < clock'[n]
            /\ cpc'[n] \in {"lockPending", "request", "cs", "extract"} =>
                 queue[d][i].timestamp <= stamp'[n]
            /\ Uninserted(n, d)' => queue[d][i].timestamp < stamp'[n]
  PROVE  Stamps'
<1> USE DEF Conserved
<1>1. \A m \in Nodes : clock[m] \in Nat /\ clock'[m] \in Nat /\ stamp[m] \in Nat /\ stamp'[m] \in Nat
  BY DEF TypeOK
<1>2. \A x, d, a : Sent(x, d, a)' = Sent(x, d, a) /\ Handled(x, d, a)' = Handled(x, d, a)
  BY MessagesSame
<1>3. ASSUME cpc[n] # "request"
      PROVE  \A d \in Nodes : Sent(n, d, "request") = {} /\ Handled(n, d, "request") = {}
  <2> SUFFICES ASSUME NEW d \in Nodes
               PROVE  Sent(n, d, "request") = {} /\ Handled(n, d, "request") = {}
    OBVIOUS
  <2>1. Pending(n, d) = 0
    BY <1>3 DEF Answers, AnswersTo
  <2> QED
    BY <2>1, NothingPending
<1>4. \A m \in Nodes :
         cpc'[m] \in {"stamp", "insert", "lockPending", "request", "cs", "extract", "release"} =>
             stamp'[m] <= clock'[m]
  BY <1>1 DEF Stamps
<1>5. \A m, d \in Nodes :
         /\ \A i \in Sent(m, d, "request") : channel[d][i].timestamp = stamp'[m]
         /\ \A h \in Handled(m, d, "request") : h.pc = "start" => h.timestamp = stamp'[m]
  BY <1>3 DEF Stamps
<1>6. ASSUME NEW d \in Nodes, NEW i \in 1..Len(queue[d]),
             NEW m, m = queue[d][i].nodeId, NEW t, t = queue[d][i].timestamp
      PROVE  StampedAt(m, t, d)'
  <2> USE DEF StampedAt
  <2>1. m \in Nodes /\ t \in Nat
    BY <1>6, ElementType
  <2>2. StampedAt(m, t, d)
    BY <1>6 DEF Stamps
  <2>3. m # n => Uninserted(m, d)' = Uninserted(m, d)
    BY <1>2, <2>1 DEF Uninserted, InsertPending
  <2>4. t <= clock'[m]
    BY <1>1, <2>1, <2>2
  <2>5. CASE m = n
    BY <1>6, <2>4, <2>5
  <2>6. CASE m # n
    <3>1. cpc[m] = "read" => t < clock'[m]
      BY <1>1, <2>1, <2>2
    <3> QED
      BY <2>1, <2>2, <2>3, <2>4, <2>6, <3>1
  <2> QED
    BY <2>5, <2>6
<1>7. ASSUME NEW d \in Nodes, NEW m \in Present(d)'
      PROVE  StampedAt(m, stamp[m], d)'
  BY <1>1, <1>4 DEF StampedAt, Present
<1>8. ASSUME NEW d \in Nodes, NEW i \in 1..Len(queue'[d])
      PROVE  StampedAt(queue[d][i].nodeId, queue[d][i].timestamp, d)'
  <2>1. CASE \E j \in 1..Len(queue[d]) : queue'[d][i] = queue[d][j]
    BY <1>6, <2>1
  <2>2. CASE \E m \in Present(d)' : queue'[d][i] = ElemOf(m)'
    BY <1>7, <2>2 DEF ElemOf
  <2> QED
    BY <2>1, <2>2
<1> QED
  BY <1>2, <1>4, <1>5, <1>8 DEF Stamps

\* The presence of requests depends on their messages and their nodes.
LEMMA UninsertedSame ==
  ASSUME UNCHANGED <<channel, handlers>>, NEW m, cpc'[m] = cpc[m], unsent'[m] = unsent[m]
  PROVE  \A d : Uninserted(m, d)' = Uninserted(m, d)
<1>1. \A d, a : Sent(m, d, a)' = Sent(m, d, a) /\ Handled(m, d, a)' = Handled(m, d, a)
  BY MessagesSame
<1> QED
  BY <1>1 DEF Uninserted, InsertPending

LEMMA StepAcquire ==
  ASSUME TypeOK, TypeOK', Conserved, Running, NEW n \in Nodes, AcquireLock(n)
  PROVE  Conserved'
<1>1. /\ cpc[n] = "idle" /\ cpc'[n] = "tick" /\ ~ongoingReq[n] /\ ongoingReq'[n]
      /\ \A m \in Nodes \ {n} : cpc'[m] = cpc[m] /\ ongoingReq'[m] = ongoingReq[m]
      /\ UNCHANGED <<clock, queue, reqAckCount, pendingReq, channel, handlers, stamp, unsent, sharedVars>>
  BY DEF AcquireLock, Go, TypeOK
<1>2. \A m \in Nodes : clock'[m] >= clock[m] /\ clock[m] \in Nat
  BY <1>1 DEF TypeOK
<1>3. At(n, "ackFree") = 0
  BY <1>1, HandlerTypes DEF Conserved, Mutexes, OngoingClient
<1>4. \A d \in Nodes : ~Uninserted(n, d) /\ ~Uninserted(n, d)'
  BY <1>1 DEF Uninserted
<1>5. \A d \in Nodes : Present(d)' = Present(d)
  <2>1. \A d \in Nodes : \A m \in Nodes \ {n} : Uninserted(m, d)' = Uninserted(m, d)
    BY <1>1, UninsertedSame
  <2> QED
    BY <1>1, <2>1 DEF Present
<1>6. Stamps'
  BY <1>1, <1>2, <1>4, QuietStamps
<1>7. HolderInCS' /\ NoOtherPanic'
  BY <1>1 DEF Conserved, HolderInCS, NoOtherPanic, sharedVars
<1> QED
  BY <1>1, <1>2, <1>3, <1>5, <1>6, <1>7, QuietStep DEF OngoingClient

LEMMA StepTick ==
  ASSUME TypeOK, TypeOK', Conserved, Running, NEW n \in Nodes, Tick(n)
  PROVE  Conserved'
<1>1. /\ cpc[n] = "tick" /\ cpc'[n] = "read" /\ clock'[n] = clock[n] + 1
      /\ \A m \in Nodes \ {n} : cpc'[m] = cpc[m] /\ clock'[m] = clock[m]
      /\ UNCHANGED <<queue, reqAckCount, lockVars, channel, handlers, stamp, unsent, sharedVars>>
  BY DEF Tick, Go, TypeOK
<1>2. \A m \in Nodes : clock'[m] >= clock[m] /\ clock[m] \in Nat
  <2>1. \A m \in Nodes : clock[m] \in Nat
    BY DEF TypeOK
  <2> QED
    BY <1>1, <2>1
<1>3. \A d \in Nodes : ~Uninserted(n, d) /\ ~Uninserted(n, d)'
  BY <1>1 DEF Uninserted
<1>4. \A d \in Nodes : Present(d)' = Present(d)
  <2>1. \A d \in Nodes : \A m \in Nodes \ {n} : Uninserted(m, d)' = Uninserted(m, d)
    BY <1>1, UninsertedSame
  <2> QED
    BY <1>1, <2>1 DEF Present
<1>5. Stamps'
  <2>1. \A d \in Nodes : \A i \in 1..Len(queue[d]) : queue[d][i].nodeId = n =>
          queue[d][i].timestamp < clock'[n]
    <3> SUFFICES ASSUME NEW d \in Nodes, NEW i \in 1..Len(queue[d]), queue[d][i].nodeId = n
                 PROVE  queue[d][i].timestamp < clock'[n]
      OBVIOUS
    <3>1. queue[d][i].timestamp \in Nat
      BY ElementType
    <3>2. queue[d][i].timestamp <= clock[n]
      BY DEF Conserved, Stamps, StampedAt
    <3> QED
      BY <1>1, <1>2, <3>1, <3>2
  <2> QED
    BY <1>1, <1>2, <1>3, <2>1, QuietStamps
<1>6. HolderInCS' /\ NoOtherPanic'
  BY <1>1 DEF Conserved, HolderInCS, NoOtherPanic, sharedVars
<1>7. At(n, "ackFree") + (IF OngoingClient(n)' THEN 1 ELSE 0) = IF ongoingReq'[n] THEN 1 ELSE 0
  BY <1>1 DEF Conserved, Mutexes, OngoingClient, lockVars
<1> QED
  BY <1>1, <1>2, <1>4, <1>5, <1>6, <1>7, QuietStep DEF lockVars

LEMMA StepRead ==
  ASSUME TypeOK, TypeOK', Conserved, Running, NEW n \in Nodes, ReadTimestamp(n)
  PROVE  Conserved'
<1>1. /\ cpc[n] = "read" /\ cpc'[n] = "stamp" /\ stamp'[n] = clock[n]
      /\ \A m \in Nodes \ {n} : cpc'[m] = cpc[m] /\ stamp'[m] = stamp[m]
      /\ UNCHANGED <<clock, queue, reqAckCount, lockVars, channel, handlers, unsent, sharedVars>>
  BY DEF ReadTimestamp, Go, TypeOK
<1>2. \A m \in Nodes : clock'[m] >= clock[m] /\ clock[m] \in Nat
  BY <1>1 DEF TypeOK
<1>3. \A d \in Nodes : Present(d)' = Present(d)
  <2>1. \A d \in Nodes : \A m \in Nodes \ {n} : Uninserted(m, d)' = Uninserted(m, d)
    BY <1>1, UninsertedSame
  <2> QED
    BY <1>1, <2>1 DEF Present
<1>4. Stamps'
  <2>1. \A d \in Nodes : \A i \in 1..Len(queue[d]) : queue[d][i].nodeId = n =>
          queue[d][i].timestamp < stamp'[n]
    BY <1>1 DEF Conserved, Stamps, StampedAt
  <2> QED
    BY <1>1, <1>2, <2>1, QuietStamps
<1>5. HolderInCS' /\ NoOtherPanic'
  BY <1>1 DEF Conserved, HolderInCS, NoOtherPanic, sharedVars
<1>6. At(n, "ackFree") + (IF OngoingClient(n)' THEN 1 ELSE 0) = IF ongoingReq'[n] THEN 1 ELSE 0
  BY <1>1 DEF Conserved, Mutexes, OngoingClient, lockVars
<1> QED
  BY <1>1, <1>2, <1>3, <1>4, <1>5, <1>6, QuietStep DEF lockVars

LEMMA StepStamp ==
  ASSUME TypeOK, TypeOK', Conserved, Running, NEW n \in Nodes, StampRequest(n)
  PROVE  Conserved'
<1>1. /\ cpc[n] = "stamp" /\ cpc'[n] = "insert"
      /\ \A m \in Nodes \ {n} : cpc'[m] = cpc[m]
      /\ UNCHANGED <<clock, queue, reqAckCount, lockVars, channel, handlers, stamp, unsent, sharedVars>>
  BY DEF StampRequest, Go, TypeOK
<1>2. \A m \in Nodes : clock'[m] >= clock[m] /\ clock[m] \in Nat
  BY <1>1 DEF TypeOK
<1>3. \A d \in Nodes : Uninserted(n, d) /\ Uninserted(n, d)'
  BY <1>1 DEF Uninserted
<1>4. \A d \in Nodes : Present(d)' = Present(d)
  <2>1. \A d \in Nodes : \A m \in Nodes \ {n} : Uninserted(m, d)' = Uninserted(m, d)
    BY <1>1, UninsertedSame
  <2> QED
    BY <1>1, <1>3, <2>1 DEF Present
<1>5. Stamps'
  <2>1. \A d \in Nodes : \A i \in 1..Len(queue[d]) : queue[d][i].nodeId = n =>
          queue[d][i].timestamp < stamp'[n]
    BY <1>1, <1>3 DEF Conserved, Stamps, StampedAt
  <2>2. stamp'[n] <= clock'[n]
    BY <1>1 DEF Conserved, Stamps, StampedAt
  <2> QED
    BY <1>1, <1>2, <2>1, <2>2, QuietStamps
<1>6. HolderInCS' /\ NoOtherPanic'
  BY <1>1 DEF Conserved, HolderInCS, NoOtherPanic, sharedVars
<1>7. At(n, "ackFree") + (IF OngoingClient(n)' THEN 1 ELSE 0) = IF ongoingReq'[n] THEN 1 ELSE 0
  BY <1>1 DEF Conserved, Mutexes, OngoingClient, lockVars
<1> QED
  BY <1>1, <1>2, <1>4, <1>5, <1>6, <1>7, QuietStep DEF lockVars

LEMMA StepReleaseLock ==
  ASSUME TypeOK, TypeOK', Conserved, Running, NEW n \in Nodes, ReleaseLock(n)
  PROVE  Conserved'
<1>1. /\ cpc[n] = "cs" /\ cpc'[n] = "extract" /\ holder' = NoHolder
      /\ panic' = IF holder = n THEN panic ELSE "ExitWithoutEnter"
      /\ \A m \in Nodes \ {n} : cpc'[m] = cpc[m]
      /\ UNCHANGED <<clock, queue, reqAckCount, lockVars, channel, handlers, stamp, unsent>>
  BY DEF ReleaseLock, Go, TypeOK
<1>2. \A m \in Nodes : clock'[m] >= clock[m] /\ clock[m] \in Nat
  BY <1>1 DEF TypeOK
<1>3. \A d \in Nodes : ~Uninserted(n, d) /\ ~Uninserted(n, d)'
  BY <1>1 DEF Uninserted
<1>4. \A d \in Nodes : Present(d)' = Present(d)
  <2>1. \A d \in Nodes : \A m \in Nodes \ {n} : Uninserted(m, d)' = Uninserted(m, d)
    BY <1>1, UninsertedSame
  <2> QED
    BY <1>1, <1>3, <2>1 DEF Present
<1>5. Stamps'
  <2>1. \A d \in Nodes : \A i \in 1..Len(queue[d]) : queue[d][i].nodeId = n =>
          queue[d][i].timestamp <= stamp'[n]
    BY <1>1, <1>3 DEF Conserved, Stamps, StampedAt
  <2>2. stamp'[n] <= clock'[n]
    BY <1>1 DEF Conserved, Stamps, StampedAt
  <2> QED
    BY <1>1, <1>2, <1>3, <2>1, <2>2, QuietStamps
<1>6. holder = n /\ panic' = panic /\ \A m \in Nodes \ {n} : cpc[m] # "cs"
  BY <1>1 DEF Conserved, HolderInCS, Running
<1>7. HolderInCS' /\ NoOtherPanic'
  BY <1>1, <1>6, NodesAssumption DEF Conserved, HolderInCS, NoOtherPanic, NoHolder
<1>8. At(n, "ackFree") + (IF OngoingClient(n)' THEN 1 ELSE 0) = IF ongoingReq'[n] THEN 1 ELSE 0
  BY <1>1 DEF Conserved, Mutexes, OngoingClient, lockVars
<1> QED
  BY <1>1, <1>2, <1>4, <1>5, <1>7, <1>8, QuietStep DEF lockVars

LEMMA StepReleaseDone ==
  ASSUME TypeOK, TypeOK', Conserved, Running, NEW n \in Nodes, ReleaseDone(n)
  PROVE  Conserved'
<1>1. /\ cpc[n] = "release" /\ cpc'[n] = "idle" /\ unsent[n] = {}
      /\ \A m \in Nodes \ {n} : cpc'[m] = cpc[m] /\ stamp'[m] = stamp[m]
      /\ UNCHANGED <<clock, queue, reqAckCount, lockVars, channel, handlers, unsent, sharedVars>>
  BY DEF ReleaseDone, Go, TypeOK
<1>2. \A m \in Nodes : clock'[m] >= clock[m] /\ clock[m] \in Nat
  BY <1>1 DEF TypeOK
<1>3. \A d \in Nodes : ~Uninserted(n, d) /\ ~Uninserted(n, d)'
  BY <1>1 DEF Uninserted
<1>4. \A d \in Nodes : Present(d)' = Present(d)
  <2>1. \A d \in Nodes : \A m \in Nodes \ {n} : Uninserted(m, d)' = Uninserted(m, d)
    BY <1>1, UninsertedSame
  <2> QED
    BY <1>1, <2>1 DEF Present
<1>5. Stamps'
  BY <1>1, <1>2, <1>3, QuietStamps
<1>6. HolderInCS' /\ NoOtherPanic'
  BY <1>1 DEF Conserved, HolderInCS, NoOtherPanic, sharedVars
<1>7. At(n, "ackFree") + (IF OngoingClient(n)' THEN 1 ELSE 0) = IF ongoingReq'[n] THEN 1 ELSE 0
  BY <1>1 DEF Conserved, Mutexes, OngoingClient, lockVars
<1> QED
  BY <1>1, <1>2, <1>4, <1>5, <1>6, <1>7, QuietStep DEF lockVars

\* What Insert returns for the elements of a queue.
LEMMA ElemInserted ==
  ASSUME NEW q \in Seq(Elem), NEW e \in Elem
  PROVE  /\ Len(Insert(q, e)) = Len(q) + 1
         /\ \A i \in 1..Len(Insert(q, e)) :
              Insert(q, e)[i] = e \/ \E j \in 1..Len(q) : Insert(q, e)[i] = q[j]
  BY Inserted

\* The queue of n gets the element e, unless the panic is raised.
LEMMA QueueInserted ==
  ASSUME TypeOK, NEW n \in Nodes, NEW e \in Elem, QueueInsert(n, e),
         \A i \in 1..Len(queue[n]) : queue[n][i].nodeId = e.nodeId => queue[n][i].timestamp # e.timestamp
  PROVE  /\ panic' = panic
         /\ queue'[n] = Insert(queue[n], e) /\ Len(queue'[n]) = Len(queue[n]) + 1
         /\ Len(queue[n]) \in Nat
         /\ \A d \in Nodes \ {n} : queue'[d] = queue[d]
         /\ \A d \in Nodes : \A i \in 1..Len(queue'[d]) :
              \/ \E j \in 1..Len(queue[d]) : queue'[d][i] = queue[d][j]
              \/ d = n /\ queue'[d][i] = e
<1>1. queue \in [Nodes -> Seq(Elem)]
  BY DEF TypeOK
<1>2. ~InsertPanics(queue[n], e)
  BY <1>1, PanicIsDuplicate
<1>3. queue' = [queue EXCEPT ![n] = Insert(@, e)] /\ panic' = panic
  BY <1>2 DEF QueueInsert
<1>4. /\ queue'[n] = Insert(queue[n], e)
      /\ \A d \in Nodes \ {n} : queue'[d] = queue[d]
  BY <1>1, <1>3
<1>5. /\ Len(queue'[n]) = Len(queue[n]) + 1 /\ Len(queue[n]) \in Nat
      /\ \A i \in 1..Len(queue'[n]) :
           queue'[n][i] = e \/ \E j \in 1..Len(queue[n]) : queue'[n][i] = queue[n][j]
  <2>1. PICK q \in Seq(Elem) : q = queue[n]
    BY <1>1
  <2>2. /\ Len(Insert(q, e)) = Len(q) + 1
        /\ \A i \in 1..Len(Insert(q, e)) :
             Insert(q, e)[i] = e \/ \E j \in 1..Len(q) : Insert(q, e)[i] = q[j]
    BY ElemInserted
  <2> QED
    BY <1>4, <2>1, <2>2, LenProperties
<1>6. \A d \in Nodes : \A i \in 1..Len(queue'[d]) :
              \/ \E j \in 1..Len(queue[d]) : queue'[d][i] = queue[d][j]
              \/ d = n /\ queue'[d][i] = e
  <2> SUFFICES ASSUME NEW d \in Nodes, NEW i \in 1..Len(queue'[d])
               PROVE  \/ \E j \in 1..Len(queue[d]) : queue'[d][i] = queue[d][j]
                      \/ d = n /\ queue'[d][i] = e
    OBVIOUS
  <2>1. CASE d = n
    BY <1>5, <2>1
  <2>2. CASE d # n
    BY <1>4, <2>2
  <2> QED
    BY <2>1, <2>2
<1> QED
  BY <1>3, <1>4, <1>5, <1>6

\* The head of a queue that is not empty is popped.
LEMMA QueueExtracted ==
  ASSUME TypeOK, NEW n \in Nodes, QueueExtract(n), Len(queue[n]) # 0
  PROVE  /\ panic' = panic
         /\ queue'[n] = Tail(queue[n]) /\ Len(queue'[n]) = Len(queue[n]) - 1
         /\ Len(queue[n]) \in Nat
         /\ \A i \in 1..Len(queue'[n]) :
              i + 1 \in 1..Len(queue[n]) /\ queue'[n][i] = queue[n][i + 1]
         /\ \A d \in Nodes \ {n} : queue'[d] = queue[d]
         /\ \A d \in Nodes : \A i \in 1..Len(queue'[d]) :
              \E j \in 1..Len(queue[d]) : queue'[d][i] = queue[d][j]
<1>1. queue \in [Nodes -> Seq(Elem)]
  BY DEF TypeOK
<1>2. Len(queue[n]) \in Nat /\ queue[n] # << >>
  BY <1>1, LenProperties, EmptySeq
<1>3. queue' = [queue EXCEPT ![n] = Tail(@)] /\ panic' = panic
  BY <1>2 DEF QueueExtract
<1>4. queue'[n] = Tail(queue[n]) /\ \A d \in Nodes \ {n} : queue'[d] = queue[d]
  BY <1>1, <1>3
<1>5. /\ Len(Tail(queue[n])) = Len(queue[n]) - 1
      /\ \A i \in 1..Len(Tail(queue[n])) : Tail(queue[n])[i] = queue[n][i + 1]
  BY <1>1, <1>2, HeadTailProperties
<1>6. \A i \in 1..Len(queue'[n]) :
        i + 1 \in 1..Len(queue[n]) /\ queue'[n][i] = queue[n][i + 1]
  BY <1>2, <1>4, <1>5
<1>7. \A d \in Nodes : \A i \in 1..Len(queue'[d]) :
        \E j \in 1..Len(queue[d]) : queue'[d][i] = queue[d][j]
  <2> SUFFICES ASSUME NEW d \in Nodes, NEW i \in 1..Len(queue'[d])
               PROVE  \E j \in 1..Len(queue[d]) : queue'[d][i] = queue[d][j]
    OBVIOUS
  <2>1. CASE d = n
    BY <1>6, <2>1
  <2>2. CASE d # n
    BY <1>4, <2>2
  <2> QED
    BY <2>1, <2>2
<1> QED
  BY <1>2, <1>3, <1>4, <1>5, <1>6, <1>7

LEMMA StepInsertOwn ==
  ASSUME TypeOK, TypeOK', Conserved, Running, NEW n \in Nodes, InsertOwn(n)
  PROVE  Conserved'
<1> USE DEF Conserved
<1> DEFINE e == [nodeId |-> n, timestamp |-> stamp[n]]
<1>1. /\ cpc[n] = "insert" /\ cpc'[n] = "lockPending"
      /\ \A m \in Nodes \ {n} : cpc'[m] = cpc[m]
      /\ QueueInsert(n, e)
      /\ UNCHANGED <<clock, reqAckCount, lockVars, channel, handlers, stamp, unsent, holder>>
  BY DEF InsertOwn, Go, TypeOK
<1>2. e \in Elem /\ e.nodeId = n /\ e.timestamp = stamp[n] /\ e = ElemOf(n)'
  BY <1>1, ElemType DEF TypeOK, ElemOf
<1> HIDE DEF e
<1>3. \A d \in Nodes : \A i \in 1..Len(queue[d]) : queue[d][i].nodeId = n =>
        queue[d][i].timestamp < stamp[n]
  BY <1>1 DEF Stamps, StampedAt, Uninserted
<1>4. stamp[n] \in Nat
  BY DEF TypeOK
<1>5. \A i \in 1..Len(queue[n]) : queue[n][i].nodeId = e.nodeId => queue[n][i].timestamp # e.timestamp
  BY <1>2, <1>3, <1>4, ElementType
<1>6. /\ panic' = panic /\ Len(queue'[n]) = Len(queue[n]) + 1 /\ Len(queue[n]) \in Nat
      /\ \A d \in Nodes \ {n} : queue'[d] = queue[d]
      /\ \A d \in Nodes : \A i \in 1..Len(queue'[d]) :
              \/ \E j \in 1..Len(queue[d]) : queue'[d][i] = queue[d][j]
              \/ d = n /\ queue'[d][i] = e
  BY <1>1, <1>2, <1>5, QueueInserted
<1>7. \A m \in Nodes : clock'[m] >= clock[m] /\ clock[m] \in Nat
  BY <1>1 DEF TypeOK
<1>8. /\ \A d \in Nodes : Uninserted(n, d) /\ (d # n => Uninserted(n, d)')
      /\ ~Uninserted(n, n)'
  BY <1>1 DEF Uninserted
<1>9. \A d \in Nodes : /\ Present(d)' = IF d = n THEN Present(d) \cup {n} ELSE Present(d)
                       /\ n \notin Present(d)
  <2>1. \A d \in Nodes : \A m \in Nodes \ {n} : Uninserted(m, d)' = Uninserted(m, d)
    BY <1>1, UninsertedSame
  <2> QED
    BY <1>1, <1>8, <2>1 DEF Present
<1>10. Stamps'
  <2>1. stamp'[n] <= clock'[n]
    BY <1>1 DEF Stamps
  <2>2. \A d \in Nodes : \A i \in 1..Len(queue[d]) : queue[d][i].nodeId = n =>
            /\ queue[d][i].timestamp < stamp'[n]
            /\ queue[d][i].timestamp <= stamp'[n]
    BY <1>1, <1>3, <1>4, ElementType
  <2>3. \A d \in Nodes : \A i \in 1..Len(queue'[d]) :
            \/ \E j \in 1..Len(queue[d]) : queue'[d][i] = queue[d][j]
            \/ \E m \in Present(d)' : queue'[d][i] = ElemOf(m)'
    BY <1>2, <1>6, <1>9
  <2> QED
    BY <1>1, <1>7, <2>1, <2>2, <2>3, QuietStamps
<1>11. /\ \A x, d : Pending(x, d)' = Pending(x, d) /\ At(x, d)' = At(x, d)
       /\ \A x : ReleasesSent(x)' = ReleasesSent(x) /\ ReleaseHandlers(x)' = ReleaseHandlers(x)
  BY <1>1, MessagesSame
<1>12. Goroutines'
  BY <1>1 DEF Goroutines
<1>13. Mutexes'
  BY <1>1, <1>11 DEF Mutexes, PendingClient, OngoingClient, lockVars
<1>14. Answers'
  BY <1>1, <1>11, AnswersSame DEF Answers
<1>15. ReleaseStamps'
  BY <1>1, <1>7, ReleaseStampsKept
<1>16. Lengths'
  <2> SUFFICES ASSUME NEW d \in Nodes
               PROVE  Len(queue'[d]) = Released(d)' + Cardinality(Present(d)')
    BY DEF Lengths
  <2>1. Releasing(d)' = Releasing(d)
    BY <1>1 DEF Releasing
  <2>2. Released(d)' = Released(d)
    BY <1>11, <2>1 DEF Released
  <2>3. Len(queue[d]) = Released(d) + Cardinality(Present(d))
    BY DEF Lengths
  <2>4. Released(d) \in Nat /\ Cardinality(Present(d)) \in Nat
    BY ReleasedType
  <2>5. CASE d = n
    <3>1. Present(d)' = Present(d) \cup {n} /\ n \notin Present(d)
      BY <1>9, <2>5
    <3>2. Cardinality(Present(d)') = Cardinality(Present(d)) + 1
      BY <3>1, ReleasedType, FS_AddElement
    <3>3. Len(queue'[d]) = Len(queue[d]) + 1
      BY <1>6, <2>5
    <3> QED
      BY <2>2, <2>3, <2>4, <3>2, <3>3
  <2>6. CASE d # n
    BY <1>6, <1>9, <2>2, <2>3, <2>6
  <2> QED
    BY <2>5, <2>6
<1>17. HolderInCS' /\ NoOtherPanic'
  BY <1>1, <1>6 DEF HolderInCS, NoOtherPanic
<1> QED
  BY <1>10, <1>12, <1>13, <1>14, <1>15, <1>16, <1>17

\* Adding or taking away one node.
LEMMA OthersCount ==
  ASSUME NEW n \in Nodes
  PROVE  /\ IsFiniteSet(Nodes) /\ Cardinality(Nodes) \in Nat \ {0}
         /\ Cardinality(Nodes \ {n}) = Cardinality(Nodes) - 1
         /\ \A m \in Nodes : m # n => Cardinality(Nodes) # 1
<1>1. IsFiniteSet(Nodes) /\ Cardinality(Nodes) \in Nat
  BY NodesAssumption, FS_CardinalityType
<1>2. Cardinality(Nodes \ {n}) = Cardinality(Nodes) - 1
  BY <1>1, FS_RemoveElement
<1>3. Cardinality(Nodes) # 0
  BY <1>1, FS_EmptySet
<1>4. \A m \in Nodes : m # n => Cardinality(Nodes) # 1
  BY <1>1, FS_Singleton
<1> QED
  BY <1>1, <1>2, <1>3, <1>4

LEMMA StepLockPending ==
  ASSUME TypeOK, TypeOK', Conserved, Running, NEW n \in Nodes, LockOwnPending(n)
  PROVE  Conserved'
<1> USE DEF Conserved
<1>1. /\ cpc[n] = "lockPending" /\ cpc'[n] = "request" /\ ~pendingReq[n] /\ pendingReq'[n]
      /\ reqAckCount'[n] = 1 /\ unsent'[n] = Nodes \ {n}
      /\ \A m \in Nodes \ {n} : /\ cpc'[m] = cpc[m] /\ pendingReq'[m] = pendingReq[m]
                                /\ reqAckCount'[m] = reqAckCount[m] /\ unsent'[m] = unsent[m]
      /\ UNCHANGED <<clock, queue, ongoingReq, channel, handlers, stamp, sharedVars>>
  BY DEF LockOwnPending, Go, TypeOK
<1>2. \A m \in Nodes : clock'[m] >= clock[m] /\ clock[m] \in Nat
  BY <1>1 DEF TypeOK
<1>3. \A d \in Nodes : Uninserted(n, d)' = Uninserted(n, d)
  <2>1. \A d \in Nodes : d # n => InsertPending(n, d)'
    BY <1>1 DEF InsertPending
  <2> QED
    BY <1>1, <2>1 DEF Uninserted
<1>4. \A d \in Nodes : Present(d)' = Present(d)
  <2>1. \A d \in Nodes : \A m \in Nodes \ {n} : Uninserted(m, d)' = Uninserted(m, d)
    BY <1>1, UninsertedSame
  <2> QED
    BY <1>1, <1>3, <2>1 DEF Present
<1>5. Stamps'
  <2>1. stamp'[n] <= clock'[n]
    BY <1>1 DEF Stamps
  <2>2. \A d \in Nodes : \A i \in 1..Len(queue[d]) : queue[d][i].nodeId = n =>
            /\ queue[d][i].timestamp <= stamp'[n]
            /\ Uninserted(n, d)' => queue[d][i].timestamp < stamp'[n]
    BY <1>1, <1>3 DEF Stamps, StampedAt
  <2> QED
    BY <1>1, <1>2, <2>1, <2>2, QuietStamps
<1>6. /\ \A x, d : Pending(x, d)' = Pending(x, d) /\ At(x, d)' = At(x, d)
      /\ \A x : ReleasesSent(x)' = ReleasesSent(x) /\ ReleaseHandlers(x)' = ReleaseHandlers(x)
  BY <1>1, MessagesSame
<1>7. Goroutines'
  BY <1>1 DEF Goroutines
<1>8. Cardinality(Nodes) \in Nat \ {0} /\ Cardinality(Nodes \ {n}) = Cardinality(Nodes) - 1
  BY OthersCount
<1>9. Mutexes'
  <2>1. \A m \in Nodes \ {n} : PendingClient(m)' = PendingClient(m)
    BY <1>1 DEF PendingClient
  <2>2. \A m \in Nodes : OngoingClient(m)' = OngoingClient(m)
    BY <1>1 DEF OngoingClient
  <2>3. Cardinality(Nodes) # 1 => PendingClient(n)' /\ ~PendingClient(n)
    BY <1>1, <1>8 DEF PendingClient
  <2>4. Cardinality(Nodes) # 1 => At(n, "ackWaited") = 0
    BY <1>1, <2>3, HandlerTypes DEF Mutexes
  <2> QED
    BY <1>1, <1>6, <2>1, <2>2, <2>3, <2>4 DEF Mutexes
<1>10. Answers'
  <2>1. \A d \in Nodes : Pending(n, d)' = 0
    BY <1>1, <1>6 DEF Answers, AnswersTo
  <2>2. {d \in Nodes : Pending(n, d)' = 1} = {}
    BY <2>1
  <2>3. 1 + Cardinality(Nodes \ {n}) + Cardinality({}) = Cardinality(Nodes)
    BY <1>8, FS_EmptySet
  <2>4. AnswersTo(n)'
    BY <1>1, <2>1, <2>2, <2>3 DEF AnswersTo
  <2>5. \A m \in Nodes \ {n} : AnswersTo(m)'
    BY <1>1, <1>6, AnswersSame DEF Answers
  <2> QED
    BY <2>4, <2>5 DEF Answers
<1>11. ReleaseStamps'
  <2>1. \A m, d \in Nodes : cpc'[m] = "release" /\ d \in unsent'[m] =>
            cpc[m] = "release" /\ d \in unsent[m] /\ stamp'[m] = stamp[m]
    BY <1>1
  <2> QED
    BY <1>1, <1>2, <2>1, ReleaseStampsKept
<1>12. Lengths'
  <2>1. \A d \in Nodes : Releasing(d)' = Releasing(d)
    BY <1>1 DEF Releasing
  <2> QED
    BY <1>1, <1>4, <1>6, <2>1 DEF Lengths, Released
<1>13. HolderInCS' /\ NoOtherPanic'
  BY <1>1 DEF HolderInCS, NoOtherPanic, sharedVars
<1> QED
  BY <1>5, <1>7, <1>9, <1>10, <1>11, <1>12, <1>13

\* A request that everybody has answered is queued everywhere.
LEMMA AllAnswered ==
  ASSUME TypeOK, Conserved, NEW n \in Nodes,
         cpc[n] = "request", unsent[n] = {}, reqAckCount[n] >= Cardinality(Nodes)
  PROVE  \A d \in Nodes : /\ Pending(n, d) = 0 /\ ~Uninserted(n, d) /\ n \in Present(d)
                          /\ Sent(n, d, "request") = {} /\ Handled(n, d, "request") = {}
<1> USE DEF Conserved
<1>1. \A d \in Nodes : Pending(n, d) = 0
  <2> DEFINE P == {d \in Nodes : Pending(n, d) = 1}
  <2>1. IsFiniteSet(P) /\ Cardinality(P) \in Nat
    BY NodesAssumption, FS_Subset, FS_CardinalityType
  <2>2. reqAckCount[n] + Cardinality(unsent[n]) + Cardinality(P) = Cardinality(Nodes)
    BY DEF Answers, AnswersTo
  <2>3. Cardinality(unsent[n]) = 0
    BY FS_EmptySet
  <2>4. reqAckCount[n] \in Nat /\ Cardinality(Nodes) \in Nat
    BY OthersCount DEF TypeOK
  <2> HIDE DEF P
  <2>5. Cardinality(P) = 0
    BY <2>1, <2>2, <2>3, <2>4
  <2>6. P = {}
    BY <2>1, <2>5, FS_EmptySet
  <2> QED
    BY <2>6, AtMostOnePending DEF P
<1>2. \A d \in Nodes : Sent(n, d, "request") = {} /\ Handled(n, d, "request") = {}
  <2> SUFFICES ASSUME NEW d \in Nodes
               PROVE  Sent(n, d, "request") = {} /\ Handled(n, d, "request") = {}
    OBVIOUS
  <2>1. Pending(n, d) = 0
    BY <1>1
  <2> QED
    BY <2>1, NothingPending
<1>3. \A d \in Nodes : ~Uninserted(n, d)
  BY <1>2 DEF Uninserted, InsertPending
<1>4. \A d \in Nodes : n \in Present(d)
  BY <1>3 DEF Present
<1> QED
  BY <1>1, <1>2, <1>3, <1>4

LEMMA StepEnterCS ==
  ASSUME TypeOK, TypeOK', Conserved, Running, NEW n \in Nodes, EnterCS(n)
  PROVE  Conserved'
<1> USE DEF Conserved
<1>1. /\ cpc[n] = "request" /\ cpc'[n] = "cs" /\ unsent[n] = {}
      /\ reqAckCount[n] >= Cardinality(Nodes) /\ ~ongoingReq'[n]
      /\ \A m \in Nodes \ {n} : cpc'[m] = cpc[m] /\ ongoingReq'[m] = ongoingReq[m]
      /\ UNCHANGED <<clock, queue, reqAckCount, pendingReq, channel, handlers, stamp, unsent>>
  BY DEF EnterCS, Go, TypeOK
<1>2. \A m \in Nodes : clock'[m] >= clock[m] /\ clock[m] \in Nat
  BY <1>1 DEF TypeOK
<1>3. \A d \in Nodes : Pending(n, d) = 0
  BY <1>1, AllAnswered
<1>4. \A d \in Nodes : ~Uninserted(n, d) /\ ~Uninserted(n, d)'
  BY <1>1, AllAnswered DEF Uninserted
<1>5. \A d \in Nodes : Present(d)' = Present(d) /\ n \in Present(d)
  <2>1. \A d \in Nodes : \A m \in Nodes \ {n} : Uninserted(m, d)' = Uninserted(m, d)
    BY <1>1, UninsertedSame
  <2> QED
    BY <1>1, <1>4, <2>1 DEF Present
<1>6. Len(queue[n]) # 0
  <2>1. Len(queue[n]) = Released(n) + Cardinality(Present(n))
    BY DEF Lengths
  <2>2. Cardinality(Present(n)) # 0
    BY <1>5, ReleasedType, FS_EmptySet
  <2> QED
    BY <2>1, <2>2, ReleasedType
<1>7. queue[n] # << >>
  BY <1>6, EmptySeq
<1>8. IF holder # NoHolder
      THEN panic' = "SafetyBreached" /\ UNCHANGED holder
      ELSE holder' = n /\ UNCHANGED panic
  BY <1>7 DEF EnterCS
<1>9. Stamps'
  <2>1. stamp'[n] <= clock'[n]
    BY <1>1 DEF Stamps
  <2>2. \A d \in Nodes : \A i \in 1..Len(queue[d]) : queue[d][i].nodeId = n =>
            queue[d][i].timestamp <= stamp'[n]
    BY <1>1 DEF Stamps, StampedAt
  <2> QED
    BY <1>1, <1>2, <1>4, <2>1, <2>2, QuietStamps
<1>10. /\ \A x, d : Pending(x, d)' = Pending(x, d) /\ At(x, d)' = At(x, d)
       /\ \A x : ReleasesSent(x)' = ReleasesSent(x) /\ ReleaseHandlers(x)' = ReleaseHandlers(x)
  BY <1>1, MessagesSame
<1>11. Goroutines'
  BY <1>1 DEF Goroutines
<1>12. Mutexes'
  <2>1. \A m \in Nodes \ {n} : OngoingClient(m)' = OngoingClient(m)
    BY <1>1 DEF OngoingClient
  <2>2. \A m \in Nodes : PendingClient(m)' = PendingClient(m)
    <3>1. reqAckCount[n] \in Nat /\ Cardinality(Nodes) \in Nat
      BY OthersCount DEF TypeOK
    <3> QED
      BY <1>1, <3>1 DEF PendingClient
  <2>3. OngoingClient(n) /\ ~OngoingClient(n)'
    BY <1>1 DEF OngoingClient
  <2>4. At(n, "ackFree") = 0
    BY <2>3, HandlerTypes DEF Mutexes
  <2> QED
    BY <1>1, <1>10, <2>1, <2>2, <2>3, <2>4 DEF Mutexes
<1>13. Answers'
  <2>1. AnswersTo(n)'
    BY <1>1, <1>3, <1>10 DEF AnswersTo
  <2>2. \A m \in Nodes \ {n} : AnswersTo(m)'
    BY <1>1, <1>10, AnswersSame DEF Answers
  <2> QED
    BY <2>1, <2>2 DEF Answers
<1>14. ReleaseStamps'
  <2>1. \A m, d \in Nodes : cpc'[m] = "release" /\ d \in unsent'[m] =>
            cpc[m] = "release" /\ d \in unsent[m] /\ stamp'[m] = stamp[m]
    BY <1>1
  <2> QED
    BY <1>1, <1>2, <2>1, ReleaseStampsKept
<1>15. Lengths'
  <2>1. \A d \in Nodes : Releasing(d)' = Releasing(d)
    BY <1>1 DEF Releasing
  <2> QED
    BY <1>1, <1>5, <1>10, <2>1 DEF Lengths, Released
<1>16. HolderInCS' /\ NoOtherPanic'
  <2>1. CASE holder = NoHolder
    <3>1. \A m \in Nodes : cpc[m] # "cs"
      BY <2>1, NodesAssumption DEF HolderInCS, Running, NoHolder
    <3> QED
      BY <1>1, <1>8, <2>1, <3>1 DEF HolderInCS, NoOtherPanic
  <2>2. CASE holder # NoHolder
    BY <1>8, <2>2 DEF HolderInCS, NoOtherPanic
  <2> QED
    BY <2>1, <2>2
<1> QED
  BY <1>9, <1>11, <1>12, <1>13, <1>14, <1>15, <1>16

LEMMA StepExtractOwn ==
  ASSUME TypeOK, TypeOK', Conserved, Running, NEW n \in Nodes, ExtractOwn(n)
  PROVE  Conserved'
<1> USE DEF Conserved
<1>1. /\ cpc[n] = "extract" /\ cpc'[n] = "release" /\ QueueExtract(n)
      /\ clock'[n] = clock[n] + 1 /\ stamp'[n] = clock[n] + 1 /\ unsent'[n] = Nodes \ {n}
      /\ \A m \in Nodes \ {n} : /\ cpc'[m] = cpc[m] /\ stamp'[m] = stamp[m]
                                /\ clock'[m] = clock[m] /\ unsent'[m] = unsent[m]
      /\ UNCHANGED <<reqAckCount, lockVars, channel, handlers, holder>>
  BY DEF ExtractOwn, Go, TypeOK
<1>2. \A m \in Nodes : clock'[m] >= clock[m] /\ clock[m] \in Nat
  <2>1. \A m \in Nodes : clock[m] \in Nat
    BY DEF TypeOK
  <2> QED
    BY <1>1, <2>1
<1>3. \A d \in Nodes : ~Uninserted(n, d) /\ ~Uninserted(n, d)'
  BY <1>1 DEF Uninserted
<1>4. \A d \in Nodes : Present(d)' = Present(d) \ {n} /\ n \in Present(d)
  <2>1. \A d \in Nodes : \A m \in Nodes \ {n} : Uninserted(m, d)' = Uninserted(m, d)
    BY <1>1, UninsertedSame
  <2> QED
    BY <1>1, <1>3, <2>1 DEF Present
<1>5. Len(queue[n]) # 0
  <2>1. Len(queue[n]) = Released(n) + Cardinality(Present(n))
    BY DEF Lengths
  <2>2. Cardinality(Present(n)) # 0
    BY <1>4, ReleasedType, FS_EmptySet
  <2> QED
    BY <2>1, <2>2, ReleasedType
<1>6. /\ panic' = panic /\ Len(queue'[n]) = Len(queue[n]) - 1 /\ Len(queue[n]) \in Nat
      /\ \A d \in Nodes \ {n} : queue'[d] = queue[d]
      /\ \A d \in Nodes : \A i \in 1..Len(queue'[d]) :
           \E j \in 1..Len(queue[d]) : queue'[d][i] = queue[d][j]
  BY <1>1, <1>5, QueueExtracted
<1>7. Stamps'
  <2>1. stamp'[n] <= clock'[n]
    BY <1>1, <1>2
  <2> QED
    BY <1>1, <1>2, <1>3, <1>6, <2>1, QuietStamps
<1>8. /\ \A x, d : Pending(x, d)' = Pending(x, d) /\ At(x, d)' = At(x, d)
      /\ \A x : ReleasesSent(x)' = ReleasesSent(x) /\ ReleaseHandlers(x)' = ReleaseHandlers(x)
  BY <1>1, MessagesSame
<1>9. Goroutines'
  BY <1>1 DEF Goroutines
<1>10. Mutexes'
  BY <1>1, <1>8 DEF Mutexes, PendingClient, OngoingClient, lockVars
<1>11. Answers'
  <2>1. AnswersTo(n)'
    BY <1>1, <1>8 DEF Answers, AnswersTo
  <2>2. \A m \in Nodes \ {n} : AnswersTo(m)'
    BY <1>1, <1>8, AnswersSame DEF Answers
  <2> QED
    BY <2>1, <2>2 DEF Answers
<1>12. ReleaseStamps'
  <2>1. \A m, d \in Nodes : cpc'[m] = "release" /\ d \in unsent'[m] =>
            \/ cpc[m] = "release" /\ d \in unsent[m] /\ stamp'[m] = stamp[m]
            \/ stamp'[m] > clock[m]
    BY <1>1, <1>2
  <2> QED
    BY <1>1, <1>2, <2>1, ReleaseStampsKept
<1>13. Lengths'
  <2> SUFFICES ASSUME NEW d \in Nodes
               PROVE  Len(queue'[d]) = Released(d)' + Cardinality(Present(d)')
    BY DEF Lengths
  <2>1. Len(queue[d]) = Released(d) + Cardinality(Present(d))
    BY DEF Lengths
  <2>2. Cardinality(Present(d)') = Cardinality(Present(d)) - 1
    BY <1>4, ReleasedType, FS_RemoveElement
  <2>3. /\ Cardinality(Present(d)) \in Nat /\ Cardinality(Releasing(d)) \in Nat
        /\ ReleasesSent(d) \in Nat /\ ReleaseHandlers(d) \in Nat
    BY ReleasedType
  <2>4. CASE d = n
    <3>1. Releasing(d)' = Releasing(d)
      BY <1>1, <2>4 DEF Releasing
    <3>2. Released(d)' = Released(d)
      BY <1>8, <3>1 DEF Released
    <3>3. Released(d) \in Nat
      BY ReleasedType
    <3>4. Len(queue'[d]) = Len(queue[d]) - 1
      BY <1>6, <2>4
    <3> QED
      BY <2>1, <2>2, <2>3, <3>2, <3>3, <3>4
  <2>5. CASE d # n
    <3>1. Releasing(d)' = Releasing(d) \cup {n} /\ n \notin Releasing(d)
      BY <1>1, <2>5 DEF Releasing
    <3>2. Cardinality(Releasing(d)') = Cardinality(Releasing(d)) + 1
      BY <3>1, ReleasedType, FS_AddElement
    <3>3. Released(d)' = Released(d) + 1 /\ Released(d) \in Nat
      BY <1>8, <2>3, <3>2 DEF Released
    <3>4. queue'[d] = queue[d]
      BY <1>6, <2>5
    <3> QED
      BY <2>1, <2>2, <2>3, <3>3, <3>4
  <2> QED
    BY <2>4, <2>5
<1>14. HolderInCS' /\ NoOtherPanic'
  BY <1>1, <1>6 DEF HolderInCS, NoOtherPanic
<1> QED
  BY <1>7, <1>9, <1>10, <1>11, <1>12, <1>13, <1>14

\* A request is sent: an answer is pending.
LEMMA StepBroadcastRequest ==
  ASSUME TypeOK, TypeOK', Conserved, Running, NEW n \in Nodes, NEW d \in Nodes,
         Broadcast(n, d), cpc[n] = "request"
  PROVE  Conserved'
<1> USE DEF Conserved
<1>1. /\ d \in unsent[n] /\ Send(n, d, "request", stamp[n]) /\ unsent'[n] = unsent[n] \ {d}
      /\ \A m \in Nodes \ {n} : unsent'[m] = unsent[m]
      /\ UNCHANGED <<clock, queue, reqAckCount, lockVars, handlers, cpc, stamp, sharedVars>>
  BY DEF Broadcast, TypeOK
<1>2. d # n
  BY <1>1 DEF Goroutines
<1> DEFINE k == Len(channel[d]) + 1
<1>3. stamp[n] \in Nat
  BY DEF TypeOK
<1>4. /\ SentN(n, d, "request")' = SentN(n, d, "request") + 1
      /\ \A x, y \in Nodes : \A b :
           ~(x = n /\ y = d /\ b = "request") => /\ Sent(x, y, b)' = Sent(x, y, b)
                                                 /\ SentN(x, y, b)' = SentN(x, y, b)
      /\ \A y \in Nodes : ReleasesSent(y)' = ReleasesSent(y)
      /\ Sent(n, d, "request")' = Sent(n, d, "request") \cup {k}
      /\ \A y \in Nodes : \A i \in 1..Len(channel[y]) : channel'[y][i] = channel[y][i]
      /\ \A y \in Nodes \ {d} : channel'[y] = channel[y]
      /\ Len(channel'[d]) = k /\ Len(channel[d]) \in Nat
      /\ channel'[d][k].node = n /\ channel'[d][k].timestamp = stamp[n]
  <2>1. PICK t \in Nat : t = stamp[n]
    BY <1>3
  <2>2. SendsLast(n, d, "request", t)
    BY <1>1, <2>1, SendEffect DEF Actions
  <2> QED
    BY <2>1, <2>2 DEF SendsLast
<1> HIDE DEF k
<1>5. \A x, y \in Nodes : \A b :
        /\ Handled(x, y, b)' = Handled(x, y, b) /\ HandledN(x, y, b)' = HandledN(x, y, b)
        /\ At(x, b)' = At(x, b) /\ ReleaseHandlers(x)' = ReleaseHandlers(x)
  BY <1>1 DEF Handled, HandledN, At, AtPlace, ReleaseHandlers, ReleasesHandled
<1>6. /\ Pending(n, d) = 0 /\ Pending(n, d)' = 1
      /\ \A x, y \in Nodes : ~(x = n /\ y = d) => Pending(x, y)' = Pending(x, y)
  <2>1. Pending(n, d) = 0
    BY <1>1, AtMostOnePending
  <2>2. Pending(n, d)' = Pending(n, d) + 1
    <3>1. /\ SentN(n, d, "request") \in Nat /\ HandledN(n, d, "request") \in Nat
          /\ SentN(d, n, "ack") \in Nat /\ HandledN(d, n, "ack") \in Nat
      BY PendingType
    <3>2. /\ SentN(n, d, "request")' = SentN(n, d, "request") + 1
          /\ SentN(d, n, "ack")' = SentN(d, n, "ack")
      BY <1>2, <1>4, <3>1
    <3> QED
      BY <1>5, <3>1, <3>2 DEF Pending
  <2>3. ASSUME NEW x \in Nodes, NEW y \in Nodes, ~(x = n /\ y = d)
        PROVE  Pending(x, y)' = Pending(x, y)
    <3>1. /\ SentN(x, y, "request") \in Nat /\ HandledN(x, y, "request") \in Nat
          /\ SentN(y, x, "ack") \in Nat /\ HandledN(y, x, "ack") \in Nat
      BY PendingType
    <3>2. /\ SentN(x, y, "request")' = SentN(x, y, "request")
          /\ SentN(y, x, "ack")' = SentN(y, x, "ack")
      BY <1>4, <2>3, <3>1
    <3> QED
      BY <1>5, <3>2 DEF Pending
  <2> QED
    BY <2>1, <2>2, <2>3
<1>7. Goroutines'
  <2> SUFFICES ASSUME NEW y \in Nodes, NEW i \in 1..Len(channel'[y])
               PROVE  channel'[y][i].node # y
    BY <1>1 DEF Goroutines
  <2>1. CASE i \in 1..Len(channel[y])
    BY <1>4, <2>1 DEF Goroutines
  <2>2. CASE i \notin 1..Len(channel[y])
    <3>1. y = d
      BY <1>4, <2>2
    <3>2. i = k
      BY <1>4, <2>2, <3>1 DEF k
    <3> QED
      BY <1>2, <1>4, <3>1, <3>2
  <2> QED
    BY <2>1, <2>2
<1>8. Mutexes'
  BY <1>1, <1>5 DEF Mutexes, PendingClient, OngoingClient, lockVars
<1>9. Answers'
  <2>1. \A m \in Nodes \ {n} : AnswersTo(m)'
    BY <1>1, <1>6, AnswersSame DEF Answers
  <2>2. AnswersTo(n)'
    <3> DEFINE P == {y \in Nodes : Pending(n, y) = 1}
               Q == {y \in Nodes : Pending(n, y)' = 1}
    <3>1. IsFiniteSet(P) /\ Q = P \cup {d} /\ d \notin P
      <4>1. IsFiniteSet(P)
        BY NodesAssumption, FS_Subset
      <4>2. ASSUME NEW y \in Nodes PROVE y \in Q <=> y \in P \cup {d}
        BY <1>6
      <4>3. d \notin P
        BY <1>6
      <4> QED
        BY <4>1, <4>2, <4>3
    <3>2. Cardinality(Q) = Cardinality(P) + 1 /\ Cardinality(P) \in Nat
      BY <3>1, FS_AddElement, FS_CardinalityType
    <3>3. /\ Cardinality(unsent'[n]) = Cardinality(unsent[n]) - 1
          /\ Cardinality(unsent[n]) \in Nat
      <4>1. IsFiniteSet(unsent[n])
        BY NodesAssumption, FS_Subset DEF TypeOK
      <4> QED
        BY <1>1, <4>1, FS_RemoveElement, FS_CardinalityType
    <3>4. \A y \in Nodes : Pending(n, y)' <= IF y = n \/ y \in unsent'[n] THEN 0 ELSE 1
      <4> SUFFICES ASSUME NEW y \in Nodes
                   PROVE  Pending(n, y)' <= IF y = n \/ y \in unsent'[n] THEN 0 ELSE 1
        OBVIOUS
      <4>1. CASE y = d
        <5>1. Pending(n, y)' = 1 /\ y # n /\ y \notin unsent'[n]
          BY <1>1, <1>2, <1>6, <4>1
        <5> QED
          BY <5>1
      <4>2. CASE y # d
        <5>1. Pending(n, y)' = Pending(n, y) /\ (y \in unsent'[n] <=> y \in unsent[n])
          BY <1>1, <1>6, <4>2
        <5>2. Pending(n, y) <= IF y = n \/ y \in unsent[n] THEN 0 ELSE 1
          BY DEF Answers, AnswersTo
        <5> QED
          BY <5>1, <5>2
      <4> QED
        BY <4>1, <4>2
    <3>5. reqAckCount[n] + Cardinality(unsent[n]) + Cardinality(P) = Cardinality(Nodes)
      BY DEF Answers, AnswersTo
    <3>6. reqAckCount[n] \in Nat /\ reqAckCount'[n] = reqAckCount[n]
      BY <1>1 DEF TypeOK
    <3> HIDE DEF P
    <3>7. reqAckCount'[n] + Cardinality(unsent'[n]) + Cardinality(Q) = Cardinality(Nodes)
      BY <3>2, <3>3, <3>5, <3>6
    <3> QED
      BY <1>1, <3>4, <3>7 DEF AnswersTo
  <2> QED
    BY <2>1, <2>2 DEF Answers
<1>10. \A x, y \in Nodes : Uninserted(x, y)' = Uninserted(x, y)
  <2>1. InsertPending(n, d) /\ InsertPending(n, d)'
    BY <1>1, <1>4 DEF InsertPending
  <2>2. \A x, y \in Nodes : ~(x = n /\ y = d) => InsertPending(x, y)' = InsertPending(x, y)
    BY <1>1, <1>4, <1>5 DEF InsertPending
  <2> QED
    BY <1>1, <2>1, <2>2 DEF Uninserted
<1>11. \A y \in Nodes : Present(y)' = Present(y)
  BY <1>1, <1>10 DEF Present
<1>12. Stamps'
  <2>1. \A x, y \in Nodes :
          /\ \A i \in Sent(x, y, "request")' : channel'[y][i].timestamp = stamp'[x]
          /\ \A h \in Handled(x, y, "request")' : h.pc = "start" => h.timestamp = stamp'[x]
    <3> SUFFICES ASSUME NEW x \in Nodes, NEW y \in Nodes, NEW i \in Sent(x, y, "request")'
                 PROVE  channel'[y][i].timestamp = stamp[x]
      BY <1>1, <1>5 DEF Stamps
    <3>1. CASE i \in Sent(x, y, "request")
      BY <1>4, <3>1 DEF Sent, Stamps
    <3>2. CASE i \notin Sent(x, y, "request")
      BY <1>4, <3>2
    <3> QED
      BY <3>1, <3>2
  <2>2. \A m, t, y : m \in Nodes /\ y \in Nodes /\ StampedAt(m, t, y) => StampedAt(m, t, y)'
    BY <1>1, <1>10 DEF StampedAt
  <2> QED
    BY <1>1, <2>1, <2>2, ElementType DEF Stamps
<1>13. ReleaseStamps'
  <2>1. \A x, y \in Nodes : \A i \in Sent(x, y, "release") : channel'[y][i] = channel[y][i]
    BY <1>4 DEF Sent
  <2>2. \A x, y \in Nodes : Sent(x, y, "release")' = Sent(x, y, "release")
                            /\ Handled(x, y, "release")' = Handled(x, y, "release")
    BY <1>4, <1>5
  <2> QED
    BY <1>1, <2>1, <2>2 DEF ReleaseStamps
<1>14. Lengths'
  <2>1. \A y \in Nodes : Releasing(y)' = Releasing(y)
    BY <1>1 DEF Releasing
  <2>2. \A y \in Nodes : ReleasesSent(y)' = ReleasesSent(y)
    BY <1>4, ReleasedType
  <2> QED
    BY <1>1, <1>5, <1>11, <2>1, <2>2 DEF Lengths, Released
<1>15. HolderInCS' /\ NoOtherPanic'
  BY <1>1 DEF HolderInCS, NoOtherPanic, sharedVars
<1> QED
  BY <1>7, <1>8, <1>9, <1>12, <1>13, <1>14, <1>15

\* A RELEASE is sent.
LEMMA StepBroadcastRelease ==
  ASSUME TypeOK, TypeOK', Conserved, Running, NEW n \in Nodes, NEW d \in Nodes,
         Broadcast(n, d), cpc[n] # "request"
  PROVE  Conserved'
<1> USE DEF Conserved
<1>1. /\ d \in unsent[n] /\ Send(n, d, "release", stamp[n]) /\ unsent'[n] = unsent[n] \ {d}
      /\ \A m \in Nodes \ {n} : unsent'[m] = unsent[m]
      /\ UNCHANGED <<clock, queue, reqAckCount, lockVars, handlers, cpc, stamp, sharedVars>>
  BY DEF Broadcast, TypeOK
<1>2. d # n /\ cpc[n] = "release"
  BY <1>1 DEF Goroutines
<1> DEFINE k == Len(channel[d]) + 1
<1>3. stamp[n] \in Nat
  BY DEF TypeOK
<1>4. /\ SentN(n, d, "release")' = SentN(n, d, "release") + 1
      /\ \A x, y \in Nodes : \A b :
           ~(x = n /\ y = d /\ b = "release") => /\ Sent(x, y, b)' = Sent(x, y, b)
                                                 /\ SentN(x, y, b)' = SentN(x, y, b)
      /\ ReleasesSent(d)' = ReleasesSent(d) + 1
      /\ \A y \in Nodes : y # d => ReleasesSent(y)' = ReleasesSent(y)
      /\ Sent(n, d, "release")' = Sent(n, d, "release") \cup {k}
      /\ \A y \in Nodes : \A i \in 1..Len(channel[y]) : channel'[y][i] = channel[y][i]
      /\ \A y \in Nodes \ {d} : channel'[y] = channel[y]
      /\ Len(channel'[d]) = k /\ Len(channel[d]) \in Nat
      /\ channel'[d][k].node = n /\ channel'[d][k].timestamp = stamp[n]
  <2>1. PICK t \in Nat : t = stamp[n]
    BY <1>3
  <2>2. SendsLast(n, d, "release", t)
    BY <1>1, <2>1, SendEffect DEF Actions
  <2> QED
    BY <2>1, <2>2 DEF SendsLast
<1> HIDE DEF k
<1>5. \A x, y \in Nodes : \A b :
        /\ Handled(x, y, b)' = Handled(x, y, b) /\ HandledN(x, y, b)' = HandledN(x, y, b)
        /\ At(x, b)' = At(x, b) /\ ReleaseHandlers(x)' = ReleaseHandlers(x)
  BY <1>1 DEF Handled, HandledN, At, AtPlace, ReleaseHandlers, ReleasesHandled
<1>6. \A x, y \in Nodes : Pending(x, y)' = Pending(x, y)
  <2> SUFFICES ASSUME NEW x \in Nodes, NEW y \in Nodes
               PROVE  Pending(x, y)' = Pending(x, y)
    OBVIOUS
  <2>1. /\ SentN(x, y, "request") \in Nat /\ HandledN(x, y, "request") \in Nat
        /\ SentN(y, x, "ack") \in Nat /\ HandledN(y, x, "ack") \in Nat
    BY PendingType
  <2>2. /\ SentN(x, y, "request")' = SentN(x, y, "request")
        /\ SentN(y, x, "ack")' = SentN(y, x, "ack")
    BY <1>4, <2>1
  <2> QED
    BY <1>5, <2>2 DEF Pending
<1>7. Goroutines'
  <2> SUFFICES ASSUME NEW y \in Nodes, NEW i \in 1..Len(channel'[y])
               PROVE  channel'[y][i].node # y
    BY <1>1 DEF Goroutines
  <2>1. CASE i \in 1..Len(channel[y])
    BY <1>4, <2>1 DEF Goroutines
  <2>2. CASE i \notin 1..Len(channel[y])
    <3>1. y = d
      BY <1>4, <2>2
    <3>2. i = k
      BY <1>4, <2>2, <3>1 DEF k
    <3> QED
      BY <1>2, <1>4, <3>1, <3>2
  <2> QED
    BY <2>1, <2>2
<1>8. Mutexes'
  BY <1>1, <1>5 DEF Mutexes, PendingClient, OngoingClient, lockVars
<1>9. Answers'
  <2>1. \A m \in Nodes \ {n} : AnswersTo(m)'
    BY <1>1, <1>6, AnswersSame DEF Answers
  <2>2. AnswersTo(n)'
    BY <1>1, <1>2, <1>6 DEF Answers, AnswersTo
  <2> QED
    BY <2>1, <2>2 DEF Answers
<1>10. \A x, y \in Nodes : Uninserted(x, y)' = Uninserted(x, y)
  <2>1. \A x, y \in Nodes : x # n => InsertPending(x, y)' = InsertPending(x, y)
    BY <1>1, <1>4, <1>5 DEF InsertPending
  <2> QED
    BY <1>1, <1>2, <2>1 DEF Uninserted
<1>11. \A y \in Nodes : Present(y)' = Present(y)
  BY <1>1, <1>10 DEF Present
<1>12. Stamps'
  <2>1. \A x, y \in Nodes :
          /\ \A i \in Sent(x, y, "request")' : channel'[y][i].timestamp = stamp'[x]
          /\ \A h \in Handled(x, y, "request")' : h.pc = "start" => h.timestamp = stamp'[x]
    <3> SUFFICES ASSUME NEW x \in Nodes, NEW y \in Nodes, NEW i \in Sent(x, y, "request")'
                 PROVE  channel'[y][i].timestamp = stamp[x]
      BY <1>1, <1>5 DEF Stamps
    <3>1. i \in Sent(x, y, "request")
      BY <1>4
    <3> QED
      BY <1>4, <3>1 DEF Sent, Stamps
  <2>2. \A m, t, y : m \in Nodes /\ y \in Nodes /\ StampedAt(m, t, y) => StampedAt(m, t, y)'
    BY <1>1, <1>10 DEF StampedAt
  <2> QED
    BY <1>1, <2>1, <2>2, ElementType DEF Stamps
<1>13. ReleaseStamps'
  <2>1. \A x, y \in Nodes : \A i \in Sent(x, y, "release") : channel'[y][i] = channel[y][i]
    BY <1>4 DEF Sent
  <2>2. \A x, y \in Nodes : Handled(x, y, "release")' = Handled(x, y, "release")
    BY <1>5
  <2>3. /\ \A i \in Sent(n, d, "release") : channel[d][i].timestamp < stamp[n]
        /\ \A h \in Handled(n, d, "release") : h.timestamp < stamp[n]
    BY <1>1, <1>2 DEF ReleaseStamps
  <2>4. stamp[n] <= clock[n]
    BY <1>2 DEF Stamps
  <2>5. k \notin Sent(n, d, "release")
    BY <1>4 DEF k, Sent
  <2>6. ASSUME NEW x \in Nodes, NEW y \in Nodes, NEW i \in Sent(x, y, "release")'
        PROVE  /\ channel'[y][i].timestamp <= clock[x]
               /\ cpc[x] = "release" /\ y \in unsent'[x] => channel'[y][i].timestamp < stamp[x]
               /\ \A j \in Sent(x, y, "release")' :
                    channel'[y][j].timestamp = channel'[y][i].timestamp => j = i
               /\ \A h \in Handled(x, y, "release") : h.timestamp # channel'[y][i].timestamp
    <3>1. CASE x = n /\ y = d
      <4>1. d \notin unsent'[n]
        BY <1>1
      <4>2. Sent(n, d, "release")' = Sent(n, d, "release") \cup {k} /\ channel'[d][k].timestamp = stamp[n]
        BY <1>4
      <4>3. CASE i = k
        <5>1. \A h \in Handled(x, y, "release") : h.timestamp # stamp[n]
          BY <1>3, <2>3, <3>1
        <5>2. \A j \in Sent(n, d, "release") : channel'[d][j].timestamp # stamp[n]
          BY <1>3, <2>1, <2>3
        <5> QED
          BY <2>4, <3>1, <4>1, <4>2, <4>3, <5>1, <5>2
      <4>4. CASE i # k
        <5>1. i \in Sent(n, d, "release")
          BY <3>1, <4>2, <4>4
        <5>2. channel'[d][i] = channel[d][i] /\ channel'[d][i].timestamp # stamp[n]
          BY <1>3, <2>1, <2>3, <5>1
        <5> QED
          BY <2>1, <3>1, <4>1, <4>2, <5>1, <5>2 DEF ReleaseStamps
      <4> QED
        BY <4>3, <4>4
    <3>2. CASE ~(x = n /\ y = d)
      <4>1. Sent(x, y, "release")' = Sent(x, y, "release")
        BY <1>4, <3>2
      <4>2. y \in unsent'[x] => y \in unsent[x]
        BY <1>1
      <4> QED
        BY <2>1, <4>1, <4>2 DEF ReleaseStamps
    <3> QED
      BY <3>1, <3>2
  <2>7. ASSUME NEW x \in Nodes, NEW y \in Nodes, NEW h \in Handled(x, y, "release")
        PROVE  /\ h.timestamp <= clock[x]
               /\ cpc[x] = "release" /\ y \in unsent'[x] => h.timestamp < stamp[x]
    BY <1>1 DEF ReleaseStamps
  <2> QED
    BY <1>1, <2>2, <2>6, <2>7 DEF ReleaseStamps
<1>14. Lengths'
  <2> SUFFICES ASSUME NEW y \in Nodes
               PROVE  Released(y)' = Released(y)
    BY <1>1, <1>11 DEF Lengths
  <2>1. /\ Cardinality(Releasing(y)) \in Nat /\ IsFiniteSet(Releasing(y))
        /\ ReleasesSent(y) \in Nat /\ ReleaseHandlers(y) \in Nat
    BY ReleasedType
  <2>2. ReleaseHandlers(y)' = ReleaseHandlers(y)
    BY <1>5
  <2>3. CASE y = d
    <3>1. Releasing(y)' = Releasing(y) \ {n} /\ n \in Releasing(y)
      BY <1>1, <1>2, <2>3 DEF Releasing
    <3>2. Cardinality(Releasing(y)') = Cardinality(Releasing(y)) - 1
      BY <2>1, <3>1, FS_RemoveElement
    <3>3. ReleasesSent(y)' = ReleasesSent(y) + 1
      BY <1>4, <2>3
    <3> QED
      BY <2>1, <2>2, <3>2, <3>3 DEF Released
  <2>4. CASE y # d
    <3>1. Releasing(y)' = Releasing(y)
      BY <1>1, <2>4 DEF Releasing
    <3>2. ReleasesSent(y)' = ReleasesSent(y)
      BY <1>4, <2>1, <2>4
    <3> QED
      BY <2>2, <3>1, <3>2 DEF Released
  <2> QED
    BY <2>3, <2>4
<1>15. HolderInCS' /\ NoOtherPanic'
  BY <1>1 DEF HolderInCS, NoOtherPanic, sharedVars
<1> QED
  BY <1>7, <1>8, <1>9, <1>12, <1>13, <1>14, <1>15

-----------------------------------------------------------------------------
(***************************************************************************)
(* The steps of the goroutines.                                            *)
(***************************************************************************)

\* A message that is received is handled by a goroutine of its own.
LEMMA StepHandleMsg ==
  ASSUME TypeOK, TypeOK', Conserved, Running, NEW n \in Nodes, HandleMsg(n)
  PROVE  Conserved'
<1> USE DEF Conserved
<1>1. PICK m : m = Head(channel[n])
  OBVIOUS
<1>2. PICK g : g = [action |-> m.action, node |-> m.node, timestamp |-> m.timestamp, pc |-> "start"]
  OBVIOUS
<1>3. /\ channel[n] # << >> /\ channel' = [channel EXCEPT ![n] = Tail(@)]
      /\ clock' = [clock EXCEPT ![n] = 1 + IF @ > m.timestamp THEN @ ELSE m.timestamp]
      /\ handlers' = [handlers EXCEPT ![n] = @ \cup {g}]
      /\ UNCHANGED <<queue, reqAckCount, lockVars, cpc, stamp, unsent, sharedVars>>
  BY <1>1, <1>2 DEF HandleMsg, clientVars
<1>4. ReceivesFirst(n, m)
  BY <1>1, <1>3, ReceiveEffect
<1>5. /\ m \in Message /\ m = channel[n][1] /\ 1 \in 1..Len(channel[n])
      /\ m.node \in Nodes /\ m.action \in Actions /\ m.timestamp \in Nat
  <2>1. m \in Message /\ m = channel[n][1] /\ 1 \in 1..Len(channel[n])
    BY <1>4 DEF ReceivesFirst
  <2> QED
    BY <2>1 DEF Message, Actions
<1>6. g \in Handler /\ g.action = m.action /\ g.node = m.node /\ g.timestamp = m.timestamp /\ g.pc = "start"
  <2>1. g.action = m.action /\ g.node = m.node /\ g.timestamp = m.timestamp /\ g.pc = "start"
    BY <1>2
  <2> QED
    BY <1>2, <1>5, <2>1 DEF Handler, Actions
<1>7. 1 \in Sent(m.node, n, m.action) /\ m.node # n
  BY <1>5 DEF Sent, Goroutines
<1>8. SentN(m.node, n, m.action) \in Nat /\ SentN(m.node, n, m.action) # 0
  BY <1>7, SentTypes
<1>9. g \notin handlers[n]
  <2>1. CASE m.action = "request"
    <3>1. Pending(m.node, n) \in 0..1
      BY <1>5, AtMostOnePending
    <3>2. /\ SentN(m.node, n, "request") \in Nat /\ HandledN(m.node, n, "request") \in Nat
          /\ SentN(n, m.node, "ack") \in Nat /\ HandledN(n, m.node, "ack") \in Nat
      BY <1>5, PendingType
    <3>3. SentN(m.node, n, "request") # 0
      BY <1>8, <2>1
    <3>4. HandledN(m.node, n, "request") = 0
      BY <3>1, <3>2, <3>3 DEF Pending
    <3>5. Handled(m.node, n, "request") = {}
      BY <3>4, HandlerTypes
    <3> QED
      BY <1>6, <2>1, <3>5 DEF Handled
  <2>2. CASE m.action = "ack"
    <3>1. Pending(n, m.node) \in 0..1
      BY <1>5, AtMostOnePending
    <3>2. /\ SentN(n, m.node, "request") \in Nat /\ HandledN(n, m.node, "request") \in Nat
          /\ SentN(m.node, n, "ack") \in Nat /\ HandledN(m.node, n, "ack") \in Nat
      BY <1>5, PendingType
    <3>3. SentN(m.node, n, "ack") # 0
      BY <1>8, <2>2
    <3>4. HandledN(m.node, n, "ack") = 0
      BY <3>1, <3>2, <3>3 DEF Pending
    <3>5. Handled(m.node, n, "ack") = {}
      BY <3>4, HandlerTypes
    <3> QED
      BY <1>6, <2>2, <3>5 DEF Handled
  <2>3. CASE m.action = "release"
    <3>1. \A h \in Handled(m.node, n, "release") : h.timestamp # channel[n][1].timestamp
      BY <1>5, <1>7, <2>3 DEF ReleaseStamps
    <3> QED
      BY <1>5, <1>6, <2>3, <3>1 DEF Handled
  <2> QED
    BY <1>5, <2>1, <2>2, <2>3 DEF Actions
<1>10. Starts(n, g)
  BY <1>3, <1>6, <1>9, StartEffect
<1>11. \A x, y \in Nodes : \A a :
         SentN(x, y, a)' + HandledN(x, y, a)' = SentN(x, y, a) + HandledN(x, y, a)
  <2> SUFFICES ASSUME NEW x \in Nodes, NEW y \in Nodes, NEW a
               PROVE  SentN(x, y, a)' + HandledN(x, y, a)' = SentN(x, y, a) + HandledN(x, y, a)
    OBVIOUS
  <2>1. SentN(x, y, a) \in Nat /\ HandledN(x, y, a) \in Nat
    BY SentTypes, HandlerTypes
  <2>2. CASE x = m.node /\ y = n /\ a = m.action
    <3>1. SentN(x, y, a)' = SentN(x, y, a) - 1 /\ HandledN(x, y, a)' = HandledN(x, y, a) + 1
      BY <1>4, <1>6, <1>10, <2>2 DEF ReceivesFirst, Starts
    <3> QED
      BY <2>1, <3>1
  <2>3. CASE ~(x = m.node /\ y = n /\ a = m.action)
    <3>1. SentN(x, y, a)' = SentN(x, y, a) /\ HandledN(x, y, a)' = HandledN(x, y, a)
      BY <1>4, <1>6, <1>10, <2>3 DEF ReceivesFirst, Starts
    <3> QED
      BY <3>1
  <2> QED
    BY <2>2, <2>3
<1>12. \A x, y \in Nodes : \A a : /\ SentN(x, y, a) \in Nat /\ HandledN(x, y, a) \in Nat
                                  /\ SentN(x, y, a)' \in Nat /\ HandledN(x, y, a)' \in Nat
  <2>1. \A x, y \in Nodes : \A a : SentN(x, y, a) \in Nat /\ HandledN(x, y, a) \in Nat
    BY SentTypes, HandlerTypes
  <2>2. \A x, y \in Nodes : \A a : SentN(x, y, a)' \in Nat
    <3> SUFFICES ASSUME NEW x \in Nodes, NEW y \in Nodes, NEW a
                 PROVE  SentN(x, y, a)' \in Nat
      OBVIOUS
    <3>1. CASE x = m.node /\ y = n /\ a = m.action
      <4>1. SentN(x, y, a)' = SentN(x, y, a) - 1 /\ SentN(x, y, a) # 0
        BY <1>4, <1>8, <3>1 DEF ReceivesFirst
      <4> QED
        BY <2>1, <4>1
    <3>2. CASE ~(x = m.node /\ y = n /\ a = m.action)
      BY <1>4, <2>1, <3>2 DEF ReceivesFirst
    <3> QED
      BY <3>1, <3>2
  <2>3. \A x, y \in Nodes : \A a : HandledN(x, y, a)' \in Nat
    <3> SUFFICES ASSUME NEW x \in Nodes, NEW y \in Nodes, NEW a
                 PROVE  HandledN(x, y, a)' \in Nat
      OBVIOUS
    <3>1. IsFiniteSet(handlers'[y])
      BY <1>10 DEF Starts
    <3> QED
      BY <3>1, FS_Subset, FS_CardinalityType DEF HandledN, Handled
  <2> QED
    BY <2>1, <2>2, <2>3
<1>13. \A x, y \in Nodes : Pending(x, y)' = Pending(x, y)
  <2> SUFFICES ASSUME NEW x \in Nodes, NEW y \in Nodes
               PROVE  Pending(x, y)' = Pending(x, y)
    OBVIOUS
  <2>1. SentN(x, y, "request")' + HandledN(x, y, "request")'
          = SentN(x, y, "request") + HandledN(x, y, "request")
    BY <1>11
  <2>2. SentN(y, x, "ack")' + HandledN(y, x, "ack")' = SentN(y, x, "ack") + HandledN(y, x, "ack")
    BY <1>11
  <2>3. /\ SentN(x, y, "request") \in Nat /\ HandledN(x, y, "request") \in Nat
        /\ SentN(y, x, "ack") \in Nat /\ HandledN(y, x, "ack") \in Nat
        /\ SentN(x, y, "request")' \in Nat /\ HandledN(x, y, "request")' \in Nat
        /\ SentN(y, x, "ack")' \in Nat /\ HandledN(y, x, "ack")' \in Nat
    BY <1>12
  <2> QED
    BY <2>1, <2>2, <2>3 DEF Pending
<1>14. \A y \in Nodes : Released(y)' = Released(y)
  <2> SUFFICES ASSUME NEW y \in Nodes
               PROVE  Released(y)' = Released(y)
    OBVIOUS
  <2>1. Releasing(y)' = Releasing(y)
    BY <1>3 DEF Releasing
  <2>2. /\ Cardinality(Releasing(y)) \in Nat
        /\ ReleasesSent(y) \in Nat /\ ReleaseHandlers(y) \in Nat
    BY ReleasedType
  <2>3. CASE y = n /\ m.action = "release"
    <3>1. ReleasesSent(y)' = ReleasesSent(y) - 1 /\ ReleaseHandlers(y)' = ReleaseHandlers(y) + 1
      BY <1>4, <1>6, <1>10, <2>3 DEF ReceivesFirst, Starts
    <3> QED
      BY <2>1, <2>2, <3>1 DEF Released
  <2>4. CASE ~(y = n /\ m.action = "release")
    <3>1. ReleasesSent(y)' = ReleasesSent(y) /\ ReleaseHandlers(y)' = ReleaseHandlers(y)
      BY <1>4, <1>6, <1>10, <2>4 DEF ReceivesFirst, Starts
    <3> QED
      BY <2>1, <3>1 DEF Released
  <2> QED
    BY <2>3, <2>4
<1>15. Goroutines'
  <2> SUFFICES ASSUME NEW y \in Nodes
               PROVE  /\ \A h \in handlers'[y] : h.node # y /\ h.pc \in Places(h.action)
                      /\ \A i \in 1..Len(channel'[y]) : channel'[y][i].node # y
    BY <1>3, <1>10 DEF Goroutines, Starts
  <2>1. g.node # n /\ g.pc \in Places(g.action)
    BY <1>5, <1>6, <1>7 DEF Places, Actions
  <2>2. CASE y = n
    BY <1>4, <1>10, <2>1, <2>2 DEF Goroutines, Starts, ReceivesFirst
  <2>3. CASE y # n
    BY <1>4, <1>10, <2>3 DEF Goroutines, Starts, ReceivesFirst
  <2> QED
    BY <2>2, <2>3
<1>16. Mutexes'
  <2>1. \A y \in Nodes : At(y, "ackWaited")' = At(y, "ackWaited") /\ At(y, "ackFree")' = At(y, "ackFree")
    BY <1>6, <1>10 DEF Starts
  <2> QED
    BY <1>3, <2>1 DEF Mutexes, PendingClient, OngoingClient, lockVars
<1>17. Answers'
  BY <1>3, <1>13, AnswersSame DEF Answers
<1>18. \A x, y \in Nodes : \A i \in Sent(x, y, "request")' :
         \E j \in Sent(x, y, "request") : channel'[y][i].timestamp = channel[y][j].timestamp
  <2> SUFFICES ASSUME NEW x \in Nodes, NEW y \in Nodes, NEW i \in Sent(x, y, "request")'
               PROVE  \E j \in Sent(x, y, "request") : channel'[y][i].timestamp = channel[y][j].timestamp
    OBVIOUS
  <2>1. i \in 1..Len(channel'[y]) /\ channel'[y][i].node = x /\ channel'[y][i].action = "request"
    BY DEF Sent
  <2>2. CASE y = n
    <3>1. i + 1 \in 1..Len(channel[y]) /\ channel'[y][i] = channel[y][i + 1]
      BY <1>4, <2>1, <2>2 DEF ReceivesFirst
    <3> QED
      BY <2>1, <3>1 DEF Sent
  <2>3. CASE y # n
    <3>1. channel'[y] = channel[y]
      BY <1>4, <2>3 DEF ReceivesFirst
    <3> QED
      BY <2>1, <3>1 DEF Sent
  <2> QED
    BY <2>2, <2>3
<1>19. \A x, y \in Nodes : \A h \in Handled(x, y, "request")' : h.pc = "start" =>
         \/ h \in Handled(x, y, "request")
         \/ \E j \in Sent(x, y, "request") : h.timestamp = channel[y][j].timestamp
  <2> SUFFICES ASSUME NEW x \in Nodes, NEW y \in Nodes, NEW h \in Handled(x, y, "request")',
                      h \notin Handled(x, y, "request")
               PROVE  \E j \in Sent(x, y, "request") : h.timestamp = channel[y][j].timestamp
    OBVIOUS
  <2>1. h = g /\ y = n /\ x = m.node /\ m.action = "request"
    BY <1>6, <1>10 DEF Handled, Starts
  <2> QED
    BY <1>5, <1>6, <1>7, <2>1
<1>20. \A x, y \in Nodes : InsertPending(x, y)' = InsertPending(x, y)
  <2> SUFFICES ASSUME NEW x \in Nodes, NEW y \in Nodes
               PROVE  InsertPending(x, y)' <=> InsertPending(x, y)
    BY DEF InsertPending
  <2>1. InsertPending(x, y)' => InsertPending(x, y)
    BY <1>3, <1>18, <1>19 DEF InsertPending
  <2>2. ASSUME NEW h \in Handled(x, y, "request"), h.pc = "start"
        PROVE  h \in Handled(x, y, "request")'
    BY <1>10 DEF Starts, Handled
  <2>3. ASSUME Sent(x, y, "request") # {} PROVE InsertPending(x, y)'
    <3>1. CASE x = m.node /\ y = n /\ m.action = "request"
      <4>1. g \in Handled(x, y, "request")' /\ g.pc = "start"
        BY <1>6, <1>10, <3>1 DEF Starts, Handled
      <4> QED
        BY <4>1 DEF InsertPending
    <3>2. CASE ~(x = m.node /\ y = n /\ m.action = "request")
      <4>1. SentN(x, y, "request")' = SentN(x, y, "request") /\ SentN(x, y, "request") # 0
        BY <1>4, <2>3, <3>2, SentTypes DEF ReceivesFirst
      <4>2. Sent(x, y, "request")' # {}
        BY <1>4, <4>1 DEF ReceivesFirst
      <4> QED
        BY <4>2 DEF InsertPending
    <3> QED
      BY <3>1, <3>2
  <2> QED
    BY <1>3, <2>1, <2>2, <2>3 DEF InsertPending
<1>21. \A x, y \in Nodes : Uninserted(x, y)' = Uninserted(x, y)
  BY <1>3, <1>20 DEF Uninserted
<1>22. \A y \in Nodes : Present(y)' = Present(y)
  BY <1>3, <1>21 DEF Present
<1>23. \A x \in Nodes : clock'[x] >= clock[x] /\ clock[x] \in Nat
  <2>1. \A x \in Nodes : clock[x] \in Nat
    BY DEF TypeOK
  <2>2. \A x \in Nodes : clock'[x] = IF x = n THEN 1 + IF clock[n] > m.timestamp THEN clock[n] ELSE m.timestamp
                                     ELSE clock[x]
    BY <1>3 DEF TypeOK
  <2> QED
    BY <1>5, <2>1, <2>2
<1>24. Stamps'
  BY <1>3, <1>18, <1>19, <1>21, <1>23, StampsSame
<1>25. Lengths'
  BY <1>3, <1>14, <1>22 DEF Lengths
<1>26. HolderInCS' /\ NoOtherPanic'
  BY <1>3 DEF HolderInCS, NoOtherPanic, sharedVars
<1>27. ReleaseStamps'
  <2> DEFINE Old(y, i) == IF y = n THEN i + 1 ELSE i
  <2>1. ASSUME NEW x \in Nodes, NEW y \in Nodes, NEW i \in Sent(x, y, "release")'
        PROVE  /\ Old(y, i) \in Sent(x, y, "release") /\ channel'[y][i] = channel[y][Old(y, i)]
               /\ i \in Int /\ (y = n => Old(y, i) # 1)
    <3>1. i \in 1..Len(channel'[y]) /\ channel'[y][i].node = x /\ channel'[y][i].action = "release"
      BY DEF Sent
    <3>2. CASE y = n
      <4>1. i + 1 \in 1..Len(channel[y]) /\ channel'[y][i] = channel[y][i + 1]
        BY <1>4, <3>1, <3>2 DEF ReceivesFirst
      <4> QED
        BY <3>1, <3>2, <4>1 DEF Sent
    <3>3. CASE y # n
      <4>1. channel'[y] = channel[y]
        BY <1>4, <3>3 DEF ReceivesFirst
      <4> QED
        BY <3>1, <3>3, <4>1 DEF Sent
    <3> QED
      BY <3>2, <3>3
  <2>2. \A x, y \in Nodes : \A i \in Sent(x, y, "release") : channel[y][i].timestamp \in Nat
    <3> SUFFICES ASSUME NEW x \in Nodes, NEW y \in Nodes, NEW i \in Sent(x, y, "release")
                 PROVE  channel[y][i].timestamp \in Nat
      OBVIOUS
    <3>1. channel[y] \in Seq(Message) /\ i \in 1..Len(channel[y])
      BY DEF TypeOK, Sent
    <3>2. channel[y][i] \in Message
      BY <3>1, ElementOfSeq
    <3> QED
      BY <3>2 DEF Message
  <2>3. ASSUME NEW x \in Nodes, NEW y \in Nodes, NEW h \in Handled(x, y, "release")'
        PROVE  \/ h \in Handled(x, y, "release")
               \/ /\ y = n /\ 1 \in Sent(x, y, "release") /\ h.timestamp = channel[y][1].timestamp
    <3>1. h \in Handled(x, y, "release") \/ (h = g /\ y = n /\ x = m.node /\ m.action = "release")
      BY <1>6, <1>10 DEF Handled, Starts
    <3> QED
      BY <1>5, <1>6, <1>7, <3>1
  <2> HIDE DEF Old
  <2>4. ASSUME NEW x \in Nodes, NEW y \in Nodes, NEW i \in Sent(x, y, "release")'
        PROVE  /\ channel'[y][i].timestamp <= clock'[x]
               /\ cpc[x] = "release" /\ y \in unsent[x] => channel'[y][i].timestamp < stamp[x]
               /\ \A j \in Sent(x, y, "release")' :
                    channel'[y][j].timestamp = channel'[y][i].timestamp => j = i
               /\ \A h \in Handled(x, y, "release")' : h.timestamp # channel'[y][i].timestamp
    <3>1. PICK k : k = Old(y, i)
      OBVIOUS
    <3>2. k \in Sent(x, y, "release") /\ channel'[y][i] = channel[y][k] /\ (y = n => k # 1)
      BY <2>1, <3>1
    <3>3. /\ channel[y][k].timestamp <= clock[x]
          /\ cpc[x] = "release" /\ y \in unsent[x] => channel[y][k].timestamp < stamp[x]
          /\ \A j \in Sent(x, y, "release") : channel[y][j].timestamp = channel[y][k].timestamp => j = k
          /\ \A h \in Handled(x, y, "release") : h.timestamp # channel[y][k].timestamp
      BY <3>2 DEF ReleaseStamps
    <3>4. channel[y][k].timestamp <= clock'[x]
      <4>1. channel[y][k].timestamp \in Nat /\ clock[x] \in Nat /\ clock'[x] \in Nat
        BY <1>23, <2>2, <3>2 DEF TypeOK
      <4> QED
        BY <1>23, <3>3, <4>1
    <3>5. ASSUME NEW j \in Sent(x, y, "release")',
                 channel'[y][j].timestamp = channel'[y][i].timestamp
          PROVE  j = i
      <4>1. Old(y, j) \in Sent(x, y, "release") /\ channel'[y][j] = channel[y][Old(y, j)]
        BY <2>1
      <4>2. Old(y, j) = Old(y, i)
        BY <3>1, <3>2, <3>3, <3>5, <4>1
      <4>3. i \in Int /\ j \in Int
        BY <2>1
      <4> QED
        BY <4>2, <4>3 DEF Old
    <3>6. ASSUME NEW h \in Handled(x, y, "release")'
          PROVE  h.timestamp # channel'[y][i].timestamp
      BY <2>3, <3>2, <3>3
    <3> QED
      BY <3>2, <3>3, <3>4, <3>5, <3>6
  <2>5. ASSUME NEW x \in Nodes, NEW y \in Nodes, NEW h \in Handled(x, y, "release")'
        PROVE  /\ h.timestamp <= clock'[x]
               /\ cpc[x] = "release" /\ y \in unsent[x] => h.timestamp < stamp[x]
    <3>1. /\ h.timestamp <= clock[x]
          /\ cpc[x] = "release" /\ y \in unsent[x] => h.timestamp < stamp[x]
      BY <2>3 DEF ReleaseStamps
    <3>2. h.timestamp \in Nat /\ clock[x] \in Nat /\ clock'[x] \in Nat
      BY <2>2, <2>3 DEF TypeOK, Handled, Handler
    <3> QED
      BY <1>23, <3>1, <3>2
  <2> QED
    BY <1>3, <2>4, <2>5 DEF ReleaseStamps
<1> QED
  BY <1>15, <1>16, <1>17, <1>24, <1>25, <1>26, <1>27

\* A goroutine that moves on keeps the answers pending and the RELEASEs on their way.
LEMMA MoveKeeps ==
  ASSUME TypeOK, TypeOK', Conserved, NEW n \in Nodes, NEW h \in handlers[n], NEW pc \in PCs, NEW g,
         Moves(n, h, pc, g), h.action \in {"request", "ack"}, pc \in Places(h.action),
         UNCHANGED <<clock, reqAckCount, channel, cpc, stamp, unsent>>
  PROVE  /\ Goroutines' /\ Answers' /\ ReleaseStamps'
         /\ \A y \in Nodes : Released(y)' = Released(y)
<1> USE DEF Conserved
<1>1. \A x, y, a : Sent(x, y, a)' = Sent(x, y, a) /\ SentN(x, y, a)' = SentN(x, y, a)
                   /\ ReleasesSent(x)' = ReleasesSent(x)
  BY DEF Sent, SentN, ReleasesSent
<1>2. \A x, y \in Nodes : Pending(x, y)' = Pending(x, y)
  BY <1>1 DEF Moves, Pending
<1>3. Goroutines'
  <2> SUFFICES ASSUME NEW y \in Nodes, NEW k \in handlers'[y]
               PROVE  k.node # y /\ k.pc \in Places(k.action)
    BY DEF Goroutines, Moves
  <2>1. k \in handlers[y] \/ (y = n /\ k = g)
    BY DEF Moves
  <2>2. g.node # n /\ g.pc \in Places(g.action)
    BY DEF Goroutines, Moves
  <2> QED
    BY <2>1, <2>2 DEF Goroutines
<1>4. Answers'
  BY <1>2, AnswersSame DEF Answers
<1>5. ReleaseStamps'
  <2>1. \A x, y \in Nodes : Handled(x, y, "release")' = Handled(x, y, "release")
    BY DEF Moves
  <2>2. \A x \in Nodes : clock'[x] >= clock[x]
    BY DEF TypeOK
  <2> QED
    BY <1>1, <2>1, <2>2, ReleaseStampsSame
<1>6. \A y \in Nodes : Released(y)' = Released(y)
  BY <1>1 DEF Released, Releasing, Moves
<1> QED
  BY <1>3, <1>4, <1>5, <1>6

\* A goroutine that has queued its request, or is about a REQ_ACK, moves on.
LEMMA QuietMove ==
  ASSUME TypeOK, TypeOK', Conserved, NEW n \in Nodes, NEW h \in handlers[n], NEW pc \in PCs, NEW g,
         Moves(n, h, pc, g), h.action \in {"request", "ack"}, pc \in Places(h.action), pc # "start",
         h.action = "ack" \/ h.pc # "start", Mutexes',
         UNCHANGED <<clock, queue, reqAckCount, channel, cpc, stamp, unsent, sharedVars>>
  PROVE  Conserved'
<1> USE DEF Conserved
<1>1. /\ Goroutines' /\ Answers' /\ ReleaseStamps'
      /\ \A y \in Nodes : Released(y)' = Released(y)
  BY MoveKeeps
<1>2. \A x, y : Sent(x, y, "request")' = Sent(x, y, "request")
  BY DEF Sent
<1>3. \A x, y \in Nodes : \A k : k.pc = "start" =>
        (k \in Handled(x, y, "request")' <=> k \in Handled(x, y, "request"))
  BY DEF Moves, Handled
<1>4. \A x, y \in Nodes : Uninserted(x, y)' = Uninserted(x, y)
  BY <1>2, <1>3 DEF Uninserted, InsertPending
<1>5. \A y \in Nodes : Present(y)' = Present(y)
  BY <1>4 DEF Present
<1>6. Stamps'
  <2>1. \A x \in Nodes : clock'[x] >= clock[x]
    BY DEF TypeOK
  <2> QED
    BY <1>2, <1>3, <1>4, <2>1, StampsSame
<1>7. Lengths'
  BY <1>1, <1>5 DEF Lengths
<1>8. HolderInCS' /\ NoOtherPanic'
  BY DEF HolderInCS, NoOtherPanic, sharedVars
<1> QED
  BY <1>1, <1>6, <1>7, <1>8

\* The action and the place of a goroutine.
LEMMA PlacesOfHandler ==
  ASSUME TypeOK, Goroutines, NEW n \in Nodes, NEW h \in handlers[n]
  PROVE  /\ h \in Handler /\ h.action \in Actions /\ h.node \in Nodes /\ h.timestamp \in Nat
         /\ h.node # n /\ h.pc \in Places(h.action)
         /\ h.pc \in {"try", "compare", "wait", "ackWaited", "ackLater", "ackFree"} => h.action = "request"
         /\ h.pc = "count" => h.action = "ack"
<1>1. h \in Handler
  BY DEF TypeOK
<1>2. h.node # n /\ h.pc \in Places(h.action)
  BY DEF Goroutines
<1> QED
  BY <1>1, <1>2 DEF Handler, Actions, Places

LEMMA StepTryOngoing ==
  ASSUME TypeOK, TypeOK', Conserved, Running, NEW n \in Nodes, NEW h \in handlers[n], TryOngoing(n, h)
  PROVE  Conserved'
<1> USE DEF Conserved
<1>1. PICK pc : pc = IF ongoingReq[n] THEN "compare" ELSE "ackFree"
  OBVIOUS
<1>2. PICK g : g = [h EXCEPT !.pc = pc]
  OBVIOUS
<1>3. /\ h.pc = "try" /\ Become(n, h, pc)
      /\ ongoingReq'[n] /\ \A y \in Nodes \ {n} : ongoingReq'[y] = ongoingReq[y]
      /\ UNCHANGED <<clock, queue, reqAckCount, pendingReq, channel, cpc, stamp, unsent, sharedVars>>
  BY <1>1 DEF TryOngoing, TypeOK, clientVars
<1>4. h.action = "request" /\ pc \in Places("request") /\ pc \in PCs /\ pc # "start" /\ pc # "try"
  BY <1>1, <1>3, PlacesOfHandler DEF Places, PCs
<1>5. Moves(n, h, pc, g)
  BY <1>2, <1>3, <1>4, MoveEffect
<1>6. Mutexes'
  <2>1. \A y \in Nodes : At(y, "ackWaited")' = At(y, "ackWaited")
    BY <1>1, <1>3, <1>5 DEF Moves
  <2>2. \A y \in Nodes : At(y, "ackFree")' + (IF OngoingClient(y) THEN 1 ELSE 0)
                           = IF ongoingReq'[y] THEN 1 ELSE 0
    <3> SUFFICES ASSUME NEW y \in Nodes
                 PROVE  At(y, "ackFree")' + (IF OngoingClient(y) THEN 1 ELSE 0)
                           = IF ongoingReq'[y] THEN 1 ELSE 0
      OBVIOUS
    <3>1. At(y, "ackFree") + (IF OngoingClient(y) THEN 1 ELSE 0) = IF ongoingReq[y] THEN 1 ELSE 0
      BY DEF Mutexes
    <3>2. At(y, "ackFree") \in Nat
      BY HandlerTypes
    <3>3. CASE y = n /\ ~ongoingReq[n]
      <4>1. At(y, "ackFree")' = At(y, "ackFree") + 1
        BY <1>1, <1>5, <3>3 DEF Moves
      <4> QED
        BY <1>3, <3>1, <3>2, <3>3, <4>1
    <3>4. CASE ~(y = n /\ ~ongoingReq[n])
      <4>1. At(y, "ackFree")' = At(y, "ackFree")
        BY <1>1, <1>3, <1>5, <3>4 DEF Moves
      <4>2. ongoingReq'[y] = ongoingReq[y]
        BY <1>3, <3>4 DEF TypeOK
      <4> QED
        BY <3>1, <4>1, <4>2
    <3> QED
      BY <3>3, <3>4
  <2>3. \A y \in Nodes : OngoingClient(y)' = OngoingClient(y) /\ PendingClient(y)' = PendingClient(y)
    BY <1>3 DEF OngoingClient, PendingClient
  <2> QED
    BY <1>3, <2>1, <2>2, <2>3 DEF Mutexes
<1> QED
  BY <1>3, <1>4, <1>5, <1>6, QuietMove

LEMMA StepCompare ==
  ASSUME TypeOK, TypeOK', Conserved, Running, NEW n \in Nodes, NEW h \in handlers[n], CompareRequests(n, h)
  PROVE  Conserved'
<1> USE DEF Conserved
<1>1. PICK pc : pc = IF OursIsLater(n, h) THEN "ackLater" ELSE "wait"
  OBVIOUS
<1>2. PICK g : g = [h EXCEPT !.pc = pc]
  OBVIOUS
<1>3. /\ h.pc = "compare" /\ Become(n, h, pc)
      /\ UNCHANGED <<clock, queue, reqAckCount, lockVars, channel, cpc, stamp, unsent, sharedVars>>
  BY <1>1 DEF CompareRequests, clientVars
<1>4. h.action = "request" /\ pc \in Places("request") /\ pc \in PCs /\ pc # "start" /\ pc # "compare"
  BY <1>1, <1>3, PlacesOfHandler DEF Places, PCs
<1>5. Moves(n, h, pc, g)
  BY <1>2, <1>3, <1>4, MoveEffect
<1>6. Mutexes'
  <2>1. \A y \in Nodes : At(y, "ackWaited")' = At(y, "ackWaited") /\ At(y, "ackFree")' = At(y, "ackFree")
    BY <1>1, <1>3, <1>5 DEF Moves
  <2> QED
    BY <1>3, <2>1 DEF Mutexes, PendingClient, OngoingClient, lockVars
<1> QED
  BY <1>3, <1>4, <1>5, <1>6, QuietMove

LEMMA StepLockPendingOf ==
  ASSUME TypeOK, TypeOK', Conserved, Running, NEW n \in Nodes, NEW h \in handlers[n], LockPending(n, h)
  PROVE  Conserved'
<1> USE DEF Conserved
<1>1. PICK g : g = [h EXCEPT !.pc = "ackWaited"]
  OBVIOUS
<1>2. /\ h.pc = "wait" /\ Become(n, h, "ackWaited") /\ ~pendingReq[n] /\ pendingReq'[n]
      /\ \A y \in Nodes \ {n} : pendingReq'[y] = pendingReq[y]
      /\ UNCHANGED <<clock, queue, reqAckCount, ongoingReq, channel, cpc, stamp, unsent, sharedVars>>
  BY DEF LockPending, TypeOK, clientVars
<1>3. h.action = "request" /\ "ackWaited" \in Places("request") /\ "ackWaited" \in PCs
  BY <1>2, PlacesOfHandler DEF Places, PCs
<1>4. Moves(n, h, "ackWaited", g)
  BY <1>1, <1>2, <1>3, MoveEffect
<1>5. Mutexes'
  <2>1. \A y \in Nodes : At(y, "ackFree")' = At(y, "ackFree")
    BY <1>2, <1>4 DEF Moves
  <2>2. \A y \in Nodes : Cardinality(Nodes) # 1 =>
          At(y, "ackWaited")' + (IF PendingClient(y) THEN 1 ELSE 0) = IF pendingReq'[y] THEN 1 ELSE 0
    <3> SUFFICES ASSUME NEW y \in Nodes, Cardinality(Nodes) # 1
                 PROVE  At(y, "ackWaited")' + (IF PendingClient(y) THEN 1 ELSE 0)
                           = IF pendingReq'[y] THEN 1 ELSE 0
      OBVIOUS
    <3>1. At(y, "ackWaited") + (IF PendingClient(y) THEN 1 ELSE 0) = IF pendingReq[y] THEN 1 ELSE 0
      BY DEF Mutexes
    <3>2. At(y, "ackWaited") \in Nat
      BY HandlerTypes
    <3>3. CASE y = n
      <4>1. At(y, "ackWaited")' = At(y, "ackWaited") + 1
        BY <1>4, <3>3 DEF Moves
      <4> QED
        BY <1>2, <3>1, <3>2, <3>3, <4>1
    <3>4. CASE y # n
      <4>1. At(y, "ackWaited")' = At(y, "ackWaited")
        BY <1>4, <3>4 DEF Moves
      <4> QED
        BY <1>2, <3>1, <3>4, <4>1
    <3> QED
      BY <3>3, <3>4
  <2>3. \A y \in Nodes : OngoingClient(y)' = OngoingClient(y) /\ PendingClient(y)' = PendingClient(y)
    BY <1>2 DEF OngoingClient, PendingClient
  <2> QED
    BY <1>2, <2>1, <2>2, <2>3 DEF Mutexes
<1> QED
  BY <1>2, <1>3, <1>4, <1>5, QuietMove

LEMMA StepReqAck ==
  ASSUME TypeOK, TypeOK', Conserved, Running, NEW n \in Nodes, NEW h \in handlers[n], HandleReqAck(n, h)
  PROVE  Conserved'
<1> USE DEF Conserved
<1>1. PICK g : g = [h EXCEPT !.pc = "count"]
  OBVIOUS
<1>2. h.action = "ack" /\ h.pc = "start" /\ "count" \in Places("ack") /\ "count" \in PCs
  BY DEF HandleReqAck, Places, PCs
<1>3. cpc[n] = "request"
  <2>1. Pending(n, h.node) = 1 /\ h.node \in Nodes
    BY <1>2, OnlyHandler
  <2> QED
    BY <2>1, AtMostOnePending
<1>4. ongoingReq[n]
  BY <1>3, HandlerTypes DEF Mutexes, OngoingClient
<1>5. /\ Become(n, h, "count")
      /\ UNCHANGED <<clock, queue, reqAckCount, lockVars, channel, cpc, stamp, unsent, sharedVars>>
  BY <1>4 DEF HandleReqAck, clientVars
<1>6. Moves(n, h, "count", g)
  BY <1>1, <1>2, <1>5, MoveEffect
<1>7. Mutexes'
  <2>1. \A y \in Nodes : At(y, "ackWaited")' = At(y, "ackWaited") /\ At(y, "ackFree")' = At(y, "ackFree")
    BY <1>2, <1>6 DEF Moves
  <2> QED
    BY <1>5, <2>1 DEF Mutexes, PendingClient, OngoingClient, lockVars
<1> QED
  BY <1>2, <1>5, <1>6, <1>7, QuietMove

\* The request of another node is put in the queue.
LEMMA StepInsertRequest ==
  ASSUME TypeOK, TypeOK', Conserved, Running, NEW n \in Nodes, NEW h \in handlers[n], InsertRequest(n, h)
  PROVE  Conserved'
<1> USE DEF Conserved
<1>1. PICK g : g = [h EXCEPT !.pc = "try"]
  OBVIOUS
<1>2. PICK x \in Nodes : x = h.node
  BY PlacesOfHandler
<1>3. PICK e : e = [nodeId |-> h.node, timestamp |-> h.timestamp]
  OBVIOUS
<1>4. /\ h.action = "request" /\ h.pc = "start" /\ "try" \in Places("request") /\ "try" \in PCs
      /\ QueueInsert(n, e) /\ Become(n, h, "try") /\ x # n
      /\ UNCHANGED <<clock, reqAckCount, lockVars, channel, cpc, stamp, unsent, holder>>
  BY <1>2, <1>3, PlacesOfHandler DEF InsertRequest, Places, PCs, clientVars
<1>5. Moves(n, h, "try", g)
  BY <1>1, <1>4, MoveEffect
<1>6. /\ Goroutines' /\ Answers' /\ ReleaseStamps'
      /\ \A y \in Nodes : Released(y)' = Released(y)
  BY <1>4, <1>5, MoveKeeps
<1>7. Pending(x, n) = 1 /\ HandledN(x, n, "request") = 1 /\ Handled(x, n, "request") = {h}
  BY <1>2, <1>4, OnlyHandler
<1>8. cpc[x] = "request" /\ n \notin unsent[x] /\ Sent(x, n, "request") = {}
  <2>1. /\ SentN(x, n, "request") \in Nat /\ HandledN(x, n, "request") \in Nat
        /\ SentN(n, x, "ack") \in Nat /\ HandledN(n, x, "ack") \in Nat
    BY PendingType
  <2>2. SentN(x, n, "request") = 0
    BY <1>7, <2>1 DEF Pending
  <2>3. Sent(x, n, "request") = {}
    BY <2>2, SentTypes
  <2> QED
    BY <1>7, <2>3, AtMostOnePending
<1>9. /\ \A y, z : Sent(y, z, "request")' = Sent(y, z, "request")
      /\ \A y, z \in Nodes : ~(y = x /\ z = n) => Handled(y, z, "request")' = Handled(y, z, "request")
      /\ Handled(x, n, "request")' = {g} /\ g.pc = "try"
  BY <1>2, <1>4, <1>5 DEF Sent, Moves
<1>10. /\ Uninserted(x, n) /\ ~Uninserted(x, n)'
       /\ \A y, z \in Nodes : ~(y = x /\ z = n) => Uninserted(y, z)' = Uninserted(y, z)
  <2>1. InsertPending(x, n) /\ ~InsertPending(x, n)'
    BY <1>4, <1>7, <1>8, <1>9 DEF InsertPending
  <2>2. \A y, z \in Nodes : ~(y = x /\ z = n) => InsertPending(y, z)' = InsertPending(y, z)
    BY <1>4, <1>9 DEF InsertPending
  <2> QED
    BY <1>4, <1>8, <2>1, <2>2 DEF Uninserted
<1>11. /\ Present(n)' = Present(n) \cup {x} /\ x \notin Present(n)
       /\ \A y \in Nodes \ {n} : Present(y)' = Present(y)
  <2>1. Present(n)' = Present(n) \cup {x} /\ x \notin Present(n)
    BY <1>4, <1>8, <1>10 DEF Present
  <2>2. \A y \in Nodes \ {n} : Present(y)' = Present(y)
    BY <1>4, <1>10 DEF Present
  <2> QED
    BY <2>1, <2>2
<1>12. e \in Elem /\ e.nodeId = x /\ e.timestamp = stamp[x] /\ e = ElemOf(x) /\ stamp[x] \in Nat
  <2>1. h.timestamp = stamp[x]
    BY <1>4, <1>7 DEF Stamps
  <2>2. stamp[x] \in Nat
    BY DEF TypeOK
  <2> QED
    BY <1>2, <1>3, <2>1, <2>2 DEF Elem, ElemOf
<1>13. \A i \in 1..Len(queue[n]) : queue[n][i].nodeId = e.nodeId => queue[n][i].timestamp # e.timestamp
  <2>1. \A i \in 1..Len(queue[n]) : queue[n][i].nodeId = x => queue[n][i].timestamp < stamp[x]
    BY <1>10 DEF Stamps, StampedAt
  <2> QED
    BY <1>12, <2>1, ElementType
<1>14. /\ panic' = panic /\ Len(queue'[n]) = Len(queue[n]) + 1 /\ Len(queue[n]) \in Nat
       /\ \A d \in Nodes \ {n} : queue'[d] = queue[d]
       /\ \A d \in Nodes : \A i \in 1..Len(queue'[d]) :
              \/ \E j \in 1..Len(queue[d]) : queue'[d][i] = queue[d][j]
              \/ d = n /\ queue'[d][i] = e
  BY <1>4, <1>12, <1>13, QueueInserted
<1>15. Stamps'
  <2>1. \A y \in Nodes : clock'[y] >= clock[y]
    BY <1>4 DEF TypeOK
  <2>2. e = ElemOf(x)'
    BY <1>4, <1>12 DEF ElemOf
  <2>3. \A d \in Nodes : \A i \in 1..Len(queue'[d]) :
          \/ \E j \in 1..Len(queue[d]) : queue'[d][i] = queue[d][j]
          \/ \E m \in Present(d)' : queue'[d][i] = ElemOf(m)'
    BY <1>11, <1>14, <2>2
  <2>4. \A y, d \in Nodes :
          /\ \A i \in Sent(y, d, "request")' :
               \E j \in Sent(y, d, "request") : channel'[d][i].timestamp = channel[d][j].timestamp
          /\ \A k \in Handled(y, d, "request")' : k.pc = "start" => k \in Handled(y, d, "request")
    BY <1>4, <1>9
  <2>5. \A y, d \in Nodes : Uninserted(y, d)' => Uninserted(y, d)
    BY <1>10
  <2> QED
    BY <1>4, <2>1, <2>3, <2>4, <2>5, StampsSame
<1>16. Lengths'
  <2> SUFFICES ASSUME NEW d \in Nodes
               PROVE  Len(queue'[d]) = Released(d)' + Cardinality(Present(d)')
    BY DEF Lengths
  <2>1. Len(queue[d]) = Released(d) + Cardinality(Present(d)) /\ Released(d)' = Released(d)
    BY <1>6 DEF Lengths
  <2>2. Released(d) \in Nat /\ Cardinality(Present(d)) \in Nat
    BY ReleasedType
  <2>3. CASE d = n
    <3>1. Present(d)' = Present(d) \cup {x} /\ x \notin Present(d)
      BY <1>11, <2>3
    <3>2. Cardinality(Present(d)') = Cardinality(Present(d)) + 1
      BY <3>1, ReleasedType, FS_AddElement
    <3>3. Len(queue'[d]) = Len(queue[d]) + 1
      BY <1>14, <2>3
    <3> QED
      BY <2>1, <2>2, <3>2, <3>3
  <2>4. CASE d # n
    <3>1. Present(d)' = Present(d) /\ queue'[d] = queue[d]
      BY <1>11, <1>14, <2>4
    <3> QED
      BY <2>1, <3>1
  <2> QED
    BY <2>3, <2>4
<1>17. Mutexes'
  <2>1. \A y \in Nodes : At(y, "ackWaited")' = At(y, "ackWaited") /\ At(y, "ackFree")' = At(y, "ackFree")
    BY <1>4, <1>5 DEF Moves
  <2> QED
    BY <1>4, <2>1 DEF Mutexes, PendingClient, OngoingClient, lockVars
<1>18. HolderInCS' /\ NoOtherPanic'
  BY <1>4, <1>14 DEF HolderInCS, NoOtherPanic
<1> QED
  BY <1>6, <1>15, <1>16, <1>17, <1>18

\* A RELEASE pops a queue that is not empty.
LEMMA StepHandleRelease ==
  ASSUME TypeOK, TypeOK', Conserved, Running, NEW n \in Nodes, NEW h \in handlers[n], HandleRelease(n, h)
  PROVE  Conserved'
<1> USE DEF Conserved
<1>1. /\ h.action = "release" /\ h.pc = "start" /\ QueueExtract(n)
      /\ handlers' = [handlers EXCEPT ![n] = @ \ {h}]
      /\ UNCHANGED <<clock, reqAckCount, lockVars, channel, cpc, stamp, unsent, holder>>
  BY PlacesOfHandler DEF HandleRelease, Finish, clientVars, Places
<1>2. Ends(n, h)
  BY <1>1, DoneEffect
<1>3. ReleaseHandlers(n) \in Nat /\ ReleaseHandlers(n) # 0
  <2>1. IsFiniteSet(ReleasesHandled(n)) /\ h \in ReleasesHandled(n)
    BY <1>1, HandlerTypes, FS_Subset DEF ReleasesHandled
  <2> QED
    BY <2>1, HandlerTypes, FS_EmptySet DEF ReleaseHandlers
<1>4. Len(queue[n]) # 0
  <2>1. Len(queue[n]) = Released(n) + Cardinality(Present(n))
    BY DEF Lengths
  <2>2. Cardinality(Releasing(n)) \in Nat /\ Cardinality(Present(n)) \in Nat /\ ReleasesSent(n) \in Nat
    BY ReleasedType
  <2> QED
    BY <1>3, <2>1, <2>2 DEF Released
<1>5. /\ panic' = panic /\ Len(queue'[n]) = Len(queue[n]) - 1 /\ Len(queue[n]) \in Nat
      /\ \A d \in Nodes \ {n} : queue'[d] = queue[d]
      /\ \A d \in Nodes : \A i \in 1..Len(queue'[d]) :
           \E j \in 1..Len(queue[d]) : queue'[d][i] = queue[d][j]
  BY <1>1, <1>4, QueueExtracted
<1>6. \A x, y, a : Sent(x, y, a)' = Sent(x, y, a) /\ SentN(x, y, a)' = SentN(x, y, a)
                   /\ ReleasesSent(x)' = ReleasesSent(x)
  BY <1>1 DEF Sent, SentN, ReleasesSent
<1>7. \A x, y \in Nodes : \A a : a # "release" => /\ Handled(x, y, a)' = Handled(x, y, a)
                                                  /\ HandledN(x, y, a)' = HandledN(x, y, a)
  BY <1>1, <1>2 DEF Ends, Handled, HandledN
<1>8. \A x, y \in Nodes : Pending(x, y)' = Pending(x, y)
  BY <1>6, <1>7 DEF Pending
<1>9. Goroutines'
  <2> SUFFICES ASSUME NEW y \in Nodes, NEW k \in handlers'[y]
               PROVE  k.node # y /\ k.pc \in Places(k.action)
    BY <1>1, <1>2 DEF Goroutines, Ends
  <2>1. k \in handlers[y]
    BY <1>2 DEF Ends
  <2> QED
    BY <2>1 DEF Goroutines
<1>10. Mutexes'
  <2>1. \A y \in Nodes : At(y, "ackWaited")' = At(y, "ackWaited") /\ At(y, "ackFree")' = At(y, "ackFree")
    BY <1>1, <1>2 DEF Ends
  <2> QED
    BY <1>1, <2>1 DEF Mutexes, PendingClient, OngoingClient, lockVars
<1>11. Answers'
  BY <1>1, <1>8, AnswersSame DEF Answers
<1>12. \A x, y \in Nodes : Uninserted(x, y)' = Uninserted(x, y)
  BY <1>1, <1>6, <1>7 DEF Uninserted, InsertPending
<1>13. \A y \in Nodes : Present(y)' = Present(y)
  BY <1>1, <1>12 DEF Present
<1>14. \A x \in Nodes : clock'[x] >= clock[x]
  BY <1>1 DEF TypeOK
<1>15. Stamps'
  BY <1>1, <1>5, <1>6, <1>7, <1>12, <1>14, StampsSame
<1>16. ReleaseStamps'
  <2>1. \A x, y \in Nodes : Handled(x, y, "release")' \subseteq Handled(x, y, "release")
    BY <1>2 DEF Ends, Handled
  <2> QED
    BY <1>1, <1>6, <1>14, <2>1, ReleaseStampsSame
<1>17. Lengths'
  <2> SUFFICES ASSUME NEW d \in Nodes
               PROVE  Len(queue'[d]) = Released(d)' + Cardinality(Present(d)')
    BY DEF Lengths
  <2>1. Len(queue[d]) = Released(d) + Cardinality(Present(d)) /\ Present(d)' = Present(d)
    BY <1>13 DEF Lengths
  <2>2. /\ Cardinality(Releasing(d)) \in Nat /\ Cardinality(Present(d)) \in Nat
        /\ ReleasesSent(d) \in Nat /\ ReleaseHandlers(d) \in Nat
    BY ReleasedType
  <2>3. Releasing(d)' = Releasing(d) /\ ReleasesSent(d)' = ReleasesSent(d)
    BY <1>1, <1>6 DEF Releasing
  <2>4. CASE d = n
    <3>1. ReleaseHandlers(d)' = ReleaseHandlers(d) - 1
      BY <1>1, <1>2, <2>4 DEF Ends
    <3>2. Released(d)' = Released(d) - 1 /\ Released(d) \in Nat
      BY <1>3, <2>2, <2>3, <2>4, <3>1 DEF Released
    <3>3. Len(queue'[d]) = Len(queue[d]) - 1
      BY <1>5, <2>4
    <3> QED
      BY <2>1, <2>2, <3>2, <3>3
  <2>5. CASE d # n
    <3>1. ReleaseHandlers(d)' = ReleaseHandlers(d) /\ queue'[d] = queue[d]
      BY <1>2, <1>5, <2>5 DEF Ends
    <3> QED
      BY <2>1, <2>3, <3>1 DEF Released
  <2> QED
    BY <2>4, <2>5
<1>18. HolderInCS' /\ NoOtherPanic'
  BY <1>1, <1>5 DEF HolderInCS, NoOtherPanic
<1> QED
  BY <1>9, <1>10, <1>11, <1>15, <1>16, <1>17, <1>18

\* A REQ_ACK is counted, and there are as many as nodes at most.
LEMMA StepCountAck ==
  ASSUME TypeOK, TypeOK', Conserved, Running, NEW n \in Nodes, NEW h \in handlers[n], CountAck(n, h)
  PROVE  Conserved'
<1> USE DEF Conserved
<1>1. PICK x \in Nodes : x = h.node
  BY PlacesOfHandler
<1>2. /\ h.action = "ack" /\ h.pc = "count" /\ x # n
      /\ handlers' = [handlers EXCEPT ![n] = @ \ {h}]
      /\ reqAckCount'[n] = reqAckCount[n] + 1
      /\ \A y \in Nodes \ {n} : reqAckCount'[y] = reqAckCount[y]
      /\ UNCHANGED <<clock, queue, ongoingReq, channel, cpc, stamp, unsent, holder>>
  BY <1>1, PlacesOfHandler DEF CountAck, Finish, clientVars, TypeOK
<1>3. Ends(n, h)
  BY <1>2, DoneEffect
<1>4. Pending(n, x) = 1 /\ HandledN(x, n, "ack") = 1 /\ Handled(x, n, "ack") = {h}
  BY <1>1, <1>2, OnlyHandler
<1>5. cpc[n] = "request"
  BY <1>4, AtMostOnePending
<1>6. /\ \A y, z, a : Sent(y, z, a)' = Sent(y, z, a) /\ SentN(y, z, a)' = SentN(y, z, a)
                      /\ ReleasesSent(y)' = ReleasesSent(y)
      /\ \A y, z \in Nodes : ReleaseHandlers(y)' = ReleaseHandlers(y)
      /\ \A y, z \in Nodes : \A a : a # "ack" => Handled(y, z, a)' = Handled(y, z, a)
  BY <1>2, <1>3 DEF Sent, SentN, ReleasesSent, Ends, Handled
<1>7. /\ Pending(n, x)' = 0
      /\ \A y, z \in Nodes : ~(y = n /\ z = x) => Pending(y, z)' = Pending(y, z)
  <2>1. Pending(n, x)' = Pending(n, x) - 1
    <3>1. /\ SentN(n, x, "request") \in Nat /\ HandledN(n, x, "request") \in Nat
          /\ SentN(x, n, "ack") \in Nat /\ HandledN(x, n, "ack") \in Nat
      BY PendingType
    <3>2. /\ HandledN(x, n, "ack")' = HandledN(x, n, "ack") - 1
          /\ HandledN(n, x, "request")' = HandledN(n, x, "request")
      BY <1>1, <1>2, <1>3 DEF Ends
    <3> QED
      BY <1>6, <3>1, <3>2 DEF Pending
  <2>2. ASSUME NEW y \in Nodes, NEW z \in Nodes, ~(y = n /\ z = x)
        PROVE  Pending(y, z)' = Pending(y, z)
    <3>1. /\ HandledN(z, y, "ack")' = HandledN(z, y, "ack")
          /\ HandledN(y, z, "request")' = HandledN(y, z, "request")
      BY <1>1, <1>2, <1>3, <2>2 DEF Ends
    <3> QED
      BY <1>6, <3>1 DEF Pending
  <2> QED
    BY <1>4, <2>1, <2>2
<1> DEFINE P == {y \in Nodes : Pending(n, y) = 1}
           Q == {y \in Nodes : Pending(n, y)' = 1}
<1>8. /\ IsFiniteSet(P) /\ x \in P /\ Cardinality(P) \in Nat \ {0}
      /\ Cardinality(Q) = Cardinality(P) - 1
  <2>1. IsFiniteSet(P)
    BY NodesAssumption, FS_Subset
  <2>2. x \in P /\ Q = P \ {x}
    <3>1. ASSUME NEW y \in Nodes PROVE y \in Q <=> y \in P \ {x}
      BY <1>7
    <3> QED
      BY <1>4, <3>1
  <2> QED
    BY <2>1, <2>2, FS_RemoveElement, FS_CardinalityType, FS_EmptySet
<1>9. reqAckCount[n] + Cardinality(unsent[n]) + Cardinality(P) = Cardinality(Nodes)
  BY <1>5 DEF Answers, AnswersTo
<1> HIDE DEF P, Q
<1>10. /\ reqAckCount[n] \in Nat /\ Cardinality(unsent[n]) \in Nat
       /\ Cardinality(Nodes) \in Nat /\ Cardinality(Nodes) # 1
  <2>1. IsFiniteSet(unsent[n])
    BY NodesAssumption, FS_Subset DEF TypeOK
  <2> QED
    BY <1>2, <2>1, OthersCount, FS_CardinalityType DEF TypeOK
<1>11. reqAckCount[n] + 1 <= Cardinality(Nodes) /\ PendingClient(n)
  BY <1>5, <1>8, <1>9, <1>10 DEF PendingClient
<1>12. pendingReq[n] /\ At(n, "ackWaited") = 0
  BY <1>10, <1>11, HandlerTypes DEF Mutexes
<1>13. /\ panic' = panic
       /\ reqAckCount[n] + 1 = Cardinality(Nodes) => ~pendingReq'[n]
       /\ reqAckCount[n] + 1 # Cardinality(Nodes) => pendingReq'[n]
       /\ \A y \in Nodes \ {n} : pendingReq'[y] = pendingReq[y]
  <2>1. CASE reqAckCount[n] + 1 = Cardinality(Nodes)
    <3>1. UnlockPending(n)
      <4>1. ~(reqAckCount[n] + 1 > Cardinality(Nodes))
        BY <1>10, <2>1
      <4> QED
        BY <2>1, <4>1 DEF CountAck
    <3>2. pendingReq' = [pendingReq EXCEPT ![n] = FALSE] /\ UNCHANGED panic
      BY <1>12, <3>1 DEF UnlockPending
    <3> QED
      BY <2>1, <3>2 DEF TypeOK
  <2>2. CASE reqAckCount[n] + 1 # Cardinality(Nodes)
    <3>1. ~(reqAckCount[n] + 1 > Cardinality(Nodes))
      BY <1>10, <1>11
    <3>2. UNCHANGED <<pendingReq, panic>>
      BY <2>2, <3>1 DEF CountAck
    <3> QED
      BY <1>12, <2>2, <3>2
  <2> QED
    BY <2>1, <2>2
<1>14. Goroutines'
  <2> SUFFICES ASSUME NEW y \in Nodes, NEW k \in handlers'[y]
               PROVE  k.node # y /\ k.pc \in Places(k.action)
    BY <1>2, <1>3 DEF Goroutines, Ends
  <2>1. k \in handlers[y]
    BY <1>3 DEF Ends
  <2> QED
    BY <2>1 DEF Goroutines
<1>15. Mutexes'
  <2>1. \A y \in Nodes : At(y, "ackWaited")' = At(y, "ackWaited") /\ At(y, "ackFree")' = At(y, "ackFree")
    BY <1>2, <1>3 DEF Ends
  <2>2. \A y \in Nodes : OngoingClient(y)' = OngoingClient(y)
    BY <1>2 DEF OngoingClient
  <2>3. \A y \in Nodes \ {n} : PendingClient(y)' = PendingClient(y)
    BY <1>2 DEF PendingClient
  <2>4. PendingClient(n)' <=> reqAckCount[n] + 1 # Cardinality(Nodes)
    BY <1>2, <1>5, <1>10, <1>11 DEF PendingClient
  <2>5. At(n, "ackWaited")' + (IF PendingClient(n)' THEN 1 ELSE 0) = IF pendingReq'[n] THEN 1 ELSE 0
    BY <1>12, <1>13, <2>1, <2>4
  <2> QED
    BY <1>2, <1>13, <2>1, <2>2, <2>3, <2>5 DEF Mutexes
<1>16. Answers'
  <2>1. \A m \in Nodes \ {n} : AnswersTo(m)'
    BY <1>2, <1>7, AnswersSame DEF Answers
  <2>2. \A y \in Nodes : Pending(n, y)' <= IF y = n \/ y \in unsent'[n] THEN 0 ELSE 1
    <3> SUFFICES ASSUME NEW y \in Nodes
                 PROVE  Pending(n, y)' <= IF y = n \/ y \in unsent'[n] THEN 0 ELSE 1
      OBVIOUS
    <3>1. CASE y = x
      BY <1>7, <3>1
    <3>2. CASE y # x
      <4>1. Pending(n, y)' = Pending(n, y) /\ unsent'[n] = unsent[n]
        BY <1>2, <1>7, <3>2
      <4>2. Pending(n, y) <= IF y = n \/ y \in unsent[n] THEN 0 ELSE 1
        BY <1>5 DEF Answers, AnswersTo
      <4> QED
        BY <4>1, <4>2
    <3> QED
      BY <3>1, <3>2
  <2>3. reqAckCount'[n] + Cardinality(unsent'[n]) + Cardinality(Q) = Cardinality(Nodes)
    BY <1>2, <1>8, <1>9, <1>10
  <2>4. AnswersTo(n)'
    BY <1>2, <1>5, <2>2, <2>3 DEF AnswersTo, Q
  <2> QED
    BY <2>1, <2>4 DEF Answers
<1>17. \A y, z \in Nodes : Uninserted(y, z)' = Uninserted(y, z)
  BY <1>2, <1>6 DEF Uninserted, InsertPending
<1>18. \A y \in Nodes : Present(y)' = Present(y)
  BY <1>2, <1>17 DEF Present
<1>19. \A y \in Nodes : clock'[y] >= clock[y]
  BY <1>2 DEF TypeOK
<1>20. Stamps'
  BY <1>2, <1>6, <1>17, <1>19, StampsSame
<1>21. ReleaseStamps'
  <2>1. \A y, z \in Nodes : Handled(y, z, "release")' = Handled(y, z, "release")
    BY <1>6
  <2> QED
    BY <1>2, <1>6, <1>19, <2>1, ReleaseStampsSame
<1>22. Lengths'
  BY <1>2, <1>6, <1>18 DEF Lengths, Released, Releasing
<1>23. HolderInCS' /\ NoOtherPanic'
  BY <1>2, <1>13 DEF HolderInCS, NoOtherPanic
<1> QED
  BY <1>14, <1>15, <1>16, <1>20, <1>21, <1>22, <1>23

\* The answer to a request is sent, and the mutex that its goroutine borrowed is unlocked.
LEMMA StepSendAck ==
  ASSUME TypeOK, TypeOK', Conserved, Running, NEW n \in Nodes, NEW h \in handlers[n], SendAck(n, h)
  PROVE  Conserved'
<1> USE DEF Conserved
<1>1. PICK x \in Nodes : x = h.node
  BY PlacesOfHandler
<1>2. PICK t \in Nat : t = clock[n] + 1
  <2>1. clock[n] \in Nat
    BY DEF TypeOK
  <2>2. clock[n] + 1 \in Nat
    BY <2>1
  <2> QED
    BY <2>2
<1>3. /\ h.action = "request" /\ h.pc \in {"ackWaited", "ackLater", "ackFree"} /\ x # n
      /\ Send(n, x, "ack", t)
      /\ handlers' = [handlers EXCEPT ![n] = @ \ {h}]
      /\ IF h.pc = "ackWaited" THEN UnlockPending(n) ELSE UNCHANGED <<pendingReq, panic>>
      /\ clock'[n] = t /\ \A y \in Nodes \ {n} : clock'[y] = clock[y]
      /\ ongoingReq'[n] = (ongoingReq[n] /\ h.pc # "ackFree")
      /\ \A y \in Nodes \ {n} : ongoingReq'[y] = ongoingReq[y]
      /\ UNCHANGED <<queue, reqAckCount, cpc, stamp, unsent, holder>>
  BY <1>1, <1>2, PlacesOfHandler DEF SendAck, Finish, clientVars, TypeOK
<1>4. SendsLast(n, x, "ack", t)
  BY <1>3, SendEffect DEF Actions
<1>5. Ends(n, h)
  BY <1>3, DoneEffect
<1>6. /\ \A y, z \in Nodes : \A a : a # "ack" => Sent(y, z, a)' = Sent(y, z, a)
                                               /\ SentN(y, z, a)' = SentN(y, z, a)
      /\ \A y \in Nodes : ReleasesSent(y)' = ReleasesSent(y) /\ ReleaseHandlers(y)' = ReleaseHandlers(y)
      /\ \A y, z \in Nodes : Handled(y, z, "release")' = Handled(y, z, "release")
      /\ \A y, z \in Nodes : \A k : k.pc = "start" =>
           (k \in Handled(y, z, "request")' <=> k \in Handled(y, z, "request"))
      /\ \A y \in Nodes : \A i \in 1..Len(channel[y]) : channel'[y][i] = channel[y][i]
  <2>1. /\ \A y, z \in Nodes : \A a : a # "ack" => Sent(y, z, a)' = Sent(y, z, a)
                                               /\ SentN(y, z, a)' = SentN(y, z, a)
        /\ \A y \in Nodes : ReleasesSent(y)' = ReleasesSent(y)
        /\ \A y \in Nodes : \A i \in 1..Len(channel[y]) : channel'[y][i] = channel[y][i]
    BY <1>4 DEF SendsLast
  <2>2. \A y \in Nodes : ReleaseHandlers(y)' = ReleaseHandlers(y)
    BY <1>3, <1>5 DEF Ends
  <2>3. \A y, z \in Nodes : Handled(y, z, "release")' = Handled(y, z, "release")
    BY <1>3, <1>5 DEF Ends, Handled
  <2>4. \A y, z \in Nodes : \A k : k.pc = "start" =>
           (k \in Handled(y, z, "request")' <=> k \in Handled(y, z, "request"))
    BY <1>3, <1>5 DEF Ends, Handled
  <2> QED
    BY <2>1, <2>2, <2>3, <2>4
<1>7. \A y, z \in Nodes : Pending(y, z)' = Pending(y, z)
  <2> SUFFICES ASSUME NEW y \in Nodes, NEW z \in Nodes
               PROVE  Pending(y, z)' = Pending(y, z)
    OBVIOUS
  <2>1. /\ SentN(y, z, "request") \in Nat /\ HandledN(y, z, "request") \in Nat
        /\ SentN(z, y, "ack") \in Nat /\ HandledN(z, y, "ack") \in Nat
    BY PendingType
  <2>2. /\ SentN(y, z, "request")' = SentN(y, z, "request")
        /\ HandledN(z, y, "ack")' = HandledN(z, y, "ack")
    BY <1>3, <1>5, <1>6 DEF Ends
  <2>3. CASE y = x /\ z = n
    <3>1. HandledN(y, z, "request")' = HandledN(y, z, "request") - 1
      BY <1>1, <1>3, <1>5, <2>3 DEF Ends
    <3>2. SentN(z, y, "ack")' = SentN(z, y, "ack") + 1
      BY <1>4, <2>3 DEF SendsLast
    <3> QED
      BY <2>1, <2>2, <3>1, <3>2 DEF Pending
  <2>4. CASE ~(y = x /\ z = n)
    <3>1. HandledN(y, z, "request")' = HandledN(y, z, "request")
      BY <1>1, <1>3, <1>5, <2>4 DEF Ends
    <3>2. SentN(z, y, "ack")' = SentN(z, y, "ack")
      BY <1>4, <2>4 DEF SendsLast
    <3> QED
      BY <2>2, <3>1, <3>2 DEF Pending
  <2> QED
    BY <2>3, <2>4
<1>8. Goroutines'
  <2>1. ASSUME NEW y \in Nodes, NEW k \in handlers'[y]
        PROVE  k.node # y /\ k.pc \in Places(k.action)
    <3>1. k \in handlers[y]
      BY <1>5 DEF Ends
    <3> QED
      BY <3>1 DEF Goroutines
  <2>2. ASSUME NEW y \in Nodes, NEW i \in 1..Len(channel'[y])
        PROVE  channel'[y][i].node # y
    <3>1. CASE i \in 1..Len(channel[y])
      BY <1>6, <3>1 DEF Goroutines
    <3>2. CASE i \notin 1..Len(channel[y])
      <4>1. y = x
        BY <1>4, <3>2 DEF SendsLast
      <4>2. i = Len(channel[x]) + 1
        BY <1>4, <3>2, <4>1 DEF SendsLast
      <4>3. channel'[x][Len(channel[x]) + 1].node = n
        BY <1>4 DEF SendsLast
      <4> QED
        BY <1>3, <4>1, <4>2, <4>3
    <3> QED
      BY <3>1, <3>2
  <2> QED
    BY <1>3, <1>5, <2>1, <2>2 DEF Goroutines, Ends
<1>9. Mutexes' /\ panic' = panic
  <2>1. h \in AtPlace(n, h.pc) /\ At(n, h.pc) \in Nat /\ At(n, h.pc) # 0
    <3>1. h \in AtPlace(n, h.pc) /\ IsFiniteSet(AtPlace(n, h.pc))
      BY HandlerTypes, FS_Subset DEF AtPlace
    <3> QED
      BY <3>1, HandlerTypes, FS_EmptySet DEF At
  <2>2. \A y \in Nodes : /\ OngoingClient(y)' = OngoingClient(y)
                         /\ PendingClient(y)' = PendingClient(y)
    BY <1>3 DEF OngoingClient, PendingClient
  <2>3. Cardinality(Nodes) # 1
    BY <1>3, OthersCount
  <2>4. CASE h.pc = "ackWaited"
    <3>1. /\ At(n, "ackWaited")' = At(n, "ackWaited") - 1
          /\ \A y \in Nodes \ {n} : At(y, "ackWaited")' = At(y, "ackWaited")
          /\ \A y \in Nodes : At(y, "ackFree")' = At(y, "ackFree")
      BY <1>5, <2>4 DEF Ends
    <3>2. At(n, "ackWaited") + (IF PendingClient(n) THEN 1 ELSE 0) = IF pendingReq[n] THEN 1 ELSE 0
      BY <2>3 DEF Mutexes
    <3>3. pendingReq[n] /\ ~PendingClient(n) /\ At(n, "ackWaited") = 1
      BY <2>1, <2>4, <3>2
    <3>4. pendingReq' = [pendingReq EXCEPT ![n] = FALSE] /\ panic' = panic
      BY <1>3, <2>4, <3>3 DEF UnlockPending
    <3>5. ~pendingReq'[n] /\ \A y \in Nodes \ {n} : pendingReq'[y] = pendingReq[y]
      BY <3>4 DEF TypeOK
    <3>6. \A y \in Nodes : ongoingReq'[y] = ongoingReq[y]
      BY <1>3, <2>4 DEF TypeOK
    <3>7. At(n, "ackWaited")' + (IF PendingClient(n)' THEN 1 ELSE 0) = IF pendingReq'[n] THEN 1 ELSE 0
      BY <2>2, <3>1, <3>3, <3>5
    <3> QED
      BY <2>2, <3>1, <3>4, <3>5, <3>6, <3>7 DEF Mutexes
  <2>5. CASE h.pc = "ackFree"
    <3>1. /\ At(n, "ackFree")' = At(n, "ackFree") - 1
          /\ \A y \in Nodes \ {n} : At(y, "ackFree")' = At(y, "ackFree")
          /\ \A y \in Nodes : At(y, "ackWaited")' = At(y, "ackWaited")
      BY <1>5, <2>5 DEF Ends
    <3>2. At(n, "ackFree") + (IF OngoingClient(n) THEN 1 ELSE 0) = IF ongoingReq[n] THEN 1 ELSE 0
      BY DEF Mutexes
    <3>3. ~OngoingClient(n) /\ At(n, "ackFree") = 1
      BY <2>1, <2>5, <3>2
    <3>4. ~ongoingReq'[n] /\ UNCHANGED <<pendingReq, panic>>
      BY <1>3, <2>5
    <3>5. At(n, "ackFree")' + (IF OngoingClient(n)' THEN 1 ELSE 0) = IF ongoingReq'[n] THEN 1 ELSE 0
      BY <2>2, <3>1, <3>3, <3>4
    <3> QED
      BY <1>3, <2>2, <3>1, <3>4, <3>5 DEF Mutexes
  <2>6. CASE h.pc = "ackLater"
    <3>1. \A y \in Nodes : /\ At(y, "ackFree")' = At(y, "ackFree")
                           /\ At(y, "ackWaited")' = At(y, "ackWaited")
      BY <1>5, <2>6 DEF Ends
    <3>2. \A y \in Nodes : ongoingReq'[y] = ongoingReq[y]
      BY <1>3, <2>6 DEF TypeOK
    <3>3. UNCHANGED <<pendingReq, panic>>
      BY <1>3, <2>6
    <3> QED
      BY <2>2, <3>1, <3>2, <3>3 DEF Mutexes
  <2> QED
    BY <1>3, <2>4, <2>5, <2>6
<1>10. Answers'
  BY <1>3, <1>7, AnswersSame DEF Answers
<1>11. \A y, z \in Nodes : Uninserted(y, z)' = Uninserted(y, z)
  BY <1>3, <1>6 DEF Uninserted, InsertPending
<1>12. \A y \in Nodes : Present(y)' = Present(y)
  BY <1>3, <1>11 DEF Present
<1>13. \A y \in Nodes : clock'[y] >= clock[y]
  <2>1. \A y \in Nodes : clock[y] \in Nat
    BY DEF TypeOK
  <2> QED
    BY <1>2, <1>3, <2>1
<1>14. Stamps'
  <2>1. \A y, z \in Nodes : \A i \in Sent(y, z, "request") : channel'[z][i] = channel[z][i]
    BY <1>6 DEF Sent
  <2>2. \A y, z \in Nodes : \A i \in Sent(y, z, "request")' :
          \E j \in Sent(y, z, "request") : channel'[z][i].timestamp = channel[z][j].timestamp
    BY <1>6, <2>1
  <2> QED
    BY <1>3, <1>6, <1>11, <1>13, <2>2, StampsSame
<1>15. ReleaseStamps'
  <2>1. \A y, z \in Nodes : \A i \in Sent(y, z, "release") : channel'[z][i] = channel[z][i]
    BY <1>6 DEF Sent
  <2> QED
    BY <1>3, <1>6, <1>13, <2>1, ReleaseStampsSame
<1>16. Lengths'
  BY <1>3, <1>6, <1>12 DEF Lengths, Released, Releasing
<1>17. HolderInCS' /\ NoOtherPanic'
  BY <1>3, <1>9 DEF HolderInCS, NoOtherPanic
<1> QED
  BY <1>8, <1>9, <1>10, <1>14, <1>15, <1>16, <1>17

-----------------------------------------------------------------------------
(***************************************************************************)
(* What every behaviour keeps.                                             *)
(***************************************************************************)

LEMMA InitConserved == Init => Conserved
<1> SUFFICES ASSUME Init PROVE Conserved
  OBVIOUS
<1> USE DEF Init
<1>1. \A x, y, a : Sent(x, y, a) = {} \/ y \notin Nodes
  BY DEF Sent
<1>2. \A y \in Nodes : \A x, a : /\ Handled(x, y, a) = {} /\ AtPlace(y, a) = {}
                                 /\ ReleasesHandled(y) = {} /\ Releasing(y) = {} /\ Present(y) = {}
                                 /\ {i \in 1..Len(channel[y]) : channel[y][i].action = "release"} = {}
  BY DEF Handled, AtPlace, ReleasesHandled, Releasing, Present
<1>3. IsFiniteSet({}) /\ Cardinality({}) = 0
  BY FS_EmptySet
<1>4. Goroutines
  BY <1>3 DEF Goroutines
<1>5. Mutexes
  <2>1. \A y \in Nodes : At(y, "ackWaited") = 0 /\ At(y, "ackFree") = 0
    BY <1>2, <1>3 DEF At
  <2>2. \A y \in Nodes : ~PendingClient(y) /\ ~OngoingClient(y) /\ ~pendingReq[y] /\ ~ongoingReq[y]
    BY DEF PendingClient, OngoingClient
  <2> QED
    BY <2>1, <2>2 DEF Mutexes
<1>6. Answers
  <2>1. \A x, y \in Nodes : \A a : SentN(x, y, a) = 0 /\ HandledN(x, y, a) = 0
    BY <1>1, <1>2, <1>3 DEF SentN, HandledN
  <2>2. \A x, y \in Nodes : Pending(x, y) = 0
    BY <2>1 DEF Pending
  <2> QED
    BY <2>2 DEF Answers, AnswersTo
<1>7. Stamps
  BY <1>1, <1>2 DEF Stamps
<1>8. ReleaseStamps
  BY <1>1, <1>2 DEF ReleaseStamps
<1>9. Lengths
  <2>1. \A y \in Nodes : /\ Cardinality(Releasing(y)) = 0 /\ ReleasesSent(y) = 0
                         /\ ReleaseHandlers(y) = 0 /\ Cardinality(Present(y)) = 0
    BY <1>2, <1>3 DEF ReleasesSent, ReleaseHandlers
  <2>2. \A y \in Nodes : Released(y) = 0 /\ Len(queue[y]) = 0
    BY <2>1 DEF Released
  <2> QED
    BY <2>1, <2>2 DEF Lengths
<1>10. HolderInCS /\ NoOtherPanic
  BY NodesAssumption DEF HolderInCS, NoOtherPanic, NoHolder
<1> QED
  BY <1>4, <1>5, <1>6, <1>7, <1>8, <1>9, <1>10 DEF Conserved

LEMMA UnchangedConserved ==
  ASSUME Conserved, UNCHANGED vars
  PROVE  Conserved'
<1> USE DEF vars, lockVars, clientVars, sharedVars
<1>1. /\ \A x, d : /\ Pending(x, d)' = Pending(x, d) /\ At(x, d)' = At(x, d)
                   /\ ReleasesSent(x)' = ReleasesSent(x) /\ ReleaseHandlers(x)' = ReleaseHandlers(x)
      /\ \A x, d, a : Sent(x, d, a)' = Sent(x, d, a) /\ Handled(x, d, a)' = Handled(x, d, a)
  BY MessagesSame
<1>2. \A x, d : Uninserted(x, d)' = Uninserted(x, d)
  BY <1>1 DEF Uninserted, InsertPending
<1>3. \A x : Present(x)' = Present(x) /\ Releasing(x)' = Releasing(x)
  BY <1>2 DEF Present, Releasing
<1>4. Goroutines' /\ Mutexes'
  BY <1>1 DEF Conserved, Goroutines, Mutexes, PendingClient, OngoingClient
<1>5. Answers'
  BY <1>1, AnswersSame DEF Conserved, Answers
<1>6. Stamps'
  BY <1>1, <1>2 DEF Conserved, Stamps, StampedAt
<1>7. ReleaseStamps'
  BY <1>1 DEF Conserved, ReleaseStamps
<1>8. Lengths' /\ HolderInCS' /\ NoOtherPanic'
  BY <1>1, <1>3 DEF Conserved, Lengths, Released, HolderInCS, NoOtherPanic
<1> QED
  BY <1>4, <1>5, <1>6, <1>7, <1>8 DEF Conserved

LEMMA StepConserved ==
  ASSUME TypeOK, Conserved, [Next]_vars
  PROVE  Conserved'
<1>1. TypeOK'
  BY StepType
<1>2. CASE UNCHANGED vars
  BY <1>2, UnchangedConserved
<1>3. ASSUME Running, NEW n \in Nodes, ClientStep(n) PROVE Conserved'
  BY <1>1, <1>3, StepTick, StepRead, StepStamp, StepInsertOwn, StepLockPending,
     StepBroadcastRequest, StepBroadcastRelease, StepEnterCS, StepReleaseLock, StepExtractOwn,
     StepReleaseDone DEF ClientStep
<1>4. ASSUME Running, NEW n \in Nodes, NEW h \in handlers[n], HandlerStep(n, h) PROVE Conserved'
  BY <1>1, <1>4, StepInsertRequest, StepTryOngoing, StepCompare, StepLockPendingOf, StepSendAck,
     StepHandleRelease, StepReqAck, StepCountAck DEF HandlerStep
<1> QED
  BY <1>1, <1>2, <1>3, <1>4, StepAcquire, StepHandleMsg DEF Next

\* Every lock, answer and RELEASE is accounted for, in every behaviour: what is sent, handled,
\* counted and queued fits together (AcquireLock, ReleaseLock and the handlers of messages).
THEOREM Conservation == Spec => [](TypeOK /\ Conserved)
<1>1. TypeOK /\ Conserved /\ [Next]_vars => (TypeOK /\ Conserved)'
  BY StepType, StepConserved
<1> QED
  BY InitType, InitConserved, <1>1, PTL DEF Spec

\* No mutex is unlocked by a goroutine that does not hold it, no REQ_ACK is counted twice, no
\* empty queue is popped, no request is queued twice (handleRequest, handleReqAck, ReleaseLock).
THEOREM NoOtherPanicHolds == Spec => []NoOtherPanic
<1>1. TypeOK /\ Conserved => NoOtherPanic
  BY DEF Conserved
<1> QED
  BY <1>1, Conservation, PTL

\* A REQUEST leads to one REQ_ACK, whichever way the handlers take (handleRequest,
\* handleReqAck): none is lost while its sender waits, none is counted for another request.
THEOREM AcksConservedHolds == Spec => []AcksConserved
<1>1. TypeOK /\ Conserved => AcksConserved
  <2> SUFFICES ASSUME TypeOK, Conserved PROVE AcksConserved
    OBVIOUS
  <2>1. \A n, d \in Nodes :
          Pending(n, d)
            = Cardinality({i \in 1..Len(channel[d]) :
                             channel[d][i].node = n /\ channel[d][i].action = "request"})
              + Cardinality({h \in handlers[d] : h.node = n /\ h.action = "request"})
              + Cardinality({i \in 1..Len(channel[n]) :
                               channel[n][i].node = d /\ channel[n][i].action = "ack"})
              + Cardinality({h \in handlers[n] : h.node = d /\ h.action = "ack"})
    BY DEF Pending, SentN, HandledN, Sent, Handled
  <2>2. \A n \in Nodes : \A d \in Nodes :
          Pending(n, d) <= IF cpc[n] = "request" /\ d # n THEN 1 ELSE 0
    <3> SUFFICES ASSUME NEW n \in Nodes, NEW d \in Nodes
                 PROVE  Pending(n, d) <= IF cpc[n] = "request" /\ d # n THEN 1 ELSE 0
      OBVIOUS
    <3>1. Pending(n, d) \in Nat /\ AnswersTo(n)
      BY PendingType DEF Conserved, Answers
    <3>2. CASE cpc[n] = "request"
      <4>1. Pending(n, d) <= IF d = n \/ d \in unsent[n] THEN 0 ELSE 1
        BY <3>1, <3>2 DEF AnswersTo
      <4> QED
        BY <3>1, <3>2, <4>1
    <3>3. CASE cpc[n] # "request"
      BY <3>1, <3>3 DEF AnswersTo
    <3> QED
      BY <3>2, <3>3
  <2>3. \A n \in Nodes : cpc[n] = "request" =>
          reqAckCount[n] + Cardinality(unsent[n])
            + Cardinality({d \in Nodes : Pending(n, d) = 1}) = Cardinality(Nodes)
    BY DEF Conserved, Answers, AnswersTo
  <2>4. ASSUME NEW n \in Nodes
        PROVE  {d \in Nodes : Pending(n, d) = 1}
                 = {d \in Nodes :
                      Cardinality({i \in 1..Len(channel[d]) :
                             channel[d][i].node = n /\ channel[d][i].action = "request"})
                      + Cardinality({h \in handlers[d] : h.node = n /\ h.action = "request"})
                      + Cardinality({i \in 1..Len(channel[n]) :
                               channel[n][i].node = d /\ channel[n][i].action = "ack"})
                      + Cardinality({h \in handlers[n] : h.node = d /\ h.action = "ack"}) = 1}
    BY <2>1
  <2> QED
    BY <2>1, <2>2, <2>3, <2>4 DEF AcksConserved
<1> QED
  BY <1>1, Conservation, PTL

\* pendingReq and ongoingReq are each locked while exactly one goroutine counts on them
\* (AcquireLock, handleRequest, handleReqAck).  A system of one node is the exception: nobody
\* acknowledges its request, so nobody unlocks its pendingReq.
THEOREM MutexesHaveOneHolderHolds ==
  ASSUME Cardinality(Nodes) # 1
  PROVE  Spec => []MutexesHaveOneHolder
<1>1. Conserved => MutexesHaveOneHolder
  BY DEF Conserved, Mutexes, MutexesHaveOneHolder, At, AtPlace, PendingClient, OngoingClient
<1> QED
  BY <1>1, Conservation, PTL

-----------------------------------------------------------------------------
(***************************************************************************)
(* Requests that are spaced apart: what most steps leave alone.            *)
(***************************************************************************)

Stamped == {"stamp", "insert", "lockPending", "request", "cs", "extract"}
Made == {"lockPending", "request", "cs", "extract"}

\* What is known stays known, if clocks grow, messages are received with their timestamps, and
\* new elements are of requests that everybody else's follow.
LEMMA KnownKept ==
  ASSUME TypeOK, TypeOK', Stamps, Known,
         \A n \in Nodes : clock'[n] >= clock[n],
         \A m, n \in Nodes : Unreceived(m, n) =>
            Unreceived(m, n)' \/ (cpc[m] = "request" /\ stamp[m] <= clock'[n]),
         \A m \in Nodes : cpc'[m] = "read" =>
            \/ cpc[m] = "read"
            \/ \A d \in Nodes : \A i \in 1..Len(queue[d]) : queue[d][i].timestamp < clock'[m],
         \A m \in Nodes : cpc'[m] \in Stamped =>
            \/ cpc[m] \in Stamped /\ stamp'[m] = stamp[m]
            \/ \A n \in Nodes : stamp'[m] <= clock'[n] \/ Unreceived(m, n)',
         \A m, d \in Nodes : Uninserted(m, d)' =>
            \/ Uninserted(m, d) /\ stamp'[m] = stamp[m]
            \/ \A i \in 1..Len(queue[d]) : queue[d][i].timestamp < stamp'[m],
         \A d \in Nodes : \A i \in 1..Len(queue'[d]) :
            \/ \E j \in 1..Len(queue[d]) : queue'[d][i] = queue[d][j]
            \/ \E x \in Nodes : /\ queue'[d][i] = ElemOf(x) /\ cpc[x] \in Stamped
                                /\ \A m \in Nodes : cpc'[m] # "read" /\ ~Uninserted(m, d)'
  PROVE  Known'
<1>1. \A n \in Nodes : clock[n] \in Nat /\ clock'[n] \in Nat /\ stamp[n] \in Nat /\ stamp'[n] \in Nat
  BY DEF TypeOK
<1>2. \A d \in Nodes : \A i \in 1..Len(queue[d]) :
        queue[d][i].nodeId \in Nodes /\ queue[d][i].timestamp \in Nat
  BY ElementType
<1>3. ASSUME NEW d \in Nodes, NEW j \in 1..Len(queue[d]), NEW n \in Nodes,
             NEW x, x = queue[d][j].nodeId, NEW t, t = queue[d][j].timestamp
      PROVE  t <= clock'[n] \/ Unreceived(x, n)'
  <2>1. x \in Nodes /\ t \in Nat
    BY <1>2, <1>3
  <2>2. t <= clock[n] \/ Unreceived(x, n)
    BY <1>3 DEF Known
  <2>3. cpc[x] = "request" => t <= stamp[x]
    BY <1>3, <2>1 DEF Stamps, StampedAt
  <2>4. Unreceived(x, n) => Unreceived(x, n)' \/ (cpc[x] = "request" /\ stamp[x] <= clock'[n])
    BY <2>1
  <2> QED
    BY <1>1, <2>1, <2>2, <2>3, <2>4
<1>4. ASSUME NEW x \in Nodes, cpc[x] \in Stamped, NEW n \in Nodes
      PROVE  stamp[x] <= clock'[n] \/ Unreceived(x, n)'
  <2>1. stamp[x] <= clock[n] \/ Unreceived(x, n)
    BY <1>4 DEF Known, Stamped
  <2> QED
    BY <1>1, <2>1
<1>5. ASSUME NEW m \in Nodes, NEW d \in Nodes, NEW j \in 1..Len(queue[d]),
             NEW t, t = queue[d][j].timestamp
      PROVE  /\ cpc'[m] = "read" => t < clock'[m]
             /\ Uninserted(m, d)' => t < stamp'[m]
  <2>1. t \in Nat
    BY <1>2, <1>5
  <2>2. cpc[m] = "read" => t < clock[m]
    BY <1>5 DEF Known
  <2>3. Uninserted(m, d) => t < stamp[m]
    BY <1>5 DEF Known
  <2>4. cpc'[m] = "read" => t < clock'[m]
    BY <1>1, <1>5, <2>1, <2>2
  <2>5. Uninserted(m, d)' => t < stamp'[m]
    BY <1>5, <2>3
  <2> QED
    BY <2>4, <2>5
<1>6. ASSUME NEW d \in Nodes, NEW i \in 1..Len(queue'[d]),
             NEW x, x = queue'[d][i].nodeId, NEW t, t = queue'[d][i].timestamp
      PROVE  \A n \in Nodes : t <= clock'[n] \/ Unreceived(x, n)'
  <2>1. CASE \E j \in 1..Len(queue[d]) : queue'[d][i] = queue[d][j]
    <3>1. PICK j \in 1..Len(queue[d]) : queue'[d][i] = queue[d][j]
      BY <2>1
    <3>2. x = queue[d][j].nodeId /\ t = queue[d][j].timestamp
      BY <1>6, <3>1
    <3> QED
      BY <1>3, <3>2
  <2>2. CASE \E y \in Nodes : /\ queue'[d][i] = ElemOf(y) /\ cpc[y] \in Stamped
                              /\ \A m \in Nodes : cpc'[m] # "read" /\ ~Uninserted(m, d)'
    <3>1. PICK y \in Nodes : /\ queue'[d][i] = ElemOf(y) /\ cpc[y] \in Stamped
                             /\ \A m \in Nodes : cpc'[m] # "read" /\ ~Uninserted(m, d)'
      BY <2>2
    <3>2. x = y /\ t = stamp[y]
      BY <1>6, <3>1 DEF ElemOf
    <3> QED
      BY <1>4, <3>1, <3>2
  <2> QED
    BY <2>1, <2>2
<1>7. ASSUME NEW m \in Nodes, NEW n \in Nodes, cpc'[m] \in Stamped
      PROVE  stamp'[m] <= clock'[n] \/ Unreceived(m, n)'
  BY <1>4, <1>7
<1>8. \A n, d \in Nodes : \A i \in 1..Len(queue'[d]) :
        queue'[d][i].timestamp <= clock'[n] \/ Unreceived(queue[d][i].nodeId, n)'
  BY <1>6
<1>9. ASSUME NEW m \in Nodes, NEW d \in Nodes, NEW i \in 1..Len(queue'[d])
      PROVE  /\ cpc'[m] = "read" => queue'[d][i].timestamp < clock'[m]
             /\ Uninserted(m, d)' => queue'[d][i].timestamp < stamp'[m]
  <2>1. CASE \E j \in 1..Len(queue[d]) : queue'[d][i] = queue[d][j]
    BY <1>5, <2>1
  <2>2. CASE \E y \in Nodes : /\ queue'[d][i] = ElemOf(y) /\ cpc[y] \in Stamped
                              /\ \A x \in Nodes : cpc'[x] # "read" /\ ~Uninserted(x, d)'
    BY <2>2
  <2> QED
    BY <2>1, <2>2
<1> QED
  BY <1>7, <1>8, <1>9 DEF Known, Stamped

LEMMA ReleasedIsNat == TypeOK /\ Goroutines => \A n \in Nodes : Released(n) \in Nat
  BY ReleasedType

LEMMA ReleasedTypeNext ==
  ASSUME TypeOK', Goroutines'
  PROVE  \A n \in Nodes : Released(n)' \in Nat
<1>1. (\A n \in Nodes : Released(n) \in Nat)'
  BY ReleasedIsNat, PTL
<1> QED
  BY <1>1

\* The queues stay as they are, if no request is inserted, withdrawn or released.
LEMMA QueuesKept ==
  ASSUME TypeOK, TypeOK', Conserved, Conserved', Sorted, ReleasedFirst,
         queue' = queue,
         \A d \in Nodes : Present(d)' = Present(d),
         \A m \in Nodes : cpc'[m] \in Made => stamp'[m] = stamp[m]
  PROVE  /\ Sorted' /\ ReleasedFirst'
         /\ \A d \in Nodes : Released(d)' = Released(d)
<1>1. \A d \in Nodes : Released(d)' = Released(d)
  <2> SUFFICES ASSUME NEW d \in Nodes PROVE Released(d)' = Released(d)
    OBVIOUS
  <2>1. Released(d) \in Nat /\ Cardinality(Present(d)) \in Nat
    BY ReleasedType DEF Conserved
  <2>2. Released(d)' \in Nat
    BY ReleasedTypeNext DEF Conserved
  <2>3. Len(queue[d]) = Released(d) + Cardinality(Present(d))
    BY DEF Conserved, Lengths
  <2>4. Len(queue[d]) = Released(d)' + Cardinality(Present(d))
    <3>1. Len(queue'[d]) = Released(d)' + Cardinality(Present(d)')
      BY DEF Conserved, Lengths
    <3> QED
      BY <3>1
  <2> QED
    BY <2>1, <2>2, <2>3, <2>4
<1>2. \A d \in Nodes : \A m \in Present(d) : ElemOf(m)' = ElemOf(m)
  <2>1. \A d \in Nodes : \A m \in Present(d)' : m \in Nodes /\ cpc'[m] \in Made
    BY DEF Present, Made
  <2> QED
    BY <2>1 DEF ElemOf
<1>3. Sorted'
  BY DEF Sorted
<1>4. ReleasedFirst'
  BY <1>1, <1>2 DEF ReleasedFirst
<1> QED
  BY <1>1, <1>3, <1>4

LEMMA UnsettledKept ==
  ASSUME OneUnsettled, \A n \in Nodes : Unsettled(n)' => Unsettled(n)
  PROVE  OneUnsettled'
  BY DEF OneUnsettled

\* A step that leaves the queues and the requests in them alone.
LEMMA QuietAgreed ==
  ASSUME TypeOK, TypeOK', Conserved, Conserved', Agreed, OneUnsettled',
         queue' = queue, panic' # "SafetyBreached",
         \A n \in Nodes : clock'[n] >= clock[n],
         \A m, n \in Nodes : Unreceived(m, n) =>
            Unreceived(m, n)' \/ (cpc[m] = "request" /\ stamp[m] <= clock'[n]),
         \A m \in Nodes : cpc'[m] = "read" => cpc[m] = "read",
         \A m \in Nodes : cpc'[m] \in Stamped => cpc[m] \in Stamped /\ stamp'[m] = stamp[m],
         \A m \in Nodes : cpc'[m] \in Made <=> cpc[m] \in Made,
         \A m \in Nodes : InCS(m)' => InCS(m),
         \A m, d \in Nodes : Uninserted(m, d)' <=> Uninserted(m, d)
  PROVE  Agreed'
<1>1. \A m, d \in Nodes : Uninserted(m, d) => cpc[m] \in Stamped
  BY DEF Uninserted, Stamped
<1>2. \A m, d \in Nodes : Uninserted(m, d)' => cpc'[m] \in Stamped
  BY DEF Uninserted, Stamped
<1>3. Known'
  <2>1. \A m, d \in Nodes : Uninserted(m, d)' => Uninserted(m, d) /\ stamp'[m] = stamp[m]
    BY <1>2
  <2> QED
    BY <2>1, KnownKept DEF Agreed, Conserved
<1>4. \A d \in Nodes : Present(d)' = Present(d)
  BY DEF Present, Made
<1>5. \A m \in Nodes : cpc'[m] \in Made => stamp'[m] = stamp[m]
  BY DEF Made, Stamped
<1>6. Sorted' /\ ReleasedFirst' /\ \A d \in Nodes : Released(d)' = Released(d)
  BY <1>4, <1>5, QueuesKept DEF Agreed
<1>7. OneInCS'
  BY <1>6 DEF Agreed, OneInCS
<1> QED
  BY <1>3, <1>6, <1>7 DEF Agreed, MutualExclusion

\* Where requests are depends on the channels, and the goroutines that have yet to compare.
LEMMA RequestsSame ==
  ASSUME UNCHANGED <<cpc, unsent>>,
         \A m, d \in Nodes : Sent(m, d, "request")' = {} <=> Sent(m, d, "request") = {},
         \A m, d \in Nodes :
            /\ (\E h \in Handled(m, d, "request")' : h.pc = "start")
                  <=> \E h \in Handled(m, d, "request") : h.pc = "start"
            /\ (\E h \in Handled(m, d, "request")' : h.pc \in {"start", "try", "compare"})
                  => \E h \in Handled(m, d, "request") : h.pc \in {"start", "try", "compare"}
  PROVE  /\ \A m, d \in Nodes : Uninserted(m, d)' <=> Uninserted(m, d)
         /\ \A m, d \in Nodes : Unreceived(m, d)' <=> Unreceived(m, d)
         /\ \A n \in Nodes : Unsettled(n)' => Unsettled(n)
<1>1. \A m, d \in Nodes : InsertPending(m, d)' <=> InsertPending(m, d)
  BY DEF InsertPending
<1>2. \A m, d \in Nodes : Uninserted(m, d)' <=> Uninserted(m, d)
  BY <1>1 DEF Uninserted
<1>3. \A m, d \in Nodes : Unreceived(m, d)' <=> Unreceived(m, d)
  BY DEF Unreceived
<1>4. \A n \in Nodes : Unsettled(n)' => Unsettled(n)
  BY DEF Unsettled
<1> QED
  BY <1>2, <1>3, <1>4

\* A goroutine that has inserted its request, or has none, moves on or ends.
LEMMA GoroutineAgreed ==
  ASSUME TypeOK, TypeOK', Conserved, Conserved', Agreed,
         NEW n \in Nodes, NEW h \in handlers[n], h.action # "request" \/ h.pc # "start",
         NEW g, g.action = h.action, g.node = h.node, h.action = "request" => g.pc # "start",
         g.pc \in {"try", "compare"} => h.pc \in {"try", "compare"},
         handlers'[n] = handlers[n] \ {h} \/ handlers'[n] = (handlers[n] \ {h}) \cup {g},
         \A y \in Nodes \ {n} : handlers'[y] = handlers[y],
         \A x, y \in Nodes : Sent(x, y, "request")' = Sent(x, y, "request"),
         UNCHANGED <<queue, cpc, unsent, stamp>>,
         panic' # "SafetyBreached",
         \A y \in Nodes : clock'[y] >= clock[y]
  PROVE  Agreed'
<1>1. \A m \in Nodes : \A d \in Nodes :
        /\ (\E e \in Handled(m, d, "request")' : e.pc = "start")
              <=> \E e \in Handled(m, d, "request") : e.pc = "start"
        /\ (\E e \in Handled(m, d, "request")' : e.pc \in {"start", "try", "compare"})
              => \E e \in Handled(m, d, "request") : e.pc \in {"start", "try", "compare"}
  <2> SUFFICES ASSUME NEW m \in Nodes, NEW d \in Nodes
               PROVE  /\ (\E e \in Handled(m, d, "request")' : e.pc = "start")
                            <=> \E e \in Handled(m, d, "request") : e.pc = "start"
                      /\ (\E e \in Handled(m, d, "request")' : e.pc \in {"start", "try", "compare"})
                            => \E e \in Handled(m, d, "request") : e.pc \in {"start", "try", "compare"}
    OBVIOUS
  <2>1. CASE d # n
    <3>1. Handled(m, d, "request")' = Handled(m, d, "request")
      BY <2>1 DEF Handled
    <3> QED
      BY <3>1
  <2>2. CASE d = n /\ (m # h.node \/ h.action # "request")
    <3>1. Handled(m, n, "request")' = Handled(m, n, "request")
      BY <2>2 DEF Handled
    <3> QED
      BY <2>2, <3>1
  <2>3. CASE d = n /\ m = h.node /\ h.action = "request"
    <3>1. h \in Handled(m, n, "request")
      BY <2>3 DEF Handled
    <3>2. \A e : /\ e \in Handled(m, n, "request")' => e = g \/ e \in Handled(m, n, "request") \ {h}
                 /\ e \in Handled(m, n, "request") \ {h} => e \in Handled(m, n, "request")'
      BY <2>3 DEF Handled
    <3>3. (\E e \in Handled(m, n, "request")' : e.pc = "start")
             <=> \E e \in Handled(m, n, "request") : e.pc = "start"
      BY <2>3, <3>2
    <3>4. (\E e \in Handled(m, n, "request")' : e.pc \in {"start", "try", "compare"})
             => \E e \in Handled(m, n, "request") : e.pc \in {"start", "try", "compare"}
      BY <2>3, <3>1, <3>2
    <3> QED
      BY <2>3, <3>3, <3>4
  <2> QED
    BY <2>1, <2>2, <2>3
<1>2. /\ \A m, d \in Nodes : Uninserted(m, d)' <=> Uninserted(m, d)
      /\ \A m, d \in Nodes : Unreceived(m, d)' <=> Unreceived(m, d)
      /\ \A m \in Nodes : Unsettled(m)' => Unsettled(m)
  BY <1>1, RequestsSame
<1>3. OneUnsettled'
  BY <1>2, UnsettledKept DEF Agreed
<1>4. \A m \in Nodes : InCS(m)' => InCS(m)
  BY DEF InCS
<1>5. /\ \A m \in Nodes : cpc'[m] = "read" => cpc[m] = "read"
      /\ \A m \in Nodes : cpc'[m] \in Stamped => cpc[m] \in Stamped /\ stamp'[m] = stamp[m]
      /\ \A m \in Nodes : cpc'[m] \in Made <=> cpc[m] \in Made
  OBVIOUS
<1>6. ASSUME NEW m \in Nodes, NEW k \in Nodes, Unreceived(m, k)
      PROVE  Unreceived(m, k)' \/ (cpc[m] = "request" /\ stamp[m] <= clock'[k])
  <2>1. Unreceived(m, k)'
    BY <1>2, <1>6
  <2> QED
    BY <2>1
<1>7. \A y \in Nodes : clock'[y] >= clock[y]
  OBVIOUS
<1> QED
  BY <1>2, <1>3, <1>4, <1>5, <1>6, <1>7, QuietAgreed

LEMMA MoveAgreed ==
  ASSUME TypeOK, TypeOK', Conserved, Conserved', Agreed, Running,
         NEW n \in Nodes, NEW h \in handlers[n], h.action # "request" \/ h.pc # "start",
         NEW pc \in PCs, h.action = "request" => pc # "start",
         pc \in {"try", "compare"} => h.pc \in {"try", "compare"},
         Become(n, h, pc) \/ Finish(n, h),
         UNCHANGED <<queue, channel, cpc, unsent, stamp, clock>>,
         panic' # "SafetyBreached"
  PROVE  Agreed'
<1>1. PICK g : g = [h EXCEPT !.pc = pc]
  OBVIOUS
<1>2. handlers \in [Nodes -> SUBSET Handler] /\ h \in Handler
  BY DEF TypeOK
<1>3. g.action = h.action /\ g.node = h.node /\ g.pc = pc
  BY <1>1, <1>2, Moved
<1>4. /\ handlers'[n] = handlers[n] \ {h} \/ handlers'[n] = (handlers[n] \ {h}) \cup {g}
      /\ \A y \in Nodes \ {n} : handlers'[y] = handlers[y]
  BY <1>1, <1>2 DEF Become, Finish
<1>5. \A x, y \in Nodes : Sent(x, y, "request")' = Sent(x, y, "request")
  BY DEF Sent
<1>6. \A y \in Nodes : clock'[y] >= clock[y]
  BY DEF TypeOK
<1> QED
  BY <1>3, <1>4, <1>5, <1>6, GoroutineAgreed

LEMMA TryOngoingAgreed ==
  ASSUME TypeOK, TypeOK', Conserved, Conserved', Agreed, Running,
         NEW n \in Nodes, NEW h \in handlers[n], TryOngoing(n, h)
  PROVE  Agreed'
<1>1. PICK pc \in PCs : pc = IF ongoingReq[n] THEN "compare" ELSE "ackFree"
  BY DEF PCs
<1> QED
  BY <1>1, MoveAgreed DEF TryOngoing, clientVars, sharedVars, Running

LEMMA CompareAgreed ==
  ASSUME TypeOK, TypeOK', Conserved, Conserved', Agreed, Running,
         NEW n \in Nodes, NEW h \in handlers[n], CompareRequests(n, h)
  PROVE  Agreed'
<1>1. PICK pc \in PCs : pc = IF OursIsLater(n, h) THEN "ackLater" ELSE "wait"
  BY DEF PCs
<1> QED
  BY <1>1, MoveAgreed DEF CompareRequests, clientVars, sharedVars, Running

LEMMA LockPendingAgreed ==
  ASSUME TypeOK, TypeOK', Conserved, Conserved', Agreed, Running,
         NEW n \in Nodes, NEW h \in handlers[n], LockPending(n, h)
  PROVE  Agreed'
<1>1. "ackWaited" \in PCs
  BY DEF PCs
<1> QED
  BY <1>1, MoveAgreed DEF LockPending, clientVars, sharedVars, Running

LEMMA ReqAckAgreed ==
  ASSUME TypeOK, TypeOK', Conserved, Conserved', Agreed, Running,
         NEW n \in Nodes, NEW h \in handlers[n], HandleReqAck(n, h)
  PROVE  Agreed'
<1>1. "count" \in PCs
  BY DEF PCs
<1> QED
  BY <1>1, MoveAgreed DEF HandleReqAck, clientVars, sharedVars, Running

LEMMA CountAckAgreed ==
  ASSUME TypeOK, TypeOK', Conserved, Conserved', Agreed, Running,
         NEW n \in Nodes, NEW h \in handlers[n], CountAck(n, h)
  PROVE  Agreed'
<1>1. "count" \in PCs
  BY DEF PCs
<1>2. panic' # "SafetyBreached"
  BY DEF CountAck, UnlockPending, Running
<1>3. h.pc = "count" /\ Finish(n, h) /\ UNCHANGED <<queue, channel, cpc, unsent, stamp, clock>>
  BY DEF CountAck, clientVars
<1> QED
  BY <1>1, <1>2, <1>3, MoveAgreed

LEMMA SendAckAgreed ==
  ASSUME TypeOK, TypeOK', Conserved, Conserved', Agreed, Running,
         NEW n \in Nodes, NEW h \in handlers[n], SendAck(n, h)
  PROVE  Agreed'
<1>1. PICK x \in Nodes : x = h.node
  BY PlacesOfHandler DEF Conserved
<1>2. PICK t \in Nat : t = clock[n] + 1
  <2>1. clock[n] \in Nat
    BY DEF TypeOK
  <2>2. clock[n] + 1 \in Nat
    BY <2>1
  <2> QED
    BY <2>2
<1>3. /\ h.pc # "start" /\ Send(n, x, "ack", t)
      /\ handlers'[n] = handlers[n] \ {h}
      /\ \A y \in Nodes \ {n} : handlers'[y] = handlers[y]
      /\ UNCHANGED <<queue, cpc, unsent, stamp>>
  BY <1>1, <1>2 DEF SendAck, Finish, TypeOK, clientVars
<1>4. \A y \in Nodes : clock'[y] >= clock[y]
  <2>1. clock \in [Nodes -> Nat] /\ clock' = [clock EXCEPT ![n] = @ + 1]
    BY DEF SendAck, TypeOK
  <2> QED
    BY <2>1
<1>5. SendsLast(n, x, "ack", t)
  BY <1>3, SendEffect DEF Actions
<1>6. \A y, z \in Nodes : Sent(y, z, "request")' = Sent(y, z, "request")
  BY <1>5 DEF SendsLast
<1>7. panic' # "SafetyBreached"
  BY DEF SendAck, UnlockPending, Running
<1>8. PICK g : g = h
  OBVIOUS
<1> QED
  BY <1>3, <1>4, <1>6, <1>7, <1>8, GoroutineAgreed

\* The requests of the other nodes are where they were after a step of the client of n.
LEMMA OthersSame ==
  ASSUME NEW n \in Nodes, UNCHANGED <<channel, handlers>>,
         \A m \in Nodes \ {n} : cpc'[m] = cpc[m] /\ unsent'[m] = unsent[m]
  PROVE  \A m \in Nodes \ {n} :
           /\ Unsettled(m)' <=> Unsettled(m)
           /\ \A d \in Nodes : Unreceived(m, d)' <=> Unreceived(m, d)
           /\ \A d \in Nodes : Uninserted(m, d)' <=> Uninserted(m, d)
<1>1. \A x, d, a : Sent(x, d, a)' = Sent(x, d, a) /\ Handled(x, d, a)' = Handled(x, d, a)
  BY MessagesSame
<1>2. \A m \in Nodes \ {n} : Unsettled(m)' <=> Unsettled(m)
  BY <1>1 DEF Unsettled
<1>3. \A m \in Nodes \ {n} : \A d \in Nodes : Unreceived(m, d)' <=> Unreceived(m, d)
  BY <1>1 DEF Unreceived
<1>4. \A m \in Nodes \ {n} : \A d \in Nodes : Uninserted(m, d)' <=> Uninserted(m, d)
  BY <1>1 DEF Uninserted, InsertPending
<1> QED
  BY <1>2, <1>3, <1>4

\* A step of the client of n that is not about messages and does not change its request.
LEMMA ClientAgreed ==
  ASSUME TypeOK, TypeOK', Conserved, Conserved', Agreed, NEW n \in Nodes,
         UNCHANGED <<queue, channel, handlers>>,
         \A m \in Nodes \ {n} : cpc'[m] = cpc[m] /\ unsent'[m] = unsent[m] /\ stamp'[m] = stamp[m],
         OneUnsettled',
         panic' # "SafetyBreached",
         \A y \in Nodes : clock'[y] >= clock[y],
         \A d \in Nodes : Unreceived(n, d) => Unreceived(n, d)',
         cpc'[n] = "read" => cpc[n] = "read",
         cpc'[n] \in Stamped => cpc[n] \in Stamped /\ stamp'[n] = stamp[n],
         cpc'[n] \in Made <=> cpc[n] \in Made,
         InCS(n)' => InCS(n),
         \A d \in Nodes : Uninserted(n, d)' <=> Uninserted(n, d)
  PROVE  Agreed'
<1>1. \A m \in Nodes \ {n} :
        /\ \A d \in Nodes : Unreceived(m, d)' <=> Unreceived(m, d)
        /\ \A d \in Nodes : Uninserted(m, d)' <=> Uninserted(m, d)
  BY OthersSame
<1>2. ASSUME NEW m \in Nodes, NEW d \in Nodes PROVE Uninserted(m, d)' <=> Uninserted(m, d)
  <2>1. CASE m = n
    <3>1. Uninserted(n, d)' <=> Uninserted(n, d)
      OBVIOUS
    <3> QED
      BY <2>1, <3>1
  <2>2. CASE m # n
    BY <1>1, <2>2
  <2> QED
    BY <2>1, <2>2
<1>3. ASSUME NEW m \in Nodes, NEW d \in Nodes, Unreceived(m, d)
      PROVE  Unreceived(m, d)' \/ (cpc[m] = "request" /\ stamp[m] <= clock'[d])
  <2>1. Unreceived(m, d)'
    <3>1. CASE m = n
      <4>1. Unreceived(n, d) => Unreceived(n, d)'
        OBVIOUS
      <4> QED
        BY <1>3, <3>1, <4>1
    <3>2. CASE m # n
      BY <1>1, <1>3, <3>2
    <3> QED
      BY <3>1, <3>2
  <2> QED
    BY <2>1
<1>4. /\ \A m \in Nodes : cpc'[m] = "read" => cpc[m] = "read"
      /\ \A m \in Nodes : cpc'[m] \in Stamped => cpc[m] \in Stamped /\ stamp'[m] = stamp[m]
      /\ \A m \in Nodes : cpc'[m] \in Made <=> cpc[m] \in Made
  OBVIOUS
<1>5. \A m \in Nodes : InCS(m)' => InCS(m)
  BY DEF InCS
<1>6. \A y \in Nodes : clock'[y] >= clock[y]
  OBVIOUS
<1> QED
  BY <1>2, <1>3, <1>4, <1>5, <1>6, QuietAgreed

LEMMA ClientUnsettled ==
  ASSUME Agreed, NEW n \in Nodes, UNCHANGED <<channel, handlers>>,
         \A m \in Nodes \ {n} : cpc'[m] = cpc[m] /\ unsent'[m] = unsent[m],
         Unsettled(n)' => Unsettled(n)
  PROVE  OneUnsettled'
<1>1. \A m \in Nodes : Unsettled(m)' => Unsettled(m)
  BY OthersSame
<1> QED
  BY <1>1, UnsettledKept DEF Agreed

\* A request is made when no other is under way.
LEMMA AcquireAgreed ==
  ASSUME TypeOK, TypeOK', Conserved, Conserved', Agreed, Running, Settled,
         NEW n \in Nodes, AcquireLock(n)
  PROVE  Agreed'
<1>1. /\ cpc[n] = "idle" /\ cpc'[n] = "tick"
      /\ \A m \in Nodes \ {n} : cpc'[m] = cpc[m] /\ unsent'[m] = unsent[m] /\ stamp'[m] = stamp[m]
      /\ UNCHANGED <<queue, channel, handlers, clock, stamp, unsent, panic>>
  BY DEF AcquireLock, Go, TypeOK, sharedVars
<1>2. \A m \in Nodes : ~Unsettled(m)
  BY DEF Settled, UnansweredRequest, Unsettled, Sent, Handled
<1>3. OneUnsettled'
  <2>1. \A m \in Nodes \ {n} : ~Unsettled(m)'
    BY <1>1, <1>2, OthersSame
  <2> QED
    BY <2>1 DEF OneUnsettled
<1>4. \A d \in Nodes : ~Uninserted(n, d) /\ ~Uninserted(n, d)'
  BY <1>1 DEF Uninserted
<1>5. \A d \in Nodes : Unreceived(n, d) => Unreceived(n, d)'
  BY <1>1 DEF Unreceived
<1>6. \A y \in Nodes : clock'[y] >= clock[y]
  BY <1>1 DEF TypeOK
<1>7. cpc'[n] \notin Stamped /\ cpc'[n] \notin Made /\ cpc[n] \notin Made /\ ~InCS(n)'
  BY <1>1 DEF Stamped, Made, InCS
<1> QED
  BY <1>1, <1>3, <1>4, <1>5, <1>6, <1>7, ClientAgreed DEF Running

LEMMA StampAgreed ==
  ASSUME TypeOK, TypeOK', Conserved, Conserved', Agreed, Running, NEW n \in Nodes, StampRequest(n)
  PROVE  Agreed'
<1>1. /\ cpc[n] = "stamp" /\ cpc'[n] = "insert"
      /\ \A m \in Nodes \ {n} : cpc'[m] = cpc[m] /\ unsent'[m] = unsent[m] /\ stamp'[m] = stamp[m]
      /\ UNCHANGED <<queue, channel, handlers, clock, stamp, unsent, panic>>
  BY DEF StampRequest, Go, TypeOK, sharedVars
<1>2. Unsettled(n)
  BY <1>1 DEF Unsettled
<1>3. OneUnsettled'
  BY <1>1, <1>2, ClientUnsettled
<1>4. \A d \in Nodes : Uninserted(n, d) /\ Uninserted(n, d)'
  BY <1>1 DEF Uninserted
<1>5. \A d \in Nodes : Unreceived(n, d) => Unreceived(n, d)'
  BY <1>1 DEF Unreceived
<1>6. \A y \in Nodes : clock'[y] >= clock[y]
  BY <1>1 DEF TypeOK
<1>7. cpc[n] \in Stamped /\ cpc'[n] \notin Made /\ cpc[n] \notin Made /\ ~InCS(n)'
  BY <1>1 DEF Stamped, Made, InCS
<1> QED
  BY <1>1, <1>3, <1>4, <1>5, <1>6, <1>7, ClientAgreed DEF Running

LEMMA LockOwnPendingAgreed ==
  ASSUME TypeOK, TypeOK', Conserved, Conserved', Agreed, Running, NEW n \in Nodes, LockOwnPending(n)
  PROVE  Agreed'
<1>1. /\ cpc[n] = "lockPending" /\ cpc'[n] = "request" /\ unsent'[n] = Nodes \ {n}
      /\ \A m \in Nodes \ {n} : cpc'[m] = cpc[m] /\ unsent'[m] = unsent[m] /\ stamp'[m] = stamp[m]
      /\ UNCHANGED <<queue, channel, handlers, clock, stamp, panic>>
  BY DEF LockOwnPending, Go, TypeOK, sharedVars
<1>2. Unsettled(n)
  BY <1>1 DEF Unsettled
<1>3. OneUnsettled'
  BY <1>1, <1>2, ClientUnsettled
<1>4. \A d \in Nodes : (Uninserted(n, d) <=> d # n) /\ (Uninserted(n, d)' <=> d # n)
  BY <1>1 DEF Uninserted, InsertPending
<1>5. \A d \in Nodes : Unreceived(n, d) => Unreceived(n, d)'
  BY <1>1 DEF Unreceived
<1>6. \A y \in Nodes : clock'[y] >= clock[y]
  BY <1>1 DEF TypeOK
<1>7. cpc[n] \in Stamped /\ cpc'[n] \in Made /\ cpc[n] \in Made /\ ~InCS(n)'
  BY <1>1 DEF Stamped, Made, InCS
<1> QED
  BY <1>1, <1>3, <1>4, <1>5, <1>6, <1>7, ClientAgreed DEF Running

LEMMA ReleaseLockAgreed ==
  ASSUME TypeOK, TypeOK', Conserved, Conserved', Agreed, Running, NEW n \in Nodes, ReleaseLock(n)
  PROVE  Agreed'
<1>1. /\ cpc[n] = "cs" /\ cpc'[n] = "extract"
      /\ \A m \in Nodes \ {n} : cpc'[m] = cpc[m] /\ unsent'[m] = unsent[m] /\ stamp'[m] = stamp[m]
      /\ UNCHANGED <<queue, channel, handlers, clock, stamp, unsent>>
      /\ panic' # "SafetyBreached"
  BY DEF ReleaseLock, Go, TypeOK, Running
<1>2. Unsettled(n)' => Unsettled(n)
  <2>1. \A d, a : Sent(n, d, a)' = Sent(n, d, a) /\ Handled(n, d, a)' = Handled(n, d, a)
    BY <1>1, MessagesSame
  <2> QED
    BY <1>1, <2>1 DEF Unsettled
<1>3. OneUnsettled'
  BY <1>1, <1>2, ClientUnsettled
<1>4. \A d \in Nodes : ~Uninserted(n, d) /\ ~Uninserted(n, d)'
  BY <1>1 DEF Uninserted
<1>5. \A d \in Nodes : Unreceived(n, d) => Unreceived(n, d)'
  BY <1>1, MessagesSame DEF Unreceived
<1>6. \A y \in Nodes : clock'[y] >= clock[y]
  BY <1>1 DEF TypeOK
<1>7. cpc[n] \in Stamped /\ cpc'[n] \in Made /\ cpc[n] \in Made /\ InCS(n)
  BY <1>1 DEF Stamped, Made, InCS
<1> QED
  BY <1>1, <1>3, <1>4, <1>5, <1>6, <1>7, ClientAgreed

LEMMA ReleaseDoneAgreed ==
  ASSUME TypeOK, TypeOK', Conserved, Conserved', Agreed, Running, NEW n \in Nodes, ReleaseDone(n)
  PROVE  Agreed'
<1>1. /\ cpc[n] = "release" /\ cpc'[n] = "idle"
      /\ \A m \in Nodes \ {n} : cpc'[m] = cpc[m] /\ unsent'[m] = unsent[m] /\ stamp'[m] = stamp[m]
      /\ UNCHANGED <<queue, channel, handlers, clock, unsent, panic>>
  BY DEF ReleaseDone, Go, TypeOK, sharedVars
<1>2. Unsettled(n)' => Unsettled(n)
  <2>1. \A d, a : Sent(n, d, a)' = Sent(n, d, a) /\ Handled(n, d, a)' = Handled(n, d, a)
    BY <1>1, MessagesSame
  <2> QED
    BY <1>1, <2>1 DEF Unsettled
<1>3. OneUnsettled'
  BY <1>1, <1>2, ClientUnsettled
<1>4. \A d \in Nodes : ~Uninserted(n, d) /\ ~Uninserted(n, d)'
  BY <1>1 DEF Uninserted
<1>5. \A d \in Nodes : Unreceived(n, d) => Unreceived(n, d)'
  BY <1>1, MessagesSame DEF Unreceived
<1>6. \A y \in Nodes : clock'[y] >= clock[y]
  BY <1>1 DEF TypeOK
<1>7. cpc'[n] \notin Stamped /\ cpc'[n] \notin Made /\ cpc[n] \notin Made /\ ~InCS(n)'
  BY <1>1 DEF Stamped, Made, InCS
<1> QED
  BY <1>1, <1>3, <1>4, <1>5, <1>6, <1>7, ClientAgreed DEF Running

LEMMA TickAgreed ==
  ASSUME TypeOK, TypeOK', Conserved, Conserved', Agreed, Running, NEW n \in Nodes, Tick(n)
  PROVE  Agreed'
<1>1. /\ cpc[n] = "tick" /\ cpc'[n] = "read" /\ clock'[n] = clock[n] + 1
      /\ \A m \in Nodes \ {n} : /\ cpc'[m] = cpc[m] /\ unsent'[m] = unsent[m]
                              /\ stamp'[m] = stamp[m] /\ clock'[m] = clock[m]
      /\ UNCHANGED <<queue, channel, handlers, stamp, unsent, panic>>
  BY DEF Tick, Go, TypeOK, sharedVars
<1>2. Unsettled(n)
  BY <1>1 DEF Unsettled
<1>3. OneUnsettled'
  BY <1>1, <1>2, ClientUnsettled
<1>4. \A y \in Nodes : clock[y] \in Nat /\ clock'[y] \in Nat /\ clock'[y] >= clock[y]
  <2>1. \A y \in Nodes : clock[y] \in Nat /\ clock'[y] \in Nat
    BY DEF TypeOK
  <2> QED
    BY <1>1, <2>1
<1>5. \A d \in Nodes : ~Uninserted(n, d) /\ ~Uninserted(n, d)'
  BY <1>1 DEF Uninserted
<1>6. \A m \in Nodes \ {n} :
        /\ \A d \in Nodes : Unreceived(m, d)' <=> Unreceived(m, d)
        /\ \A d \in Nodes : Uninserted(m, d)' <=> Uninserted(m, d)
  BY <1>1, OthersSame
<1>7. ASSUME NEW d \in Nodes, NEW i \in 1..Len(queue[d])
      PROVE  queue[d][i].timestamp < clock'[n]
  <2>1. queue[d][i].nodeId \in Nodes /\ queue[d][i].timestamp \in Nat
    BY ElementType
  <2>2. queue[d][i].timestamp <= clock[n] \/ Unreceived(queue[d][i].nodeId, n)
    BY DEF Agreed, Known
  <2>3. ~Unreceived(queue[d][i].nodeId, n)
    BY <1>2, <2>1 DEF Agreed, OneUnsettled, Unreceived, Unsettled
  <2> QED
    BY <1>1, <1>4, <2>1, <2>2, <2>3
<1>8. Known'
  <2>1. ASSUME NEW m \in Nodes, NEW d \in Nodes, Unreceived(m, d)
        PROVE  Unreceived(m, d)' \/ (cpc[m] = "request" /\ stamp[m] <= clock'[d])
    <3>1. CASE m = n
      BY <1>1, <2>1, <3>1 DEF Unreceived
    <3>2. CASE m # n
      <4>1. Unreceived(m, d)'
        BY <1>6, <2>1, <3>2
      <4> QED
        BY <4>1
    <3> QED
      BY <3>1, <3>2
  <2>2. ASSUME NEW m \in Nodes, NEW d \in Nodes, Uninserted(m, d)'
        PROVE  Uninserted(m, d) /\ stamp'[m] = stamp[m]
    BY <1>1, <1>5, <1>6, <2>2
  <2>3. \A m \in Nodes : cpc'[m] = "read" =>
            cpc[m] = "read" \/ \A d \in Nodes : \A i \in 1..Len(queue[d]) : queue[d][i].timestamp < clock'[m]
    BY <1>1, <1>7
  <2>4. \A m \in Nodes : cpc'[m] \in Stamped => cpc[m] \in Stamped /\ stamp'[m] = stamp[m]
    BY <1>1 DEF Stamped
  <2> QED
    BY <1>1, <1>4, <2>1, <2>2, <2>3, <2>4, KnownKept DEF Agreed, Conserved
<1>9. \A d \in Nodes : Present(d)' = Present(d)
  BY <1>1, <1>5, <1>6 DEF Present
<1>10. Sorted' /\ ReleasedFirst' /\ \A d \in Nodes : Released(d)' = Released(d)
  BY <1>1, <1>9, QueuesKept DEF Agreed
<1>11. OneInCS'
  BY <1>1, <1>10 DEF Agreed, OneInCS, InCS
<1> QED
  BY <1>1, <1>3, <1>8, <1>10, <1>11 DEF Agreed, MutualExclusion

LEMMA ReadAgreed ==
  ASSUME TypeOK, TypeOK', Conserved, Conserved', Agreed, Running, NEW n \in Nodes, ReadTimestamp(n)
  PROVE  Agreed'
<1>1. /\ cpc[n] = "read" /\ cpc'[n] = "stamp" /\ stamp'[n] = clock[n]
      /\ \A m \in Nodes \ {n} : cpc'[m] = cpc[m] /\ unsent'[m] = unsent[m] /\ stamp'[m] = stamp[m]
      /\ UNCHANGED <<queue, channel, handlers, clock, unsent, panic>>
  BY DEF ReadTimestamp, Go, TypeOK, sharedVars
<1>2. Unsettled(n)
  BY <1>1 DEF Unsettled
<1>3. OneUnsettled'
  BY <1>1, <1>2, ClientUnsettled
<1>4. \A y \in Nodes : clock[y] \in Nat /\ clock'[y] >= clock[y]
  BY <1>1 DEF TypeOK
<1>5. \A m \in Nodes \ {n} :
        /\ \A d \in Nodes : Unreceived(m, d)' <=> Unreceived(m, d)
        /\ \A d \in Nodes : Uninserted(m, d)' <=> Uninserted(m, d)
  BY <1>1, OthersSame
<1>6. Known'
  <2>1. ASSUME NEW m \in Nodes, NEW d \in Nodes, Unreceived(m, d)
        PROVE  Unreceived(m, d)' \/ (cpc[m] = "request" /\ stamp[m] <= clock'[d])
    <3>1. CASE m = n
      BY <1>1, <2>1, <3>1 DEF Unreceived
    <3>2. CASE m # n
      <4>1. Unreceived(m, d)'
        BY <1>5, <2>1, <3>2
      <4> QED
        BY <4>1
    <3> QED
      BY <3>1, <3>2
  <2>2. \A d \in Nodes : \A i \in 1..Len(queue[d]) : queue[d][i].timestamp < stamp'[n]
    BY <1>1 DEF Agreed, Known
  <2>3. ASSUME NEW m \in Nodes, NEW d \in Nodes, Uninserted(m, d)'
        PROVE  \/ Uninserted(m, d) /\ stamp'[m] = stamp[m]
               \/ \A i \in 1..Len(queue[d]) : queue[d][i].timestamp < stamp'[m]
    <3>1. CASE m = n
      BY <2>2, <3>1
    <3>2. CASE m # n
      BY <1>1, <1>5, <2>3, <3>2
    <3> QED
      BY <3>1, <3>2
  <2>4. \A d \in Nodes : stamp'[n] <= clock'[d] \/ Unreceived(n, d)'
    BY <1>1, <1>4 DEF Unreceived
  <2>5. \A m \in Nodes : cpc'[m] \in Stamped =>
            \/ cpc[m] \in Stamped /\ stamp'[m] = stamp[m]
            \/ \A d \in Nodes : stamp'[m] <= clock'[d] \/ Unreceived(m, d)'
    BY <1>1, <2>4
  <2>6. \A m \in Nodes : cpc'[m] = "read" => cpc[m] = "read"
    BY <1>1
  <2> QED
    BY <1>1, <1>4, <2>1, <2>3, <2>5, <2>6, KnownKept DEF Agreed, Conserved
<1>7. \A d \in Nodes : Present(d)' = Present(d)
  BY <1>1, <1>5 DEF Present
<1>8. \A m \in Nodes : cpc'[m] \in Made => stamp'[m] = stamp[m]
  BY <1>1 DEF Made
<1>9. Sorted' /\ ReleasedFirst' /\ \A d \in Nodes : Released(d)' = Released(d)
  BY <1>1, <1>7, <1>8, QueuesKept DEF Agreed
<1>10. OneInCS'
  BY <1>1, <1>9 DEF Agreed, OneInCS, InCS
<1> QED
  BY <1>1, <1>3, <1>6, <1>9, <1>10 DEF Agreed, MutualExclusion

LEMMA BroadcastRequestAgreed ==
  ASSUME TypeOK, TypeOK', Conserved, Conserved', Agreed, Running,
         NEW n \in Nodes, NEW d \in Nodes, Broadcast(n, d), cpc[n] = "request"
  PROVE  Agreed'
<1>1. /\ d \in unsent[n] /\ Send(n, d, "request", stamp[n]) /\ unsent'[n] = unsent[n] \ {d}
      /\ \A m \in Nodes \ {n} : unsent'[m] = unsent[m]
      /\ UNCHANGED <<clock, queue, handlers, cpc, stamp, panic>>
  BY DEF Broadcast, TypeOK, sharedVars
<1>2. d # n
  BY <1>1 DEF Conserved, Goroutines
<1>3. PICK t \in Nat : t = stamp[n]
  BY DEF TypeOK
<1>4. SendsLast(n, d, "request", t)
  BY <1>1, <1>3, SendEffect DEF Actions
<1>5. \A x, y \in Nodes : ~(x = n /\ y = d) => Sent(x, y, "request")' = Sent(x, y, "request")
  BY <1>4 DEF SendsLast
<1>6. Sent(n, d, "request")' # {}
  BY <1>4 DEF SendsLast
<1>7. \A x, y \in Nodes : Handled(x, y, "request")' = Handled(x, y, "request")
  BY <1>1 DEF Handled
<1>8. ASSUME NEW x \in Nodes, NEW y \in Nodes
      PROVE  /\ Uninserted(x, y)' <=> Uninserted(x, y)
             /\ Unreceived(x, y)' <=> Unreceived(x, y)
  <2>1. CASE x = n /\ y = d
    <3>1. Uninserted(n, d) /\ Unreceived(n, d)
      BY <1>1, <1>2 DEF Uninserted, InsertPending, Unreceived
    <3>2. Uninserted(n, d)' /\ Unreceived(n, d)'
      BY <1>1, <1>2, <1>6 DEF Uninserted, InsertPending, Unreceived
    <3> QED
      BY <2>1, <3>1, <3>2
  <2>2. CASE ~(x = n /\ y = d)
    <3>1. Sent(x, y, "request")' = Sent(x, y, "request") /\ (y \in unsent'[x] <=> y \in unsent[x])
      BY <1>1, <1>5, <2>2
    <3>2. InsertPending(x, y)' <=> InsertPending(x, y)
      BY <1>7, <3>1 DEF InsertPending
    <3>3. Uninserted(x, y)' <=> Uninserted(x, y)
      BY <1>1, <3>2 DEF Uninserted
    <3>4. Unreceived(x, y)' <=> Unreceived(x, y)
      BY <1>1, <3>1 DEF Unreceived
    <3> QED
      BY <3>3, <3>4
  <2> QED
    BY <2>1, <2>2
<1>9. OneUnsettled'
  <2>1. Unsettled(n)
    BY <1>1 DEF Unsettled
  <2>2. \A m \in Nodes \ {n} : Unsettled(m)' => Unsettled(m)
    BY <1>1, <1>5, <1>7 DEF Unsettled
  <2>3. \A m \in Nodes : Unsettled(m)' => Unsettled(m)
    BY <2>1, <2>2
  <2> QED
    BY <2>3, UnsettledKept DEF Agreed
<1>10. ASSUME NEW x \in Nodes, NEW y \in Nodes, Unreceived(x, y)
       PROVE  Unreceived(x, y)' \/ (cpc[x] = "request" /\ stamp[x] <= clock'[y])
  <2>1. Unreceived(x, y)'
    BY <1>8, <1>10
  <2> QED
    BY <2>1
<1>11. \A y \in Nodes : clock'[y] >= clock[y]
  BY <1>1 DEF TypeOK
<1>12. /\ \A m \in Nodes : cpc'[m] = "read" => cpc[m] = "read"
       /\ \A m \in Nodes : cpc'[m] \in Stamped => cpc[m] \in Stamped /\ stamp'[m] = stamp[m]
       /\ \A m \in Nodes : cpc'[m] \in Made <=> cpc[m] \in Made
       /\ \A m \in Nodes : InCS(m)' => InCS(m)
  BY <1>1 DEF InCS
<1>13. \A x, y \in Nodes : Uninserted(x, y)' <=> Uninserted(x, y)
  BY <1>8
<1> QED
  BY <1>1, <1>9, <1>10, <1>11, <1>12, <1>13, QuietAgreed DEF Running

LEMMA BroadcastReleaseAgreed ==
  ASSUME TypeOK, TypeOK', Conserved, Conserved', Agreed, Running,
         NEW n \in Nodes, NEW d \in Nodes, Broadcast(n, d), cpc[n] = "release"
  PROVE  Agreed'
<1>1. /\ d \in unsent[n] /\ Send(n, d, "release", stamp[n])
      /\ \A m \in Nodes \ {n} : unsent'[m] = unsent[m]
      /\ UNCHANGED <<clock, queue, handlers, cpc, stamp, panic>>
  BY DEF Broadcast, TypeOK, sharedVars
<1>2. PICK t \in Nat : t = stamp[n]
  BY DEF TypeOK
<1>3. SendsLast(n, d, "release", t)
  BY <1>1, <1>2, SendEffect DEF Actions
<1>4. \A x, y \in Nodes : /\ Sent(x, y, "request")' = Sent(x, y, "request")
                          /\ Handled(x, y, "request")' = Handled(x, y, "request")
  BY <1>1, <1>3 DEF SendsLast, Handled
<1>5. ASSUME NEW x \in Nodes, NEW y \in Nodes
      PROVE  /\ Uninserted(x, y)' <=> Uninserted(x, y)
             /\ Unreceived(x, y)' <=> Unreceived(x, y)
  <2>1. CASE x = n
    BY <1>1, <1>4, <2>1 DEF Uninserted, Unreceived
  <2>2. CASE x # n
    <3>1. Sent(x, y, "request")' = Sent(x, y, "request") /\ unsent'[x] = unsent[x]
      BY <1>1, <1>4, <2>2
    <3>2. InsertPending(x, y)' <=> InsertPending(x, y)
      BY <1>4, <3>1 DEF InsertPending
    <3>3. Uninserted(x, y)' <=> Uninserted(x, y)
      BY <1>1, <3>2 DEF Uninserted
    <3>4. Unreceived(x, y)' <=> Unreceived(x, y)
      BY <1>1, <3>1 DEF Unreceived
    <3> QED
      BY <3>3, <3>4
  <2> QED
    BY <2>1, <2>2
<1>6. OneUnsettled'
  <2>1. Unsettled(n)' => Unsettled(n)
    BY <1>1, <1>4 DEF Unsettled
  <2>2. \A m \in Nodes \ {n} : Unsettled(m)' => Unsettled(m)
    BY <1>1, <1>4 DEF Unsettled
  <2>3. \A m \in Nodes : Unsettled(m)' => Unsettled(m)
    BY <2>1, <2>2
  <2> QED
    BY <2>3, UnsettledKept DEF Agreed
<1>7. ASSUME NEW x \in Nodes, NEW y \in Nodes, Unreceived(x, y)
      PROVE  Unreceived(x, y)' \/ (cpc[x] = "request" /\ stamp[x] <= clock'[y])
  <2>1. Unreceived(x, y)'
    BY <1>5, <1>7
  <2> QED
    BY <2>1
<1>8. \A y \in Nodes : clock'[y] >= clock[y]
  BY <1>1 DEF TypeOK
<1>9. /\ \A m \in Nodes : cpc'[m] = "read" => cpc[m] = "read"
      /\ \A m \in Nodes : cpc'[m] \in Stamped => cpc[m] \in Stamped /\ stamp'[m] = stamp[m]
      /\ \A m \in Nodes : cpc'[m] \in Made <=> cpc[m] \in Made
      /\ \A m \in Nodes : InCS(m)' => InCS(m)
  BY <1>1 DEF InCS
<1>10. \A x, y \in Nodes : Uninserted(x, y)' <=> Uninserted(x, y)
  BY <1>5
<1> QED
  BY <1>1, <1>6, <1>7, <1>8, <1>9, <1>10, QuietAgreed DEF Running

\* Whoever receives a request sets its clock past it.
LEMMA HandleMsgAgreed ==
  ASSUME TypeOK, TypeOK', Conserved, Conserved', Agreed, Running, NEW n \in Nodes, HandleMsg(n)
  PROVE  Agreed'
<1>1. PICK m : m = Head(channel[n])
  OBVIOUS
<1>2. PICK g : g = [action |-> m.action, node |-> m.node, timestamp |-> m.timestamp, pc |-> "start"]
  OBVIOUS
<1>3. /\ channel[n] # << >> /\ channel' = [channel EXCEPT ![n] = Tail(@)]
      /\ clock' = [clock EXCEPT ![n] = 1 + IF @ > m.timestamp THEN @ ELSE m.timestamp]
      /\ handlers' = [handlers EXCEPT ![n] = @ \cup {g}]
      /\ UNCHANGED <<queue, cpc, stamp, unsent, panic>>
  BY <1>1, <1>2 DEF HandleMsg, clientVars, sharedVars
<1>4. ReceivesFirst(n, m)
  BY <1>1, <1>3, ReceiveEffect
<1>5. /\ m \in Message /\ m = channel[n][1] /\ 1 \in 1..Len(channel[n])
      /\ m.node \in Nodes /\ m.timestamp \in Nat
  <2>1. m \in Message /\ m = channel[n][1] /\ 1 \in 1..Len(channel[n])
    BY <1>4 DEF ReceivesFirst
  <2> QED
    BY <2>1 DEF Message
<1>6. g.action = m.action /\ g.node = m.node /\ g.pc = "start"
  BY <1>2
<1>7. 1 \in Sent(m.node, n, m.action)
  BY <1>5 DEF Sent
<1>8. /\ \A x, y \in Nodes : ~(x = m.node /\ y = n /\ m.action = "request") =>
            (Sent(x, y, "request")' = {} <=> Sent(x, y, "request") = {})
  <2>1. \A x, y \in Nodes : SentN(x, y, "request") = 0 <=> Sent(x, y, "request") = {}
    BY SentTypes
  <2>2. \A x, y \in Nodes : SentN(x, y, "request")' = 0 <=> Sent(x, y, "request")' = {}
    BY <1>4 DEF ReceivesFirst
  <2>3. \A x, y \in Nodes : ~(x = m.node /\ y = n /\ m.action = "request") =>
            SentN(x, y, "request")' = SentN(x, y, "request")
    BY <1>4 DEF ReceivesFirst
  <2> QED
    BY <2>1, <2>2, <2>3
<1>9. /\ handlers'[n] = handlers[n] \cup {g}
      /\ \A y \in Nodes \ {n} : handlers'[y] = handlers[y]
  BY <1>3 DEF TypeOK
<1>10. \A x, y \in Nodes : ~(x = m.node /\ y = n /\ m.action = "request") =>
            Handled(x, y, "request")' = Handled(x, y, "request")
  BY <1>6, <1>9 DEF Handled
<1>11. \A y \in Nodes : clock[y] \in Nat /\ clock'[y] >= clock[y]
  <2>1. clock \in [Nodes -> Nat]
    BY DEF TypeOK
  <2> QED
    BY <1>3, <1>5, <2>1
<1>12. ASSUME m.action = "request"
       PROVE  /\ cpc[m.node] = "request" /\ stamp[m.node] <= clock'[n] /\ m.node # n
              /\ Sent(m.node, n, "request") # {} /\ g \in Handled(m.node, n, "request")'
  <2>1. PICK x \in Nodes : x = m.node
    BY <1>5
  <2>2. 1 \in Sent(x, n, "request")
    BY <1>7, <1>12, <2>1
  <2>3. channel[n][1].timestamp = stamp[x]
    BY <2>2 DEF Conserved, Stamps
  <2>4. SentN(x, n, "request") \in Nat /\ SentN(x, n, "request") # 0
    BY <2>2, SentTypes
  <2>5. Pending(x, n) # 0
    <3>1. /\ HandledN(x, n, "request") \in Nat
          /\ SentN(n, x, "ack") \in Nat /\ HandledN(n, x, "ack") \in Nat
      BY PendingType DEF Conserved
    <3> QED
      BY <2>4, <3>1 DEF Pending
  <2>6. cpc[x] = "request" /\ x # n
    BY <2>5, AtMostOnePending DEF Conserved
  <2>7. stamp[x] <= clock'[n]
    <3>1. clock'[n] = 1 + IF clock[n] > m.timestamp THEN clock[n] ELSE m.timestamp
      BY <1>3 DEF TypeOK
    <3>2. stamp[x] = m.timestamp
      BY <1>5, <2>3
    <3> QED
      BY <1>5, <1>11, <3>1, <3>2
  <2>8. g \in Handled(x, n, "request")'
    BY <1>6, <1>9, <1>12, <2>1 DEF Handled
  <2> QED
    BY <2>1, <2>2, <2>6, <2>7, <2>8
<1>13. ASSUME NEW x \in Nodes, NEW y \in Nodes
       PROVE  Uninserted(x, y)' <=> Uninserted(x, y)
  <2>1. CASE x = m.node /\ y = n /\ m.action = "request"
    <3>1. Uninserted(x, y)
      BY <1>12, <2>1 DEF Uninserted, InsertPending
    <3>2. \E h \in Handled(x, y, "request")' : h.pc = "start"
      BY <1>6, <1>12, <2>1
    <3>3. Uninserted(x, y)'
      BY <1>3, <1>12, <2>1, <3>2 DEF Uninserted, InsertPending
    <3> QED
      BY <3>1, <3>3
  <2>2. CASE ~(x = m.node /\ y = n /\ m.action = "request")
    <3>1. InsertPending(x, y)' <=> InsertPending(x, y)
      BY <1>3, <1>8, <1>10, <2>2 DEF InsertPending
    <3> QED
      BY <1>3, <3>1 DEF Uninserted
  <2> QED
    BY <2>1, <2>2
<1>14. ASSUME NEW x \in Nodes, NEW y \in Nodes, Unreceived(x, y)
       PROVE  Unreceived(x, y)' \/ (cpc[x] = "request" /\ stamp[x] <= clock'[y])
  <2>1. CASE x = m.node /\ y = n /\ m.action = "request"
    BY <1>12, <2>1
  <2>2. CASE ~(x = m.node /\ y = n /\ m.action = "request")
    <3>1. Sent(x, y, "request")' = {} <=> Sent(x, y, "request") = {}
      BY <1>8, <2>2
    <3>2. Unreceived(x, y)'
      BY <1>3, <1>14, <3>1 DEF Unreceived
    <3> QED
      BY <3>2
  <2> QED
    BY <2>1, <2>2
<1>15. OneUnsettled'
  <2>1. ASSUME NEW x \in Nodes, Unsettled(x)' PROVE Unsettled(x)
    <3>1. CASE x = m.node /\ m.action = "request"
      BY <1>12, <3>1 DEF Unsettled
    <3>2. CASE ~(x = m.node /\ m.action = "request")
      <4>1. \A y \in Nodes : /\ Sent(x, y, "request")' = {} <=> Sent(x, y, "request") = {}
                            /\ Handled(x, y, "request")' = Handled(x, y, "request")
        BY <1>8, <1>10, <3>2
      <4> QED
        BY <1>3, <2>1, <4>1 DEF Unsettled
    <3> QED
      BY <3>1, <3>2
  <2> QED
    BY <2>1, UnsettledKept DEF Agreed
<1>16. /\ \A x \in Nodes : cpc'[x] = "read" => cpc[x] = "read"
       /\ \A x \in Nodes : cpc'[x] \in Stamped => cpc[x] \in Stamped /\ stamp'[x] = stamp[x]
       /\ \A x \in Nodes : cpc'[x] \in Made <=> cpc[x] \in Made
       /\ \A x \in Nodes : InCS(x)' => InCS(x)
  BY <1>3 DEF InCS
<1>17. \A x, y \in Nodes : Uninserted(x, y)' <=> Uninserted(x, y)
  BY <1>13
<1> QED
  BY <1>3, <1>11, <1>14, <1>15, <1>16, <1>17, QuietAgreed DEF Running

-----------------------------------------------------------------------------
(***************************************************************************)
(* Requests that are spaced apart: the queues and the critical section.    *)
(***************************************************************************)

LEMMA Counts ==
  ASSUME TypeOK, TypeOK', Conserved, Conserved', NEW d \in Nodes
  PROVE  /\ Released(d) \in Nat /\ Released(d)' \in Nat
         /\ IsFiniteSet(Present(d)) /\ Cardinality(Present(d)) \in Nat
         /\ Len(queue[d]) = Released(d) + Cardinality(Present(d))
         /\ Len(queue'[d]) = Released(d)' + Cardinality(Present(d)')
<1>1. Released(d) \in Nat /\ IsFiniteSet(Present(d)) /\ Cardinality(Present(d)) \in Nat
  BY ReleasedType DEF Conserved
<1>2. Released(d)' \in Nat
  BY ReleasedTypeNext DEF Conserved
<1>3. Len(queue[d]) = Released(d) + Cardinality(Present(d))
  BY DEF Conserved, Lengths
<1>4. Len(queue'[d]) = Released(d)' + Cardinality(Present(d)')
  BY DEF Conserved, Lengths
<1> QED
  BY <1>1, <1>2, <1>3, <1>4

\* A node at the head of its own queue has the earliest of the requests that are there.
LEMMA HeadIsFirst ==
  ASSUME TypeOK, Conserved, Agreed, NEW n \in Nodes, Len(queue[n]) # 0, queue[n][1].nodeId = n
  PROVE  /\ Released(n) = 0 /\ queue[n][1] = ElemOf(n) /\ n \in Present(n)
         /\ \A m \in Present(n) \ {n} : stamp[n] < stamp[m]
<1>1. Len(queue[n]) \in Nat /\ 1 \in 1..Len(queue[n])
  BY LenProperties DEF TypeOK
<1>2. Released(n) \in Nat
  BY ReleasedType DEF Conserved
<1>3. Released(n) = 0
  BY <1>1, <1>2 DEF Agreed, ReleasedFirst
<1>4. PICK x \in Present(n) : queue[n][1] = ElemOf(x)
  BY <1>1, <1>3 DEF Agreed, ReleasedFirst
<1>5. x = n
  BY <1>4 DEF ElemOf
<1>6. ASSUME NEW m \in Present(n) \ {n} PROVE stamp[n] < stamp[m]
  <2>1. PICK i \in 1..Len(queue[n]) : queue[n][i] = ElemOf(m)
    BY DEF Agreed, ReleasedFirst
  <2>2. queue[n][i].nodeId = m /\ queue[n][i].timestamp = stamp[m] /\ queue[n][1].timestamp = stamp[n]
    BY <1>4, <1>5, <2>1 DEF ElemOf
  <2>3. 1 < i
    BY <1>1, <2>2
  <2>4. queue[n][1].timestamp < queue[n][i].timestamp
    BY <1>1, <2>3 DEF Agreed, Sorted
  <2> QED
    BY <2>2, <2>4
<1> QED
  BY <1>3, <1>4, <1>5, <1>6

\* Two nodes that are at the head of their own queues do not have each other's requests.
LEMMA HeadsDiffer ==
  ASSUME TypeOK, Conserved, Agreed, NEW m \in Nodes, NEW n \in Nodes,
         Len(queue[m]) # 0, queue[m][1].nodeId = m, Len(queue[n]) # 0, queue[n][1].nodeId = n,
         m \in Present(n), n \in Present(m)
  PROVE  m = n
<1> SUFFICES ASSUME m # n PROVE FALSE
  OBVIOUS
<1>1. stamp[n] < stamp[m]
  BY HeadIsFirst
<1>2. stamp[m] < stamp[n]
  BY HeadIsFirst
<1>3. stamp[m] \in Nat /\ stamp[n] \in Nat
  BY DEF TypeOK
<1> QED
  BY <1>1, <1>2, <1>3

LEMMA PresentWhileInCS ==
  ASSUME NEW m \in Nodes, InCS(m)
  PROVE  \A d \in Nodes : m \in Present(d) /\ ~Uninserted(m, d)
  BY DEF InCS, Present, Uninserted

\* Who enters is alone: the other's request would come before its own in its queue, and its
\* own before the other's in the other's queue.
LEMMA EnterAgreed ==
  ASSUME TypeOK, TypeOK', Conserved, Conserved', Agreed, Running, NEW n \in Nodes, EnterCS(n)
  PROVE  Agreed'
<1>1. /\ cpc[n] = "request" /\ cpc'[n] = "cs" /\ unsent[n] = {}
      /\ reqAckCount[n] >= Cardinality(Nodes)
      /\ \A m \in Nodes \ {n} : cpc'[m] = cpc[m] /\ unsent'[m] = unsent[m]
      /\ UNCHANGED <<clock, queue, channel, handlers, stamp, unsent>>
  BY DEF EnterCS, Go, TypeOK
<1>2. \A d \in Nodes : /\ ~Uninserted(n, d) /\ n \in Present(d)
                      /\ Sent(n, d, "request") = {} /\ Handled(n, d, "request") = {}
  BY <1>1, AllAnswered
<1>3. Len(queue[n]) # 0
  <2>1. Len(queue[n]) = Released(n) + Cardinality(Present(n)) /\ Released(n) \in Nat
        /\ IsFiniteSet(Present(n)) /\ Cardinality(Present(n)) \in Nat
    BY Counts
  <2>2. Cardinality(Present(n)) # 0
    BY <1>2, <2>1, FS_EmptySet
  <2> QED
    BY <2>1, <2>2
<1>4. queue[n] # << >> /\ Head(queue[n]) = queue[n][1]
  BY <1>3, EmptySeq, HeadTailProperties DEF TypeOK
<1>5. queue[n][1].nodeId = n
  BY <1>4 DEF EnterCS, Peek
<1>6. ASSUME NEW m \in Nodes, InCS(m) PROVE m = n
  <2>1. Len(queue[m]) # 0 /\ queue[m][1].nodeId = m
    <3>1. queue[m] # << >> /\ queue[m][1].nodeId = m
      BY <1>6 DEF Agreed, OneInCS
    <3> QED
      BY <3>1, EmptySeq DEF TypeOK
  <2> QED
    BY <1>2, <1>3, <1>5, <1>6, <2>1, HeadsDiffer, PresentWhileInCS
<1>7. holder = NoHolder
  <2> SUFFICES ASSUME holder # NoHolder PROVE FALSE
    OBVIOUS
  <2>1. holder \in Nodes
    BY DEF TypeOK
  <2>2. cpc[holder] = "cs"
    BY <2>1 DEF Conserved, HolderInCS, Running
  <2> QED
    BY <1>1, <1>6, <2>1, <2>2 DEF InCS
<1>8. panic' = panic
  BY <1>4, <1>7 DEF EnterCS
<1>9. \A d \in Nodes : ~Uninserted(n, d)'
  BY <1>1 DEF Uninserted
<1>10. \A m \in Nodes \ {n} :
        /\ \A d \in Nodes : Unreceived(m, d)' <=> Unreceived(m, d)
        /\ \A d \in Nodes : Uninserted(m, d)' <=> Uninserted(m, d)
  BY <1>1, OthersSame
<1>11. OneUnsettled'
  <2>1. \A d, a : Sent(n, d, a)' = Sent(n, d, a) /\ Handled(n, d, a)' = Handled(n, d, a)
    BY <1>1, MessagesSame
  <2>2. Unsettled(n)' => Unsettled(n)
    BY <1>1, <2>1 DEF Unsettled
  <2> QED
    BY <1>1, <2>2, ClientUnsettled
<1>12. Known'
  <2>1. ASSUME NEW m \in Nodes, NEW d \in Nodes, Unreceived(m, d)
        PROVE  Unreceived(m, d)' \/ (cpc[m] = "request" /\ stamp[m] <= clock'[d])
    <3>1. CASE m = n
      BY <1>1, <1>2, <2>1, <3>1 DEF Unreceived
    <3>2. CASE m # n
      <4>1. Unreceived(m, d)'
        BY <1>10, <2>1, <3>2
      <4> QED
        BY <4>1
    <3> QED
      BY <3>1, <3>2
  <2>2. ASSUME NEW m \in Nodes, NEW d \in Nodes, Uninserted(m, d)'
        PROVE  Uninserted(m, d) /\ stamp'[m] = stamp[m]
    BY <1>1, <1>9, <1>10, <2>2
  <2>3. \A m \in Nodes : cpc'[m] = "read" => cpc[m] = "read"
    BY <1>1
  <2>4. \A m \in Nodes : cpc'[m] \in Stamped => cpc[m] \in Stamped /\ stamp'[m] = stamp[m]
    BY <1>1 DEF Stamped
  <2>5. \A y \in Nodes : clock'[y] >= clock[y]
    BY <1>1 DEF TypeOK
  <2> QED
    BY <1>1, <2>1, <2>2, <2>3, <2>4, <2>5, KnownKept DEF Agreed, Conserved
<1>13. \A d \in Nodes : Present(d)' = Present(d)
  BY <1>1, <1>2, <1>9, <1>10 DEF Present
<1>14. Sorted' /\ ReleasedFirst' /\ \A d \in Nodes : Released(d)' = Released(d)
  BY <1>1, <1>13, QueuesKept DEF Agreed
<1>15. OneInCS'
  <2>1. \A m \in Nodes : InCS(m)' => m = n
    BY <1>1, <1>6 DEF InCS
  <2>2. Released(n)' = 0 /\ queue[n] # << >> /\ queue[n][1].nodeId = n
    BY <1>3, <1>4, <1>5, <1>14, HeadIsFirst
  <2>3. queue'[n] # << >> /\ queue'[n][1].nodeId = n
    BY <1>1, <2>2
  <2> QED
    BY <2>1, <2>2, <2>3 DEF OneInCS
<1> QED
  BY <1>8, <1>11, <1>12, <1>14, <1>15 DEF Agreed, MutualExclusion

LEMMA UninsertedIsUnsettled ==
  ASSUME NEW m, NEW d \in Nodes, Uninserted(m, d)
  PROVE  Unsettled(m) /\ cpc[m] \in {"stamp", "insert", "lockPending", "request"}
BY DEF Uninserted, InsertPending, Unsettled

\* A request is inserted at the end of a queue: it is the only one that is not settled.
LEMMA InsertAgreed ==
  ASSUME TypeOK, TypeOK', Conserved, Conserved', Agreed, Running,
         NEW d \in Nodes, NEW x \in Nodes, NEW e \in Elem, e = ElemOf(x), QueueInsert(d, e),
         UNCHANGED <<clock, stamp>>,
         \A m \in Nodes : cpc'[m] = cpc[m] \/ (cpc[m] = "insert" /\ cpc'[m] = "lockPending"),
         \A m, y \in Nodes : Unreceived(m, y) => Unreceived(m, y)',
         \A m \in Nodes : Unsettled(m)' => Unsettled(m),
         Uninserted(x, d), ~Uninserted(x, d)',
         \A m, y \in Nodes : Uninserted(m, y)' => Uninserted(m, y),
         Present(d)' = Present(d) \cup {x}, x \notin Present(d),
         \A y \in Nodes \ {d} : Present(y)' = Present(y)
  PROVE  Agreed'
<1>1. e.nodeId = x /\ e.timestamp = stamp[x] /\ stamp[x] \in Nat
  BY DEF ElemOf, TypeOK
<1>2. \A i \in 1..Len(queue[d]) : queue[d][i].timestamp < stamp[x]
  BY DEF Agreed, Known
<1>3. \A i \in 1..Len(queue[d]) : queue[d][i].timestamp < e.timestamp /\ queue[d][i].timestamp # e.timestamp
  <2>1. \A i \in 1..Len(queue[d]) : queue[d][i].timestamp \in Nat
    BY ElementType
  <2> QED
    BY <1>1, <1>2, <2>1
<1>4. queue[d] \in Seq(Elem)
  BY DEF TypeOK
<1>5. /\ panic' = panic /\ queue'[d] = Append(queue[d], e)
      /\ \A y \in Nodes \ {d} : queue'[y] = queue[y]
      /\ \A y \in Nodes : \A i \in 1..Len(queue'[y]) :
              \/ \E j \in 1..Len(queue[y]) : queue'[y][i] = queue[y][j]
              \/ y = d /\ queue'[y][i] = e
  <2>1. Insert(queue[d], e) = Append(queue[d], e)
    BY <1>3, <1>4, InsertedLast
  <2>2. \A i \in 1..Len(queue[d]) : queue[d][i].nodeId = e.nodeId => queue[d][i].timestamp # e.timestamp
    BY <1>3
  <2>3. /\ panic' = panic /\ queue'[d] = Insert(queue[d], e)
        /\ \A y \in Nodes \ {d} : queue'[y] = queue[y]
        /\ \A y \in Nodes : \A i \in 1..Len(queue'[y]) :
              \/ \E j \in 1..Len(queue[y]) : queue'[y][i] = queue[y][j]
              \/ y = d /\ queue'[y][i] = e
    BY <2>2, QueueInserted
  <2> QED
    BY <2>1, <2>3
<1>6. /\ Len(queue[d]) \in Nat /\ Len(queue'[d]) = Len(queue[d]) + 1
      /\ \A i \in 1..Len(queue[d]) : queue'[d][i] = queue[d][i]
      /\ queue'[d][Len(queue[d]) + 1] = e
  BY <1>4, <1>5, AppendProperties, LenProperties
<1>7. cpc[x] \in {"stamp", "insert", "lockPending", "request"} /\ Unsettled(x)
  BY UninsertedIsUnsettled
<1>8. ASSUME NEW m \in Nodes PROVE cpc'[m] # "read" /\ ~Uninserted(m, d)'
  <2>1. CASE Unsettled(m)
    <3>1. m = x
      BY <1>7, <2>1 DEF Agreed, OneUnsettled
    <3> QED
      BY <1>7, <3>1
  <2>2. CASE ~Unsettled(m)
    <3>1. cpc[m] # "read"
      BY <2>2 DEF Unsettled
    <3>2. ~Uninserted(m, d)
      BY <2>2, UninsertedIsUnsettled
    <3> QED
      BY <3>1, <3>2
  <2> QED
    BY <2>1, <2>2
<1>9. OneUnsettled'
  BY UnsettledKept DEF Agreed
<1>10. Known'
  <2>1. \A y \in Nodes : clock'[y] >= clock[y]
    BY DEF TypeOK
  <2>2. \A m, y \in Nodes : Unreceived(m, y) =>
            Unreceived(m, y)' \/ (cpc[m] = "request" /\ stamp[m] <= clock'[y])
    OBVIOUS
  <2>3. \A m \in Nodes : cpc'[m] = "read" => cpc[m] = "read"
    OBVIOUS
  <2>4. \A m \in Nodes : cpc'[m] \in Stamped => cpc[m] \in Stamped /\ stamp'[m] = stamp[m]
    BY DEF Stamped
  <2>5. \A m, y \in Nodes : Uninserted(m, y)' => Uninserted(m, y) /\ stamp'[m] = stamp[m]
    OBVIOUS
  <2>6. \A y \in Nodes : \A i \in 1..Len(queue'[y]) :
            \/ \E j \in 1..Len(queue[y]) : queue'[y][i] = queue[y][j]
            \/ \E z \in Nodes : /\ queue'[y][i] = ElemOf(z) /\ cpc[z] \in Stamped
                                /\ \A m \in Nodes : cpc'[m] # "read" /\ ~Uninserted(m, y)'
    <3>1. cpc[x] \in Stamped
      BY <1>7 DEF Stamped
    <3> QED
      BY <1>5, <1>8, <3>1
  <2> QED
    BY <2>1, <2>2, <2>3, <2>4, <2>5, <2>6, KnownKept DEF Agreed, Conserved
<1>11. \A y \in Nodes : Released(y)' = Released(y) /\ Released(y) \in Nat
  <2> SUFFICES ASSUME NEW y \in Nodes PROVE Released(y)' = Released(y) /\ Released(y) \in Nat
    OBVIOUS
  <2>1. CASE y = d
    <3>1. IsFiniteSet(Present(d)) /\ x \notin Present(d) /\ Present(d)' = Present(d) \cup {x}
      BY Counts
    <3>2. Cardinality(Present(d) \cup {x}) = Cardinality(Present(d)) + 1
      BY <3>1, FS_AddElement
    <3>3. Cardinality(Present(d)') = Cardinality(Present(d)) + 1
      BY <3>1, <3>2
    <3>4. /\ Released(d) \in Nat /\ Released(d)' \in Nat /\ Cardinality(Present(d)) \in Nat
          /\ Len(queue[d]) = Released(d) + Cardinality(Present(d))
          /\ Len(queue'[d]) = Released(d)' + Cardinality(Present(d)')
      BY Counts
    <3>5. Released(d)' = Released(d)
      BY <1>6, <3>3, <3>4
    <3> QED
      BY <2>1, <3>4, <3>5
  <2>2. CASE y # d
    <3>1. queue'[y] = queue[y] /\ Present(y)' = Present(y)
      BY <1>5, <2>2
    <3> QED
      BY <3>1, Counts
  <2> QED
    BY <2>1, <2>2
<1>12. Sorted'
  <2> SUFFICES ASSUME NEW y \in Nodes, NEW i \in 1..Len(queue'[y]), NEW j \in 1..Len(queue'[y]), i < j
               PROVE  queue'[y][i].timestamp < queue'[y][j].timestamp
    BY DEF Sorted
  <2>1. CASE y # d
    BY <1>5, <2>1 DEF Agreed, Sorted
  <2>2. CASE y = d /\ j <= Len(queue[d])
    <3>1. i \in 1..Len(queue[d]) /\ j \in 1..Len(queue[d])
      BY <1>6, <2>2
    <3>2. queue[d][i].timestamp < queue[d][j].timestamp
      BY <3>1 DEF Agreed, Sorted
    <3> QED
      BY <1>6, <2>2, <3>1, <3>2
  <2>3. CASE y = d /\ ~(j <= Len(queue[d]))
    <3>1. i \in 1..Len(queue[d]) /\ j = Len(queue[d]) + 1
      BY <1>6, <2>3
    <3> QED
      BY <1>3, <1>6, <2>3, <3>1
  <2> QED
    BY <2>1, <2>2, <2>3
<1>13. \A m \in Nodes : ElemOf(m)' = ElemOf(m)
  BY DEF ElemOf
<1>14. Len(queue[d]) + 1 > Released(d) /\ Len(queue[d]) + 1 \in 1..Len(queue'[d])
  BY <1>6, Counts
<1>15. ReleasedFirst'
  <2>1. ASSUME NEW y \in Nodes, NEW m \in Present(y)'
        PROVE  \E i \in 1..Len(queue'[y]) : i > Released(y)' /\ queue'[y][i] = ElemOf(m)'
    <3>1. m \in Nodes
      BY DEF Present
    <3>2. CASE y = d /\ m = x
      BY <1>6, <1>11, <1>13, <1>14, <3>2
    <3>3. CASE ~(y = d /\ m = x)
      <4>1. m \in Present(y)
        BY <2>1, <3>3
      <4>2. PICK i \in 1..Len(queue[y]) : i > Released(y) /\ queue[y][i] = ElemOf(m)
        BY <4>1 DEF Agreed, ReleasedFirst
      <4>3. i \in 1..Len(queue'[y]) /\ queue'[y][i] = queue[y][i]
        <5>1. CASE y = d
          BY <1>6, <5>1
        <5>2. CASE y # d
          BY <1>5, <5>2
        <5> QED
          BY <5>1, <5>2
      <4> QED
        BY <1>11, <1>13, <3>1, <4>2, <4>3
    <3> QED
      BY <3>2, <3>3
  <2>2. ASSUME NEW y \in Nodes, NEW i \in 1..Len(queue'[y])
        PROVE  /\ i > Released(y)' => \E m \in Present(y)' : queue'[y][i] = ElemOf(m)'
               /\ queue'[y][i].nodeId = y => i > Released(y)'
    <3>1. CASE y = d /\ i = Len(queue[d]) + 1
      <4>1. x \in Present(d)' /\ queue'[y][i] = ElemOf(x)'
        BY <1>6, <1>13, <3>1
      <4>2. i > Released(y)'
        BY <1>11, <1>14, <3>1
      <4> QED
        BY <3>1, <4>1, <4>2
    <3>2. CASE ~(y = d /\ i = Len(queue[d]) + 1)
      <4>1. i \in 1..Len(queue[y]) /\ queue'[y][i] = queue[y][i]
        <5>1. CASE y = d
          BY <1>6, <3>2, <5>1
        <5>2. CASE y # d
          BY <1>5, <5>2
        <5> QED
          BY <5>1, <5>2
      <4>2. /\ i > Released(y) => \E m \in Present(y) : queue[y][i] = ElemOf(m)
            /\ queue[y][i].nodeId = y => i > Released(y)
        BY <4>1 DEF Agreed, ReleasedFirst
      <4>3. Present(y) \subseteq Present(y)' /\ Present(y) \subseteq Nodes
        <5>1. CASE y = d
          BY <5>1 DEF Present
        <5>2. CASE y # d
          <6>1. Present(y)' = Present(y)
            BY <5>2
          <6> QED
            BY <6>1 DEF Present
        <5> QED
          BY <5>1, <5>2
      <4> QED
        BY <1>11, <1>13, <4>1, <4>2, <4>3
    <3> QED
      BY <3>1, <3>2
  <2> QED
    BY <2>1, <2>2 DEF ReleasedFirst
<1>16. OneInCS'
  <2>1. \A m \in Nodes : InCS(m)' => InCS(m)
    BY DEF InCS
  <2>2. ASSUME NEW m \in Nodes, InCS(m)
        PROVE  Released(m)' = 0 /\ queue'[m] # << >> /\ queue'[m][1].nodeId = m
    <3>1. Released(m) = 0 /\ queue[m] # << >> /\ queue[m][1].nodeId = m
      BY <2>2 DEF Agreed, OneInCS
    <3>2. CASE m = d
      <4>1. 1 \in 1..Len(queue[d])
        BY <1>4, <1>6, <3>1, <3>2, EmptySeq
      <4>2. Len(queue'[d]) # 0
        BY <1>6
      <4>3. queue'[d] # << >>
        BY <4>2
      <4> QED
        BY <1>6, <1>11, <3>1, <3>2, <4>1, <4>3
    <3>3. CASE m # d
      BY <1>5, <1>11, <3>1, <3>3
    <3> QED
      BY <3>2, <3>3
  <2> QED
    BY <2>1, <2>2 DEF OneInCS, Agreed
<1>17. MutualExclusion'
  BY <1>5 DEF MutualExclusion, Running
<1> QED
  BY <1>9, <1>10, <1>12, <1>15, <1>16, <1>17 DEF Agreed

LEMMA InsertOwnAgreed ==
  ASSUME TypeOK, TypeOK', Conserved, Conserved', Agreed, Running, NEW n \in Nodes, InsertOwn(n)
  PROVE  Agreed'
<1>1. PICK e : e = [nodeId |-> n, timestamp |-> stamp[n]]
  OBVIOUS
<1>2. /\ cpc[n] = "insert" /\ cpc'[n] = "lockPending" /\ QueueInsert(n, e)
      /\ \A m \in Nodes \ {n} : cpc'[m] = cpc[m] /\ unsent'[m] = unsent[m]
      /\ UNCHANGED <<clock, channel, handlers, stamp, unsent>>
  BY <1>1 DEF InsertOwn, Go, TypeOK
<1>3. e \in Elem /\ e = ElemOf(n)
  BY <1>1, ElemType DEF TypeOK, ElemOf
<1>4. /\ \A d \in Nodes : Uninserted(n, d) /\ (d # n => Uninserted(n, d)')
      /\ ~Uninserted(n, n)'
  BY <1>2 DEF Uninserted
<1>5. \A m \in Nodes \ {n} :
        /\ Unsettled(m)' <=> Unsettled(m)
        /\ \A d \in Nodes : Unreceived(m, d)' <=> Unreceived(m, d)
        /\ \A d \in Nodes : Uninserted(m, d)' <=> Uninserted(m, d)
  BY <1>2, OthersSame
<1>6. \A d \in Nodes : /\ Present(d)' = IF d = n THEN Present(d) \cup {n} ELSE Present(d)
                       /\ n \notin Present(d)
  BY <1>2, <1>4, <1>5 DEF Present
<1>7. \A m \in Nodes : Unsettled(m)' => Unsettled(m)
  <2>1. Unsettled(n)
    BY <1>2 DEF Unsettled
  <2> QED
    BY <1>5, <2>1
<1>8. ASSUME NEW m \in Nodes, NEW d \in Nodes, Unreceived(m, d) PROVE Unreceived(m, d)'
  <2>1. CASE m = n
    BY <1>2, <1>8, <2>1 DEF Unreceived
  <2>2. CASE m # n
    BY <1>5, <1>8, <2>2
  <2> QED
    BY <2>1, <2>2
<1>9. ASSUME NEW m \in Nodes, NEW d \in Nodes, Uninserted(m, d)' PROVE Uninserted(m, d)
  <2>1. CASE m = n
    BY <1>4, <2>1
  <2>2. CASE m # n
    BY <1>5, <1>9, <2>2
  <2> QED
    BY <2>1, <2>2
<1>10. \A m \in Nodes : cpc'[m] = cpc[m] \/ (cpc[m] = "insert" /\ cpc'[m] = "lockPending")
  BY <1>2
<1>11. /\ Present(n)' = Present(n) \cup {n} /\ n \notin Present(n)
       /\ \A y \in Nodes \ {n} : Present(y)' = Present(y)
  BY <1>6
<1> QED
  BY <1>2, <1>3, <1>4, <1>7, <1>8, <1>9, <1>10, <1>11, InsertAgreed

LEMMA InsertRequestAgreed ==
  ASSUME TypeOK, TypeOK', Conserved, Conserved', Agreed, Running,
         NEW n \in Nodes, NEW h \in handlers[n], InsertRequest(n, h)
  PROVE  Agreed'
<1>1. PICK g : g = [h EXCEPT !.pc = "try"]
  OBVIOUS
<1>2. PICK x \in Nodes : x = h.node
  BY PlacesOfHandler DEF Conserved
<1>3. PICK e : e = [nodeId |-> h.node, timestamp |-> h.timestamp]
  OBVIOUS
<1>4. /\ h.action = "request" /\ h.pc = "start" /\ "try" \in Places("request") /\ "try" \in PCs
      /\ QueueInsert(n, e) /\ Become(n, h, "try") /\ x # n
      /\ UNCHANGED <<clock, channel, cpc, stamp, unsent>>
  BY <1>2, <1>3, PlacesOfHandler DEF Conserved, InsertRequest, Places, PCs, clientVars
<1>5. Moves(n, h, "try", g)
  BY <1>1, <1>4, MoveEffect DEF Conserved
<1>6. Pending(x, n) = 1 /\ HandledN(x, n, "request") = 1 /\ Handled(x, n, "request") = {h}
  BY <1>2, <1>4, OnlyHandler DEF Conserved
<1>7. cpc[x] = "request" /\ n \notin unsent[x] /\ Sent(x, n, "request") = {}
  <2>1. /\ SentN(x, n, "request") \in Nat /\ HandledN(x, n, "request") \in Nat
        /\ SentN(n, x, "ack") \in Nat /\ HandledN(n, x, "ack") \in Nat
    BY PendingType DEF Conserved
  <2>2. SentN(x, n, "request") = 0
    BY <1>6, <2>1 DEF Pending
  <2>3. Sent(x, n, "request") = {}
    BY <2>2, SentTypes
  <2> QED
    BY <1>6, <2>3, AtMostOnePending DEF Conserved
<1>8. /\ \A y, z : Sent(y, z, "request")' = Sent(y, z, "request")
      /\ \A y, z \in Nodes : ~(y = x /\ z = n) => Handled(y, z, "request")' = Handled(y, z, "request")
      /\ Handled(x, n, "request")' = {g} /\ g.pc = "try"
  BY <1>2, <1>4, <1>5 DEF Sent, Moves
<1>9. /\ Uninserted(x, n) /\ ~Uninserted(x, n)'
      /\ \A y, z \in Nodes : ~(y = x /\ z = n) => Uninserted(y, z)' = Uninserted(y, z)
  <2>1. InsertPending(x, n) /\ ~InsertPending(x, n)'
    BY <1>4, <1>6, <1>7, <1>8 DEF InsertPending
  <2>2. \A y, z \in Nodes : ~(y = x /\ z = n) => InsertPending(y, z)' = InsertPending(y, z)
    BY <1>4, <1>8 DEF InsertPending
  <2> QED
    BY <1>4, <1>7, <2>1, <2>2 DEF Uninserted
<1>10. /\ Present(n)' = Present(n) \cup {x} /\ x \notin Present(n)
       /\ \A y \in Nodes \ {n} : Present(y)' = Present(y)
  <2>1. Present(n)' = Present(n) \cup {x} /\ x \notin Present(n)
    BY <1>4, <1>7, <1>9 DEF Present
  <2>2. \A y \in Nodes \ {n} : Present(y)' = Present(y)
    BY <1>4, <1>9 DEF Present
  <2> QED
    BY <2>1, <2>2
<1>11. e \in Elem /\ e = ElemOf(x)
  <2>1. h.timestamp = stamp[x]
    BY <1>4, <1>6 DEF Conserved, Stamps
  <2>2. stamp[x] \in Nat
    BY DEF TypeOK
  <2> QED
    BY <1>2, <1>3, <2>1, <2>2 DEF Elem, ElemOf
<1>12. \A m, y \in Nodes : Unreceived(m, y) => Unreceived(m, y)'
  BY <1>4, <1>8 DEF Unreceived
<1>13. \A m \in Nodes : Unsettled(m)' => Unsettled(m)
  <2>1. Unsettled(x)
    BY <1>4, <1>6 DEF Unsettled
  <2>2. \A m \in Nodes \ {x} : \A y \in Nodes :
          /\ Sent(m, y, "request")' = Sent(m, y, "request")
          /\ Handled(m, y, "request")' = Handled(m, y, "request")
    BY <1>8
  <2>3. \A m \in Nodes \ {x} : Unsettled(m)' => Unsettled(m)
    BY <1>4, <2>2 DEF Unsettled
  <2> QED
    BY <2>1, <2>3
<1>14. \A m, y \in Nodes : Uninserted(m, y)' => Uninserted(m, y)
  BY <1>9
<1>15. \A m \in Nodes : cpc'[m] = cpc[m] \/ (cpc[m] = "insert" /\ cpc'[m] = "lockPending")
  BY <1>4
<1> QED
  BY <1>4, <1>9, <1>10, <1>11, <1>12, <1>13, <1>14, <1>15, InsertAgreed

\* The request of the node in the critical section is the first that every node keeps.
LEMMA HolderIsFirst ==
  ASSUME TypeOK, Conserved, Agreed, NEW n \in Nodes, InCS(n), NEW d \in Nodes
  PROVE  /\ Released(d) \in Nat /\ Released(d) + 1 \in 1..Len(queue[d])
         /\ queue[d][Released(d) + 1] = ElemOf(n)
         /\ \A i \in 1..Len(queue[d]) : queue[d][i] = ElemOf(n) => i = Released(d) + 1
<1>1. /\ Released(d) \in Nat /\ Len(queue[d]) \in Nat /\ Len(queue[n]) \in Nat
      /\ \A m \in Nodes : stamp[m] \in Nat
  <2>1. Released(d) \in Nat
    BY ReleasedType DEF Conserved
  <2> QED
    BY <2>1, LenProperties DEF TypeOK
<1>2. Len(queue[n]) # 0 /\ queue[n][1].nodeId = n /\ 1 \in 1..Len(queue[n])
  <2>1. queue[n] # << >> /\ queue[n][1].nodeId = n
    BY DEF Agreed, OneInCS
  <2>2. Len(queue[n]) # 0
    BY <2>1, EmptySeq DEF TypeOK
  <2> QED
    BY <1>1, <2>1, <2>2
<1>3. queue[n][1] = ElemOf(n) /\ \A m \in Present(n) \ {n} : stamp[n] < stamp[m]
  BY <1>2, HeadIsFirst
<1>4. n \in Present(d)
  BY PresentWhileInCS
<1>5. PICK j \in 1..Len(queue[d]) : j > Released(d) /\ queue[d][j] = ElemOf(n)
  BY <1>4 DEF Agreed, ReleasedFirst
<1>6. j = Released(d) + 1
  <2> SUFFICES ASSUME j # Released(d) + 1 PROVE FALSE
    OBVIOUS
  <2>1. PICK k \in 1..Len(queue[d]) : k = Released(d) + 1 /\ k < j /\ k > Released(d)
    BY <1>1, <1>5
  <2>2. PICK m \in Present(d) : queue[d][k] = ElemOf(m)
    BY <2>1 DEF Agreed, ReleasedFirst
  <2>3. queue[d][k].timestamp < queue[d][j].timestamp
    BY <2>1 DEF Agreed, Sorted
  <2>4. stamp[m] < stamp[n] /\ m \in Nodes
    BY <1>5, <2>2, <2>3 DEF ElemOf, Present
  <2>5. ~(stamp[n] < stamp[m]) /\ m # n
    BY <1>1, <2>4
  <2>6. CASE m \in Present(n)
    BY <1>3, <2>5, <2>6
  <2>7. CASE m \notin Present(n)
    <3>1. Uninserted(m, n)
      BY <2>2, <2>4, <2>7 DEF Present
    <3>2. queue[n][1].timestamp < stamp[m]
      BY <1>2, <2>4, <3>1 DEF Agreed, Known
    <3> QED
      BY <1>3, <2>5, <3>2 DEF ElemOf
  <2> QED
    BY <2>6, <2>7
<1>7. ASSUME NEW i \in 1..Len(queue[d]), queue[d][i] = ElemOf(n)
      PROVE  i = j
  <2>1. queue[d][i].timestamp = stamp[n] /\ queue[d][j].timestamp = stamp[n]
    BY <1>5, <1>7 DEF ElemOf
  <2>2. ~(i < j)
    BY <1>1, <2>1 DEF Agreed, Sorted
  <2>3. ~(j < i)
    BY <1>1, <2>1 DEF Agreed, Sorted
  <2> QED
    BY <1>1, <2>2, <2>3
<1> QED
  BY <1>1, <1>5, <1>6, <1>7

\* Each node is to release its first request, that of the node that leaves; the leaving node
\* pops it.
LEMMA ExtractOwnAgreed ==
  ASSUME TypeOK, TypeOK', Conserved, Conserved', Agreed, Running, NEW n \in Nodes, ExtractOwn(n)
  PROVE  Agreed'
<1>1. /\ cpc[n] = "extract" /\ cpc'[n] = "release" /\ QueueExtract(n)
      /\ clock'[n] = clock[n] + 1 /\ unsent'[n] = Nodes \ {n}
      /\ \A m \in Nodes \ {n} : /\ cpc'[m] = cpc[m] /\ stamp'[m] = stamp[m]
                                /\ clock'[m] = clock[m] /\ unsent'[m] = unsent[m]
      /\ UNCHANGED <<channel, handlers>>
  BY DEF ExtractOwn, Go, TypeOK
<1>2. \A m \in Nodes : clock'[m] >= clock[m] /\ clock[m] \in Nat
  <2>1. \A m \in Nodes : clock[m] \in Nat
    BY DEF TypeOK
  <2> QED
    BY <1>1, <2>1
<1>3. InCS(n)
  BY <1>1 DEF InCS
<1>4. \A d \in Nodes : /\ Released(d) \in Nat /\ Released(d) + 1 \in 1..Len(queue[d])
                       /\ queue[d][Released(d) + 1] = ElemOf(n)
                       /\ \A i \in 1..Len(queue[d]) : queue[d][i] = ElemOf(n) => i = Released(d) + 1
  BY <1>3, HolderIsFirst
<1>5. Released(n) = 0
  BY <1>3 DEF Agreed, OneInCS
<1>6. Len(queue[n]) # 0
  BY <1>4
<1>7. /\ panic' = panic /\ Len(queue'[n]) = Len(queue[n]) - 1 /\ Len(queue[n]) \in Nat
      /\ \A i \in 1..Len(queue'[n]) :
           i + 1 \in 1..Len(queue[n]) /\ queue'[n][i] = queue[n][i + 1]
      /\ \A d \in Nodes \ {n} : queue'[d] = queue[d]
      /\ \A d \in Nodes : \A i \in 1..Len(queue'[d]) :
           \E j \in 1..Len(queue[d]) : queue'[d][i] = queue[d][j]
  BY <1>1, <1>6, QueueExtracted
<1>8. \A d \in Nodes : ~Uninserted(n, d) /\ ~Uninserted(n, d)'
  BY <1>1 DEF Uninserted
<1>9. \A m \in Nodes \ {n} :
        /\ \A d \in Nodes : Unreceived(m, d)' <=> Unreceived(m, d)
        /\ \A d \in Nodes : Uninserted(m, d)' <=> Uninserted(m, d)
  BY <1>1, OthersSame
<1>10. \A d \in Nodes : Present(d)' = Present(d) \ {n} /\ n \in Present(d)
  BY <1>1, <1>8, <1>9 DEF Present
<1>11. \A m \in Nodes \ {n} : ElemOf(m)' = ElemOf(m)
  BY <1>1 DEF ElemOf
<1>12. \A d \in Nodes : Released(d)' = IF d = n THEN 0 ELSE Released(d) + 1
  <2> SUFFICES ASSUME NEW d \in Nodes PROVE Released(d)' = IF d = n THEN 0 ELSE Released(d) + 1
    OBVIOUS
  <2>1. IsFiniteSet(Present(d)) /\ n \in Present(d) /\ Present(d)' = Present(d) \ {n}
    BY <1>10, Counts
  <2>2. Cardinality(Present(d) \ {n}) = Cardinality(Present(d)) - 1
    BY <2>1, FS_RemoveElement
  <2>3. Cardinality(Present(d)') = Cardinality(Present(d)) - 1
    BY <2>1, <2>2
  <2>4. /\ Released(d) \in Nat /\ Released(d)' \in Nat /\ Cardinality(Present(d)) \in Nat
        /\ Len(queue[d]) = Released(d) + Cardinality(Present(d))
        /\ Len(queue'[d]) = Released(d)' + Cardinality(Present(d)')
    BY Counts
  <2>5. CASE d = n
    <3>1. Len(queue'[d]) = Len(queue[d]) - 1 /\ Released(d) = 0
      BY <1>5, <1>7, <2>5
    <3>2. Released(d)' = 0
      BY <2>3, <2>4, <3>1
    <3> QED
      BY <2>5, <3>2
  <2>6. CASE d # n
    <3>1. queue'[d] = queue[d]
      BY <1>7, <2>6
    <3>2. Released(d)' = Released(d) + 1
      BY <2>3, <2>4, <3>1
    <3> QED
      BY <2>6, <3>2
  <2> QED
    BY <2>5, <2>6
<1>13. OneUnsettled'
  <2>1. \A d, a : Sent(n, d, a)' = Sent(n, d, a) /\ Handled(n, d, a)' = Handled(n, d, a)
    BY <1>1, MessagesSame
  <2>2. Unsettled(n)' => Unsettled(n)
    BY <1>1, <2>1 DEF Unsettled
  <2> QED
    BY <1>1, <2>2, ClientUnsettled
<1>14. Known'
  <2>1. ASSUME NEW m \in Nodes, NEW d \in Nodes, Unreceived(m, d)
        PROVE  Unreceived(m, d)' \/ (cpc[m] = "request" /\ stamp[m] <= clock'[d])
    <3>1. CASE m = n
      <4>1. Sent(n, d, "request")' = Sent(n, d, "request")
        BY <1>1, MessagesSame
      <4>2. Unreceived(m, d)'
        BY <1>1, <2>1, <3>1, <4>1 DEF Unreceived
      <4> QED
        BY <4>2
    <3>2. CASE m # n
      <4>1. Unreceived(m, d)'
        BY <1>9, <2>1, <3>2
      <4> QED
        BY <4>1
    <3> QED
      BY <3>1, <3>2
  <2>2. ASSUME NEW m \in Nodes, NEW d \in Nodes, Uninserted(m, d)'
        PROVE  Uninserted(m, d) /\ stamp'[m] = stamp[m]
    BY <1>1, <1>8, <1>9, <2>2
  <2>3. \A m \in Nodes : cpc'[m] = "read" => cpc[m] = "read"
    BY <1>1
  <2>4. \A m \in Nodes : cpc'[m] \in Stamped => cpc[m] \in Stamped /\ stamp'[m] = stamp[m]
    BY <1>1 DEF Stamped
  <2> QED
    BY <1>2, <1>7, <2>1, <2>2, <2>3, <2>4, KnownKept DEF Agreed, Conserved
<1>15. Sorted'
  <2> SUFFICES ASSUME NEW d \in Nodes, NEW i \in 1..Len(queue'[d]), NEW j \in 1..Len(queue'[d]), i < j
               PROVE  queue'[d][i].timestamp < queue'[d][j].timestamp
    BY DEF Sorted
  <2>1. CASE d # n
    BY <1>7, <2>1 DEF Agreed, Sorted
  <2>2. CASE d = n
    <3>1. i + 1 \in 1..Len(queue[n]) /\ j + 1 \in 1..Len(queue[n]) /\ i + 1 < j + 1
      BY <1>7, <2>2
    <3>2. queue[n][i + 1].timestamp < queue[n][j + 1].timestamp
      BY <3>1 DEF Agreed, Sorted
    <3> QED
      BY <1>7, <2>2, <3>2
  <2> QED
    BY <2>1, <2>2
<1>16. ReleasedFirst'
  <2>1. ASSUME NEW d \in Nodes, NEW m \in Present(d)'
        PROVE  \E i \in 1..Len(queue'[d]) : i > Released(d)' /\ queue'[d][i] = ElemOf(m)'
    <3>1. m \in Present(d) /\ m # n /\ m \in Nodes
      BY <1>10 DEF Present
    <3>2. PICK i \in 1..Len(queue[d]) : i > Released(d) /\ queue[d][i] = ElemOf(m)
      BY <3>1 DEF Agreed, ReleasedFirst
    <3>3. i > Released(d) + 1
      <4>1. ElemOf(m) # ElemOf(n)
        BY <3>1 DEF ElemOf
      <4>2. i # Released(d) + 1
        BY <1>4, <3>2, <4>1
      <4> QED
        BY <1>4, <3>2, <4>2
    <3>4. CASE d = n
      <4>1. i - 1 \in 1..Len(queue'[n]) /\ (i - 1) + 1 = i /\ i - 1 > 0
        BY <1>5, <1>7, <3>3, <3>4
      <4>2. queue'[n][i - 1] = ElemOf(m)'
        BY <1>7, <1>11, <3>1, <3>2, <3>4, <4>1
      <4> QED
        BY <1>12, <3>4, <4>1, <4>2
    <3>5. CASE d # n
      BY <1>7, <1>11, <1>12, <3>1, <3>2, <3>3, <3>5
    <3> QED
      BY <3>4, <3>5
  <2>2. ASSUME NEW d \in Nodes, NEW k \in 1..Len(queue[d]), k > Released(d) + 1
        PROVE  \E m \in Present(d)' : queue[d][k] = ElemOf(m)'
    <3>1. k > Released(d) /\ k # Released(d) + 1
      BY <1>4, <2>2
    <3>2. PICK m \in Present(d) : queue[d][k] = ElemOf(m)
      BY <3>1 DEF Agreed, ReleasedFirst
    <3>3. m # n /\ m \in Nodes
      BY <1>4, <3>1, <3>2 DEF Present
    <3> QED
      BY <1>10, <1>11, <3>2, <3>3
  <2>3. ASSUME NEW d \in Nodes, NEW i \in 1..Len(queue'[d])
        PROVE  /\ i > Released(d)' => \E m \in Present(d)' : queue'[d][i] = ElemOf(m)'
               /\ queue'[d][i].nodeId = d => i > Released(d)'
    <3>1. CASE d = n
      <4>1. i + 1 \in 1..Len(queue[n]) /\ queue'[n][i] = queue[n][i + 1] /\ i + 1 > Released(n) + 1 /\ i > 0
        BY <1>5, <1>7, <3>1
      <4>2. \E m \in Present(d)' : queue'[d][i] = ElemOf(m)'
        BY <2>2, <3>1, <4>1
      <4> QED
        BY <1>12, <3>1, <4>1, <4>2
    <3>2. CASE d # n
      <4>1. i \in 1..Len(queue[d]) /\ queue'[d][i] = queue[d][i] /\ Released(d)' = Released(d) + 1
        BY <1>7, <1>12, <3>2
      <4>2. queue[d][i].nodeId = d => i > Released(d)
        BY <4>1 DEF Agreed, ReleasedFirst
      <4>3. queue[d][Released(d) + 1].nodeId = n
        BY <1>4 DEF ElemOf
      <4>4. queue[d][i].nodeId = d => i > Released(d) + 1
        BY <1>4, <3>2, <4>1, <4>2, <4>3
      <4> QED
        BY <2>2, <4>1, <4>4
    <3> QED
      BY <3>1, <3>2
  <2> QED
    BY <2>1, <2>3 DEF ReleasedFirst
<1>17. OneInCS'
  <2>1. \A m \in Nodes : InCS(m) => m = n
    BY <1>3 DEF Agreed, OneInCS
  <2>2. \A m \in Nodes : ~InCS(m)'
    BY <1>1, <2>1 DEF InCS
  <2> QED
    BY <2>2 DEF OneInCS
<1>18. MutualExclusion'
  BY <1>7 DEF MutualExclusion, Running
<1> QED
  BY <1>13, <1>14, <1>15, <1>16, <1>17, <1>18 DEF Agreed

\* A RELEASE pops a request that has been released: it comes before the present ones.
LEMMA HandleReleaseAgreed ==
  ASSUME TypeOK, TypeOK', Conserved, Conserved', Agreed, Running,
         NEW n \in Nodes, NEW h \in handlers[n], HandleRelease(n, h)
  PROVE  Agreed'
<1>1. /\ h.action = "release" /\ h.pc = "start" /\ QueueExtract(n)
      /\ handlers' = [handlers EXCEPT ![n] = @ \ {h}]
      /\ UNCHANGED <<clock, channel, cpc, stamp, unsent>>
  BY PlacesOfHandler DEF Conserved, HandleRelease, Finish, clientVars, Places
<1>2. Ends(n, h)
  BY <1>1, DoneEffect DEF Conserved
<1>3. Released(n) \in Nat /\ Released(n) # 0
  <2>1. IsFiniteSet(ReleasesHandled(n)) /\ h \in ReleasesHandled(n)
    BY <1>1, HandlerTypes, FS_Subset DEF Conserved, ReleasesHandled
  <2>2. ReleaseHandlers(n) \in Nat /\ ReleaseHandlers(n) # 0
    BY <2>1, HandlerTypes, FS_EmptySet DEF Conserved, ReleaseHandlers
  <2>3. Cardinality(Releasing(n)) \in Nat /\ ReleasesSent(n) \in Nat
    BY ReleasedType DEF Conserved
  <2> QED
    BY <2>2, <2>3 DEF Released
<1>4. Len(queue[n]) # 0
  BY <1>3, Counts
<1>5. /\ panic' = panic /\ Len(queue'[n]) = Len(queue[n]) - 1 /\ Len(queue[n]) \in Nat
      /\ \A i \in 1..Len(queue'[n]) :
           i + 1 \in 1..Len(queue[n]) /\ queue'[n][i] = queue[n][i + 1]
      /\ \A d \in Nodes \ {n} : queue'[d] = queue[d]
      /\ \A d \in Nodes : \A i \in 1..Len(queue'[d]) :
           \E j \in 1..Len(queue[d]) : queue'[d][i] = queue[d][j]
  BY <1>1, <1>4, QueueExtracted
<1>6. /\ \A x, y \in Nodes : Sent(x, y, "request")' = Sent(x, y, "request")
      /\ \A x, y \in Nodes : Handled(x, y, "request")' = Handled(x, y, "request")
  <2>1. \A x, y \in Nodes : Sent(x, y, "request")' = Sent(x, y, "request")
    BY <1>1 DEF Sent
  <2>2. \A x, y \in Nodes : Handled(x, y, "request")' = Handled(x, y, "request")
    BY <1>1, <1>2 DEF Ends, Handled
  <2> QED
    BY <2>1, <2>2
<1>7. /\ \A x, y \in Nodes : Uninserted(x, y)' <=> Uninserted(x, y)
      /\ \A x, y \in Nodes : Unreceived(x, y)' <=> Unreceived(x, y)
      /\ \A x \in Nodes : Unsettled(x)' => Unsettled(x)
  BY <1>1, <1>6, RequestsSame
<1>8. \A d \in Nodes : Present(d)' = Present(d)
  BY <1>1, <1>7 DEF Present
<1>9. \A m \in Nodes : ElemOf(m)' = ElemOf(m)
  BY <1>1 DEF ElemOf
<1>10. \A d \in Nodes : Released(d)' = IF d = n THEN Released(d) - 1 ELSE Released(d)
  <2> SUFFICES ASSUME NEW d \in Nodes
               PROVE  Released(d)' = IF d = n THEN Released(d) - 1 ELSE Released(d)
    OBVIOUS
  <2>1. /\ Released(d) \in Nat /\ Released(d)' \in Nat /\ Cardinality(Present(d)) \in Nat
        /\ Len(queue[d]) = Released(d) + Cardinality(Present(d))
        /\ Len(queue'[d]) = Released(d)' + Cardinality(Present(d))
    BY <1>8, Counts
  <2>2. Len(queue'[d]) = IF d = n THEN Len(queue[d]) - 1 ELSE Len(queue[d])
    BY <1>5
  <2> QED
    BY <2>1, <2>2
<1>11. OneUnsettled'
  BY <1>7, UnsettledKept DEF Agreed
<1>12. Known'
  <2>1. \A m, d \in Nodes : Unreceived(m, d) =>
          Unreceived(m, d)' \/ (cpc[m] = "request" /\ stamp[m] <= clock'[d])
    BY <1>7
  <2>2. \A m, d \in Nodes : Uninserted(m, d)' => Uninserted(m, d) /\ stamp'[m] = stamp[m]
    BY <1>1, <1>7
  <2>3. /\ \A m \in Nodes : cpc'[m] = "read" => cpc[m] = "read"
        /\ \A m \in Nodes : cpc'[m] \in Stamped => cpc[m] \in Stamped /\ stamp'[m] = stamp[m]
    BY <1>1
  <2>4. \A y \in Nodes : clock'[y] >= clock[y]
    BY <1>1 DEF TypeOK
  <2> QED
    BY <1>5, <2>1, <2>2, <2>3, <2>4, KnownKept DEF Agreed, Conserved
<1>13. Sorted'
  <2> SUFFICES ASSUME NEW d \in Nodes, NEW i \in 1..Len(queue'[d]), NEW j \in 1..Len(queue'[d]), i < j
               PROVE  queue'[d][i].timestamp < queue'[d][j].timestamp
    BY DEF Sorted
  <2>1. CASE d # n
    BY <1>5, <2>1 DEF Agreed, Sorted
  <2>2. CASE d = n
    <3>1. i + 1 \in 1..Len(queue[n]) /\ j + 1 \in 1..Len(queue[n]) /\ i + 1 < j + 1
      BY <1>5, <2>2
    <3>2. queue[n][i + 1].timestamp < queue[n][j + 1].timestamp
      BY <3>1 DEF Agreed, Sorted
    <3> QED
      BY <1>5, <2>2, <3>2
  <2> QED
    BY <2>1, <2>2
<1>14. ReleasedFirst'
  <2>1. ASSUME NEW d \in Nodes, NEW m \in Present(d)'
        PROVE  \E i \in 1..Len(queue'[d]) : i > Released(d)' /\ queue'[d][i] = ElemOf(m)'
    <3>1. m \in Present(d) /\ m \in Nodes
      BY <1>8 DEF Present
    <3>2. PICK i \in 1..Len(queue[d]) : i > Released(d) /\ queue[d][i] = ElemOf(m)
      BY <3>1 DEF Agreed, ReleasedFirst
    <3>3. CASE d = n
      <4>1. i - 1 \in 1..Len(queue'[n]) /\ (i - 1) + 1 = i /\ i - 1 > Released(n) - 1
        BY <1>3, <1>5, <3>2, <3>3
      <4>2. queue'[n][i - 1] = ElemOf(m)'
        BY <1>5, <1>9, <3>1, <3>2, <3>3, <4>1
      <4> QED
        BY <1>10, <3>3, <4>1, <4>2
    <3>4. CASE d # n
      BY <1>5, <1>9, <1>10, <3>1, <3>2, <3>4
    <3> QED
      BY <3>3, <3>4
  <2>2. ASSUME NEW d \in Nodes, NEW k \in 1..Len(queue[d]), k > Released(d)
        PROVE  \E m \in Present(d)' : queue[d][k] = ElemOf(m)'
    <3>1. PICK m \in Present(d) : queue[d][k] = ElemOf(m)
      BY <2>2 DEF Agreed, ReleasedFirst
    <3>2. m \in Nodes /\ m \in Present(d)'
      BY <1>8 DEF Present
    <3> QED
      BY <1>9, <3>1, <3>2
  <2>3. ASSUME NEW d \in Nodes, NEW i \in 1..Len(queue'[d])
        PROVE  /\ i > Released(d)' => \E m \in Present(d)' : queue'[d][i] = ElemOf(m)'
               /\ queue'[d][i].nodeId = d => i > Released(d)'
    <3>1. CASE d = n
      <4>1. /\ i + 1 \in 1..Len(queue[n]) /\ queue'[n][i] = queue[n][i + 1]
            /\ Released(n)' = Released(n) - 1
        BY <1>5, <1>10, <3>1
      <4>2. i > Released(n)' <=> i + 1 > Released(n)
        BY <1>3, <3>1, <4>1
      <4>3. queue[n][i + 1].nodeId = n => i + 1 > Released(n)
        BY <4>1 DEF Agreed, ReleasedFirst
      <4>4. i + 1 > Released(n) => \E m \in Present(n)' : queue[n][i + 1] = ElemOf(m)'
        BY <2>2, <4>1
      <4> QED
        BY <3>1, <4>1, <4>2, <4>3, <4>4
    <3>2. CASE d # n
      <4>1. i \in 1..Len(queue[d]) /\ queue'[d][i] = queue[d][i] /\ Released(d)' = Released(d)
        BY <1>5, <1>10, <3>2
      <4>2. queue[d][i].nodeId = d => i > Released(d)
        BY <4>1 DEF Agreed, ReleasedFirst
      <4> QED
        BY <2>2, <4>1, <4>2
    <3> QED
      BY <3>1, <3>2
  <2> QED
    BY <2>1, <2>3 DEF ReleasedFirst
<1>15. OneInCS'
  <2>1. \A m \in Nodes : InCS(m)' <=> InCS(m)
    BY <1>1 DEF InCS
  <2>2. ASSUME NEW m \in Nodes, InCS(m)
        PROVE  Released(m)' = 0 /\ queue'[m] # << >> /\ queue'[m][1].nodeId = m
    <3>1. Released(m) = 0 /\ queue[m] # << >> /\ queue[m][1].nodeId = m
      BY <2>2 DEF Agreed, OneInCS
    <3>2. m # n
      BY <1>3, <3>1
    <3> QED
      BY <1>5, <1>10, <3>1, <3>2
  <2> QED
    BY <2>1, <2>2 DEF OneInCS, Agreed
<1>16. MutualExclusion'
  BY <1>5 DEF MutualExclusion, Running
<1> QED
  BY <1>11, <1>12, <1>13, <1>14, <1>15, <1>16 DEF Agreed

LEMMA UnchangedAgreed ==
  ASSUME TypeOK, TypeOK', Conserved, Conserved', Agreed, UNCHANGED vars
  PROVE  Agreed'
<1>1. UNCHANGED <<clock, queue, channel, handlers, cpc, stamp, unsent, panic>>
  BY DEF vars, clientVars, sharedVars
<1>2. \A x, y \in Nodes : \A a : Sent(x, y, a)' = Sent(x, y, a) /\ Handled(x, y, a)' = Handled(x, y, a)
  BY <1>1, MessagesSame
<1>3. /\ \A x, y \in Nodes : Uninserted(x, y)' <=> Uninserted(x, y)
      /\ \A x, y \in Nodes : Unreceived(x, y)' <=> Unreceived(x, y)
      /\ \A x \in Nodes : Unsettled(x)' => Unsettled(x)
  BY <1>1, <1>2, RequestsSame
<1>4. OneUnsettled'
  BY <1>3, UnsettledKept DEF Agreed
<1>5. \A x, y \in Nodes : Unreceived(x, y) =>
        Unreceived(x, y)' \/ (cpc[x] = "request" /\ stamp[x] <= clock'[y])
  BY <1>3
<1>6. \A y \in Nodes : clock'[y] >= clock[y]
  BY <1>1 DEF TypeOK
<1>7. /\ \A m \in Nodes : cpc'[m] = "read" => cpc[m] = "read"
      /\ \A m \in Nodes : cpc'[m] \in Stamped => cpc[m] \in Stamped /\ stamp'[m] = stamp[m]
      /\ \A m \in Nodes : cpc'[m] \in Made <=> cpc[m] \in Made
      /\ \A m \in Nodes : InCS(m)' => InCS(m)
  BY <1>1 DEF InCS
<1>8. panic' # "SafetyBreached"
  BY <1>1 DEF Agreed, MutualExclusion
<1>9. \A x, y \in Nodes : Uninserted(x, y)' <=> Uninserted(x, y)
  BY <1>3
<1> QED
  BY <1>1, <1>4, <1>5, <1>6, <1>7, <1>8, <1>9, QuietAgreed

LEMMA BroadcastAgreed ==
  ASSUME TypeOK, TypeOK', Conserved, Conserved', Agreed, Running,
         NEW n \in Nodes, NEW d \in Nodes, Broadcast(n, d)
  PROVE  Agreed'
<1>1. cpc[n] \in {"request", "release"}
  BY DEF Broadcast, Conserved, Goroutines
<1>2. CASE cpc[n] = "request"
  BY <1>2, BroadcastRequestAgreed
<1>3. CASE cpc[n] = "release"
  BY <1>3, BroadcastReleaseAgreed
<1> QED
  BY <1>1, <1>2, <1>3

\* Every step but AcquireLock keeps what the nodes agree on; AcquireLock does if it is called
\* when all requests are settled.
LEMMA StepAgreed ==
  ASSUME TypeOK, Conserved, Agreed, [Next]_vars, ~hurried'
  PROVE  Agreed'
<1>1. TypeOK' /\ Conserved'
  BY StepType, StepConserved
<1>2. CASE UNCHANGED vars
  BY <1>1, <1>2, UnchangedAgreed
<1>3. ASSUME Running, NEW n \in Nodes, ClientStep(n) PROVE Agreed'
  BY <1>1, <1>3, TickAgreed, ReadAgreed, StampAgreed, InsertOwnAgreed, LockOwnPendingAgreed,
     BroadcastAgreed, EnterAgreed, ReleaseLockAgreed, ExtractOwnAgreed, ReleaseDoneAgreed
     DEF ClientStep
<1>4. ASSUME Running, NEW n \in Nodes, NEW h \in handlers[n], HandlerStep(n, h) PROVE Agreed'
  BY <1>1, <1>4, InsertRequestAgreed, TryOngoingAgreed, CompareAgreed, LockPendingAgreed,
     SendAckAgreed, HandleReleaseAgreed, ReqAckAgreed, CountAckAgreed DEF HandlerStep
<1>5. ASSUME Running, NEW n \in Nodes, AcquireLock(n), Next PROVE Agreed'
  <2>1. requested' # requested
    <3>1. requested'[n] = requested[n] + 1 /\ requested[n] \in Nat
      BY <1>5 DEF AcquireLock, TypeOK
    <3>2. requested'[n] # requested[n]
      BY <3>1
    <3> QED
      BY <3>2
  <2>2. Settled
    BY <1>5, <2>1 DEF Next
  <2> QED
    BY <1>1, <1>5, <2>2, AcquireAgreed
<1>6. ASSUME Running, NEW n \in Nodes, HandleMsg(n) PROVE Agreed'
  BY <1>1, <1>6, HandleMsgAgreed
<1> QED
  BY <1>2, <1>3, <1>4, <1>5, <1>6 DEF Next

LEMMA StepSpaced ==
  ASSUME TypeOK, Conserved, Spaced, [Next]_vars
  PROVE  Spaced'
<1> SUFFICES ASSUME ~hurried' PROVE Agreed'
  BY DEF Spaced
<1>1. ~hurried
  BY DEF Next, vars
<1> QED
  BY <1>1, StepAgreed DEF Spaced

LEMMA InitSpaced == Init => Spaced
<1> SUFFICES ASSUME Init PROVE Agreed
  BY DEF Spaced
<1> USE DEF Init
<1>1. /\ \A n \in Nodes : channel[n] = << >> /\ handlers[n] = {} /\ queue[n] = << >>
      /\ \A n \in Nodes : cpc[n] = "idle" /\ unsent[n] = {}
      /\ panic = "none"
  OBVIOUS
<1>2. \A n \in Nodes : 1..Len(queue[n]) = {} /\ 1..Len(channel[n]) = {}
  BY <1>1
<1>3. \A m, n \in Nodes : Sent(m, n, "request") = {} /\ Handled(m, n, "request") = {}
  BY <1>1, <1>2 DEF Sent, Handled
<1>4. \A n \in Nodes : ~Unsettled(n) /\ Present(n) = {} /\ ~InCS(n)
  BY <1>1, <1>3 DEF Unsettled, Present, InCS
<1>5. OneUnsettled /\ OneInCS /\ MutualExclusion
  BY <1>1, <1>4 DEF OneUnsettled, OneInCS, MutualExclusion
<1>6. Known
  BY <1>1, <1>2 DEF Known
<1>7. Sorted /\ ReleasedFirst
  BY <1>2, <1>4 DEF Sorted, ReleasedFirst
<1> QED
  BY <1>5, <1>6, <1>7 DEF Agreed

\* In every behaviour every lock, answer and RELEASE is accounted for; and as long as the
\* requests are spaced apart, the queues of all nodes hold the requests that have been made in
\* the order in which they were made.
THEOREM Invariance == Spec => []IInv
<1>1. Init => IInv
  BY InitType, InitConserved, InitSpaced DEF IInv
<1>2. IInv /\ [Next]_vars => IInv'
  BY StepType, StepConserved, StepSpaced DEF IInv
<1> QED
  BY <1>1, <1>2, PTL DEF Spec

\* EnterCS finds nobody in the critical section if no AcquireLock was called while a request
\* was on its way, whatever the order in which goroutines and messages are handled.
THEOREM SpacedMutualExclusionHolds == Spec => []SpacedMutualExclusion
<1>1. IInv => SpacedMutualExclusion
  BY DEF IInv, Spaced, Agreed, SpacedMutualExclusion
<1> QED
  BY <1>1, Invariance, PTL

\* The request of the node in the critical section is in the queue of every node: handleRequest
\* queues it before it answers, and no RELEASE pops it in place of another's.
THEOREM HolderIsQueuedEverywhereHolds == Spec => []HolderIsQueuedEverywhere
<1>1. ASSUME IInv, ~hurried, NEW n \in Nodes, NEW m \in Nodes, cpc[n] = "cs" PROVE Queued(m, n)
  <2>1. InCS(n)
    BY <1>1 DEF InCS
  <2>2. n \in Present(m)
    BY <2>1, PresentWhileInCS
  <2>3. PICK i \in 1..Len(queue[m]) : queue[m][i] = ElemOf(n)
    BY <1>1, <2>2 DEF IInv, Spaced, Agreed, ReleasedFirst
  <2> QED
    BY <2>3 DEF Queued, ElemOf
<1>2. IInv => HolderIsQueuedEverywhere
  BY <1>1 DEF HolderIsQueuedEverywhere
<1> QED
  BY <1>2, Invariance, PTL

\* ReleaseLock pops the head of the node's own queue and sends RELEASEs that carry no name: the
\* head is the request that is released.
THEOREM HeadIsOwnRequestHolds == Spec => []HeadIsOwnRequest
<1>1. ASSUME IInv, ~hurried, NEW n \in Nodes, cpc[n] = "cs" PROVE Peek(queue[n]) = n
  <2>1. queue[n] # << >> /\ queue[n][1].nodeId = n
    BY <1>1 DEF IInv, Spaced, Agreed, OneInCS, InCS
  <2>2. Head(queue[n]) = queue[n][1]
    BY <1>1, <2>1, HeadTailProperties DEF IInv, TypeOK
  <2> QED
    BY <2>1, <2>2 DEF Peek
<1>2. IInv => HeadIsOwnRequest
  BY <1>1 DEF HeadIsOwnRequest
<1> QED
  BY <1>2, Invariance, PTL
=============================================================================
