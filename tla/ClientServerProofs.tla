------------------------- MODULE ClientServerProofs -------------------------
(***************************************************************************)
(* The proofs about the broadcast with vector clocks, for every finite set *)
(* of clients and any number of messages: the order of reception agrees    *)
(* with the clocks, and the server drops just what has been overtaken.     *)
(***************************************************************************)
EXTENDS ClientServer, SequenceTheorems, FiniteSetTheorems, TLAPS

-----------------------------------------------------------------------------
(***************************************************************************)
(* The inductive invariant.                                                *)
(***************************************************************************)

\* v is no later than w in any entry.
AtMost(v, w) == \A p \in Ids : v[p] <= w[p]

Messages == [src : Ids, number : Nat, ts : ClockVal]

\* TypeOK with the domains of the functions, and without what Order says of the messages.
Shapes ==
    /\ clock \in [Ids -> ClockVal]
    /\ sending \in [Clients -> Seq(Messages)]
    /\ forwarder \in [Clients -> Seq(Messages)]
    /\ recvd \in [Clients -> Seq(Messages)]
    /\ sentAt \in [Clients -> Seq(ClockVal)]
    /\ accepted \in [Clients -> Nat]
    /\ relay \in [to : SUBSET Clients, msg : Messages]
    /\ state \in [Ids -> {"run", "closed", "quitting", "quit"}]
    /\ forwards \subseteq Clients

Sizes ==
    /\ \A c \in Clients :
        /\ Len(sending[c]) <= 2 /\ Len(forwarder[c]) <= 1
        /\ Len(sentAt[c]) <= MaxMsgs[c] /\ accepted[c] <= Len(sentAt[c])
        /\ state[c] \in {"run", "closed"}
    /\ state[Server] \in {"run", "quitting", "quit"}
    /\ offered \subseteq relay.to
    /\ \A c, d \in offered : c = d

\* A message of the history.
IsSent(m) == m.src \in Clients /\ m.number \in DOMAIN sentAt[m.src]

\* The stamps of a client grow, and its clock is beyond them all.
StampsGrow ==
    \A c \in Clients : \A k \in DOMAIN sentAt[c] :
        /\ 0 < sentAt[c][k][c]
        /\ AtMost(sentAt[c][k], clock[c])
        /\ \A j \in DOMAIN sentAt[c] : j < k =>
             AtMost(sentAt[c][j], sentAt[c][k]) /\ sentAt[c][j][c] < sentAt[c][k][c]

\* What c has sent and the server has not taken, in the order it will take it.
Queue(c) == forwarder[c] \o sending[c]

\* It is what c has sent, each message once, none of them the one accepted last.
QueueIsSent ==
    \A c \in Clients : \A i \in DOMAIN Queue(c) :
        /\ Queue(c)[i].src = c
        /\ IsSent(Queue(c)[i])
        /\ Queue(c)[i].ts = Origin(Queue(c)[i])
        /\ Queue(c)[i].number # accepted[c]
        /\ \A j \in DOMAIN Queue(c) : Queue(c)[i].number = Queue(c)[j].number => i = j

\* The time of c on the message of c that the server accepted last.
LastAccepted(c) == IF accepted[c] = 0 THEN 0 ELSE sentAt[c][accepted[c]][c]

\* The server knows what was known to the sender of that message, and nobody but c knows of
\* anything c did after it.
AcceptedKnown ==
    \A c \in Clients :
        /\ accepted[c] # 0 => AtMost(sentAt[c][accepted[c]], clock[Server])
        /\ \A p \in Ids \ {c} : clock[p][c] <= LastAccepted(c)

\* The server knows all that the senders of the messages it has relayed knew.
RecvdKnown ==
    \A c \in Clients : \A i \in DOMAIN recvd[c] :
        IsSent(recvd[c][i]) /\ AtMost(Origin(recvd[c][i]), clock[Server])

\* So it does of the one it relays, which none of the clients it goes to should have
\* received earlier.
RelayKnown ==
    relay.to # {} =>
        /\ IsSent(relay.msg)
        /\ AtMost(relay.msg.ts, clock[Server])
        /\ AtMost(Origin(relay.msg), clock[Server])
        /\ \A c \in relay.to : \A i \in DOMAIN recvd[c] :
             Compare(Origin(relay.msg), Origin(recvd[c][i])) # -1

Order ==
    /\ NoClockIsAhead
    /\ StampsGrow
    /\ QueueIsSent
    /\ AcceptedKnown
    /\ RecvdKnown
    /\ RelayKnown
    /\ CausalDelivery

IInv == Shapes /\ Sizes /\ Order

-----------------------------------------------------------------------------
(***************************************************************************)
(* Sequences.                                                              *)
(***************************************************************************)

\* The elements of a concatenation are those of its parts.
LEMMA ConcatElements ==
  ASSUME NEW S, NEW s \in Seq(S), NEW t \in Seq(S)
  PROVE  /\ s \o t \in Seq(S) /\ Len(s \o t) = Len(s) + Len(t)
         /\ \A k \in DOMAIN (s \o t) :
              \/ k \in DOMAIN s /\ (s \o t)[k] = s[k]
              \/ k - Len(s) \in DOMAIN t /\ (s \o t)[k] = t[k - Len(s)]
         /\ \A i \in DOMAIN s : i \in DOMAIN (s \o t) /\ (s \o t)[i] = s[i]
         /\ \A i \in DOMAIN t : i + Len(s) \in DOMAIN (s \o t) /\ (s \o t)[i + Len(s)] = t[i]
<1> DEFINE u == s \o t
<1>1. /\ u \in Seq(S) /\ Len(u) = Len(s) + Len(t)
      /\ \A k \in 1..(Len(s) + Len(t)) : u[k] = IF k <= Len(s) THEN s[k] ELSE t[k - Len(s)]
  BY ConcatProperties
<1> HIDE DEF u
<1>2. /\ Len(s) \in Nat /\ Len(t) \in Nat
      /\ DOMAIN s = 1..Len(s) /\ DOMAIN t = 1..Len(t) /\ DOMAIN u = 1..(Len(s) + Len(t))
  BY <1>1, LenProperties
<1>3. \A k \in DOMAIN u : \/ k \in DOMAIN s /\ u[k] = s[k]
                          \/ k - Len(s) \in DOMAIN t /\ u[k] = t[k - Len(s)]
  BY <1>1, <1>2
<1>4. \A i \in DOMAIN s : i \in DOMAIN u /\ u[i] = s[i]
  BY <1>1, <1>2
<1>5. ASSUME NEW i \in DOMAIN t PROVE i + Len(s) \in DOMAIN u /\ u[i + Len(s)] = t[i]
  <2>1. i + Len(s) \in 1..(Len(s) + Len(t)) /\ ~ (i + Len(s) <= Len(s)) /\ (i + Len(s)) - Len(s) = i
    BY <1>2
  <2> QED
    BY <1>1, <1>2, <2>1
<1> QED
  BY <1>1, <1>3, <1>4, <1>5 DEF u

LEMMA OnlyOne ==
  ASSUME NEW n \in Nat \ {0}, n <= 1
  PROVE  n = 1
  OBVIOUS

\* A sequence of one element, and another behind it.
LEMMA OneElement ==
  ASSUME NEW S, NEW f \in Seq(S), f # << >>, Len(f) <= 1, NEW g \in Seq(S)
  PROVE  /\ f[1] \in S /\ f = <<f[1]>>
         /\ 1 \in DOMAIN (f \o g) /\ (f \o g)[1] = f[1]
         /\ \A i \in DOMAIN g : i + 1 \in DOMAIN (f \o g) /\ (f \o g)[i + 1] = g[i]
<1>1. Len(f) \in Nat \ {0}
  BY EmptySeq
<1>2. Len(f) = 1
  BY <1>1, OnlyOne, Zenon
<1>3. DOMAIN f = 1..1 /\ f[1] \in S
  BY <1>2, LenProperties, ElementOfSeq
<1>4. f = <<f[1]>>
  BY <1>2, <1>3
<1> DEFINE u == f \o g
<1>5. /\ \A i \in DOMAIN f : i \in DOMAIN u /\ u[i] = f[i]
      /\ \A i \in DOMAIN g : i + Len(f) \in DOMAIN u /\ u[i + Len(f)] = g[i]
  BY ConcatElements
<1> HIDE DEF u
<1>6. /\ 1 \in DOMAIN u /\ u[1] = f[1]
      /\ \A i \in DOMAIN g : i + 1 \in DOMAIN u /\ u[i + 1] = g[i]
  BY <1>2, <1>3, <1>5
<1> QED
  BY <1>3, <1>4, <1>6 DEF u

LEMMA BehindOne ==
  ASSUME NEW S, NEW f \in Seq(S), f # << >>, Len(f) <= 1, NEW g \in Seq(S), NEW i \in DOMAIN g
  PROVE  i + 1 \in DOMAIN (f \o g) /\ (f \o g)[i + 1] = g[i]
<1> DEFINE u == f \o g
<1>1. \A k \in DOMAIN g : k + 1 \in DOMAIN u /\ u[k + 1] = g[k]
  BY OneElement
<1> HIDE DEF u
<1>2. i + 1 \in DOMAIN u /\ u[i + 1] = g[i]
  BY <1>1, Zenon
<1> QED
  BY <1>2 DEF u

LEMMA ConcatSet ==
  ASSUME NEW S, NEW s \in Seq(S), NEW t \in Seq(S)
  PROVE  ToSet(s \o t) = ToSet(s) \cup ToSet(t)
<1> DEFINE u == s \o t
<1>1. /\ \A k \in DOMAIN u : \/ k \in DOMAIN s /\ u[k] = s[k]
                             \/ k - Len(s) \in DOMAIN t /\ u[k] = t[k - Len(s)]
      /\ \A i \in DOMAIN s : i \in DOMAIN u /\ u[i] = s[i]
      /\ \A i \in DOMAIN t : i + Len(s) \in DOMAIN u /\ u[i + Len(s)] = t[i]
  BY ConcatElements
<1> HIDE DEF u
<1>2. ToSet(u) \subseteq ToSet(s) \cup ToSet(t)
  BY <1>1 DEF ToSet
<1>3. ToSet(s) \subseteq ToSet(u) /\ ToSet(t) \subseteq ToSet(u)
  BY <1>1 DEF ToSet
<1> QED
  BY <1>2, <1>3 DEF u

-----------------------------------------------------------------------------
(***************************************************************************)
(* Clocks and the history.                                                 *)
(***************************************************************************)

LEMMA ServerIsNoClient == Server \notin Clients /\ Server \in Ids /\ Clients \subseteq Ids
  BY ClientsAssumption DEF Server, Ids

\* What Compare tells of two clocks.
LEMMA CompareMeans ==
  ASSUME NEW v \in ClockVal, NEW w \in ClockVal
  PROVE  /\ Compare(v, w) = 1 <=> AtMost(w, v) /\ \E p \in Ids : v[p] > w[p]
         /\ Compare(v, w) = -1 <=> AtMost(v, w) /\ \E p \in Ids : v[p] < w[p]
<1>1. \A p \in Ids : v[p] \in Nat /\ w[p] \in Nat
  BY DEF ClockVal
<1> DEFINE above == \E p \in Ids : v[p] > w[p]
           below == \E p \in Ids : v[p] < w[p]
<1>2. (~ below <=> AtMost(w, v)) /\ (~ above <=> AtMost(v, w))
  BY <1>1 DEF AtMost
<1>3. Compare(v, w) = IF above /\ ~below THEN 1 ELSE IF below /\ ~above THEN -1 ELSE 0
  BY DEF Compare
<1> HIDE DEF above, below
<1>4. (Compare(v, w) = 1 <=> above /\ ~ below) /\ (Compare(v, w) = -1 <=> below /\ ~ above)
  BY <1>3
<1> QED
  BY <1>2, <1>4 DEF above, below

LEMMA IncrementMeans ==
  ASSUME NEW v \in ClockVal, NEW p \in Ids
  PROVE  /\ Increment(v, p) \in ClockVal
         /\ \A q \in Ids : Increment(v, p)[q] = v[q] + IF q = p THEN 1 ELSE 0
  BY DEF ClockVal, Increment

\* The clock of a receiver is the least that knows of both, and later than both.
LEMMA ReceivedMeans ==
  ASSUME NEW v \in ClockVal, NEW ts \in ClockVal, NEW p \in Ids
  PROVE  /\ Received(v, ts, p) \in ClockVal
         /\ \A q \in Ids : /\ v[q] <= Received(v, ts, p)[q] /\ ts[q] <= Received(v, ts, p)[q]
                           /\ q # p => Received(v, ts, p)[q] = v[q] \/ Received(v, ts, p)[q] = ts[q]
         /\ ts[p] <= v[p] => Received(v, ts, p)[p] = v[p] + 1
<1>1. MaxClockValue(v, ts) \in ClockVal
  BY DEF MaxClockValue, ClockVal
<1>2. \A q \in Ids : MaxClockValue(v, ts)[q] = IF v[q] > ts[q] THEN v[q] ELSE ts[q]
  BY DEF MaxClockValue
<1>3. \A q \in Ids : v[q] \in Nat /\ ts[q] \in Nat
  BY DEF ClockVal
<1>4. /\ Received(v, ts, p) \in ClockVal
      /\ \A q \in Ids : Received(v, ts, p)[q]
                        = MaxClockValue(v, ts)[q] + IF q = p THEN 1 ELSE 0
  BY <1>1, IncrementMeans DEF Received
<1> QED
  BY <1>2, <1>3, <1>4

LEMMA AtMostTransitive ==
  ASSUME NEW u \in ClockVal, NEW v \in ClockVal, NEW w \in ClockVal,
         AtMost(u, v), AtMost(v, w)
  PROVE  AtMost(u, w)
<1>1. \A p \in Ids : u[p] \in Nat /\ v[p] \in Nat /\ w[p] \in Nat
  BY DEF ClockVal
<1> QED
  BY <1>1 DEF AtMost

\* The stamps of the history are clocks.
LEMMA StampType ==
  ASSUME Shapes, NEW c \in Clients
  PROVE  /\ sentAt[c] \in Seq(ClockVal) /\ DOMAIN sentAt[c] = 1..Len(sentAt[c])
         /\ Len(sentAt[c]) \in Nat
         /\ \A k \in DOMAIN sentAt[c] : sentAt[c][k] \in ClockVal
<1>1. sentAt[c] \in Seq(ClockVal)
  BY DEF Shapes
<1> QED
  BY <1>1, LenProperties, ElementOfSeq

LEMMA OriginType ==
  ASSUME Shapes, NEW m, IsSent(m)
  PROVE  Origin(m) \in ClockVal
  BY StampType DEF IsSent, Origin

LEMMA ClockType ==
  ASSUME Shapes, NEW p \in Ids
  PROVE  clock[p] \in ClockVal /\ \A q \in Ids : clock[p][q] \in Nat
  BY DEF Shapes, ClockVal

LEMMA LastAcceptedType ==
  ASSUME Shapes, Sizes, NEW c \in Clients
  PROVE  /\ LastAccepted(c) \in Nat
         /\ accepted[c] # 0 => accepted[c] \in DOMAIN sentAt[c] /\ sentAt[c][accepted[c]] \in ClockVal
<1>1. accepted[c] \in Nat /\ accepted[c] <= Len(sentAt[c])
  BY DEF Shapes, Sizes
<1>2. accepted[c] # 0 => accepted[c] \in DOMAIN sentAt[c] /\ sentAt[c][accepted[c]] \in ClockVal
  BY <1>1, StampType
<1> QED
  BY <1>2, ServerIsNoClient DEF LastAccepted, ClockVal

LEMMA QueueType ==
  ASSUME Shapes, NEW c \in Clients
  PROVE  /\ Queue(c) \in Seq(Messages)
         /\ DOMAIN Queue(c) = 1..Len(Queue(c)) /\ Len(Queue(c)) \in Nat
         /\ \A i \in DOMAIN Queue(c) : Queue(c)[i] \in Messages
<1>1. forwarder[c] \in Seq(Messages) /\ sending[c] \in Seq(Messages)
  BY DEF Shapes
<1>2. Queue(c) \in Seq(Messages)
  BY <1>1, ConcatProperties DEF Queue
<1> QED
  BY <1>2, LenProperties, ElementOfSeq

\* The invariant gives the types: what is on the way, or received, has been sent.
LEMMA TypesHold == IInv => TypeOK
<1> SUFFICES ASSUME IInv PROVE TypeOK
  OBVIOUS
<1>1. ASSUME NEW c \in Clients, NEW m \in ToSet(sending[c] \o forwarder[c] \o recvd[c])
      PROVE  IsMessage(m)
  <2>1. /\ sending[c] \in Seq(Messages) /\ forwarder[c] \in Seq(Messages)
        /\ recvd[c] \in Seq(Messages)
    BY DEF IInv, Shapes
  <2>2. sending[c] \o forwarder[c] \in Seq(Messages)
    BY <2>1, ConcatProperties
  <2>3. m \in ToSet(sending[c]) \/ m \in ToSet(forwarder[c]) \/ m \in ToSet(recvd[c])
    <3>1. ToSet((sending[c] \o forwarder[c]) \o recvd[c])
            = ToSet(sending[c] \o forwarder[c]) \cup ToSet(recvd[c])
      BY <2>1, <2>2, ConcatSet, Zenon
    <3>2. ToSet(sending[c] \o forwarder[c]) = ToSet(sending[c]) \cup ToSet(forwarder[c])
      BY <2>1, ConcatSet, Zenon
    <3> QED
      BY <3>1, <3>2, Zenon
  <2>4. m \in ToSet(Queue(c)) \/ m \in ToSet(recvd[c])
    <3>1. ToSet(Queue(c)) = ToSet(forwarder[c]) \cup ToSet(sending[c])
      BY <2>1, ConcatSet, Zenon DEF Queue
    <3> QED
      BY <2>3, <3>1, Zenon
  <2>5. m \in Messages /\ IsSent(m)
    <3>1. CASE m \in ToSet(recvd[c])
      BY <2>1, <3>1, ElementOfSeq, LenProperties DEF IInv, Order, RecvdKnown, ToSet
    <3>2. CASE m \in ToSet(Queue(c))
      BY <3>2, QueueType DEF IInv, Order, QueueIsSent, ToSet
    <3> QED
      BY <2>4, <3>1, <3>2
  <2>6. m.src \in Clients /\ m.number \in 1..Len(sentAt[m.src]) /\ m.ts \in ClockVal
    BY <2>5, StampType DEF IInv, IsSent, Messages
  <2>7. Len(sentAt[m.src]) <= MaxMsgs[m.src] /\ MaxMsgs[m.src] \in Nat
        /\ Len(sentAt[m.src]) \in Nat
    BY <2>6, StampType, BoundsAssumption DEF IInv, Sizes
  <2> QED
    BY <2>6, <2>7 DEF IsMessage
<1>2. relay.to # {} => IsMessage(relay.msg)
  <2>1. ASSUME relay.to # {}
        PROVE  /\ relay.msg.src \in Clients /\ relay.msg.number \in 1..Len(sentAt[relay.msg.src])
               /\ relay.msg.ts \in ClockVal
    BY <2>1, StampType DEF IInv, Shapes, Messages, Order, RelayKnown, IsSent
  <2>2. ASSUME relay.to # {}
        PROVE  /\ Len(sentAt[relay.msg.src]) <= MaxMsgs[relay.msg.src]
               /\ MaxMsgs[relay.msg.src] \in Nat /\ Len(sentAt[relay.msg.src]) \in Nat
    BY <2>1, <2>2, StampType, BoundsAssumption DEF IInv, Sizes
  <2> QED
    BY <2>1, <2>2 DEF IsMessage
<1>3. Cardinality(offered) <= 1
  <2>1. CASE offered = {}
    <3>1. Cardinality(offered) = 0
      BY <2>1, FS_EmptySet
    <3> QED
      BY <3>1
  <2>2. CASE offered # {}
    <3>1. PICK c : offered = {c}
      BY <2>2 DEF IInv, Sizes
    <3>2. Cardinality(offered) = 1
      BY <3>1, FS_Singleton
    <3> QED
      BY <3>2
  <2> QED
    BY <2>1, <2>2
<1>4. \A c \in Clients : sentAt[c] \in Seq(ClockVal) /\ accepted[c] \in 0..Len(sentAt[c])
  BY StampType DEF IInv, Shapes, Sizes
<1> QED
  BY <1>1, <1>2, <1>3, <1>4 DEF IInv, Shapes, Sizes, TypeOK

-----------------------------------------------------------------------------
(***************************************************************************)
(* The initial state, and the steps that send or receive nothing.          *)
(***************************************************************************)

LEMMA InitInvariant == Init => IInv
<1> SUFFICES ASSUME Init PROVE IInv
  OBVIOUS
<1>1. NewClockVal \in ClockVal /\ \A p \in Ids : NewClockVal[p] = 0
  BY DEF NewClockVal, ClockVal
<1>2. Nothing \in [to : SUBSET Clients, msg : Messages] /\ Nothing.to = {}
  BY <1>1, ServerIsNoClient DEF Nothing, Message, Messages
<1>3. Shapes
  BY <1>1, <1>2 DEF Init, Shapes
<1>4. Sizes
  BY <1>2, BoundsAssumption, ServerIsNoClient DEF Init, Sizes
<1>5. \A c \in Clients : DOMAIN Queue(c) = {}
  <2>1. \A c \in Clients : Queue(c) = << >>
    BY ConcatEmptySeq DEF Init, Queue
  <2> QED
    BY <2>1
<1>6. NoClockIsAhead /\ AcceptedKnown
  BY <1>1, ServerIsNoClient DEF Init, NoClockIsAhead, AcceptedKnown, LastAccepted
<1>7. StampsGrow /\ QueueIsSent /\ RecvdKnown /\ RelayKnown /\ CausalDelivery
  BY <1>2, <1>5 DEF Init, StampsGrow, QueueIsSent, RecvdKnown, RelayKnown, CausalDelivery
<1> QED
  BY <1>3, <1>4, <1>6, <1>7 DEF IInv, Order

\* Order is about the clocks, the history, the queues, and what is relayed and received.
LEMMA OrderKept ==
  ASSUME Order, UNCHANGED <<clock, recvd, sentAt, relay, accepted>>,
         \A c \in Clients : Queue(c)' = Queue(c)
  PROVE  Order'
<1>1. NoClockIsAhead' /\ StampsGrow' /\ AcceptedKnown'
  BY DEF Order, NoClockIsAhead, StampsGrow, AcceptedKnown, LastAccepted
<1>2. QueueIsSent'
  BY DEF Order, QueueIsSent, IsSent, Origin
<1>3. RecvdKnown' /\ RelayKnown' /\ CausalDelivery'
  BY DEF Order, RecvdKnown, RelayKnown, CausalDelivery, IsSent, Origin
<1> QED
  BY <1>1, <1>2, <1>3 DEF Order

\* Shutting down, and stuttering.
LEMMA ControlInvariant ==
  ASSUME IInv,
         \/ QuitReceived \/ ServerReturns \/ UNCHANGED vars
         \/ \E c \in Clients : ClientReturns(c) \/ ForwarderReturns(c)
  PROVE  IInv'
<1>1. UNCHANGED <<clock, clientVars, serverVars>>
  BY DEF QuitReceived, ServerReturns, ClientReturns, ForwarderReturns, vars
<1>2. Order'
  <2>1. \A c \in Clients : Queue(c)' = Queue(c)
    BY <1>1 DEF Queue, clientVars
  <2> QED
    BY <1>1, <2>1, OrderKept DEF IInv, clientVars, serverVars
<1>3. /\ state' \in [Ids -> {"run", "closed", "quitting", "quit"}]
      /\ \A c \in Clients : state'[c] \in {"run", "closed"}
      /\ state'[Server] \in {"run", "quitting", "quit"}
      /\ forwards' \subseteq Clients
  <2>1. CASE QuitReceived \/ ServerReturns
    BY <2>1, ServerIsNoClient DEF QuitReceived, ServerReturns, IInv, Shapes, Sizes
  <2>2. CASE \E c \in Clients : ClientReturns(c) \/ ForwarderReturns(c)
    BY <2>2, ServerIsNoClient DEF ClientReturns, ForwarderReturns, IInv, Shapes, Sizes
  <2>3. CASE UNCHANGED vars
    BY <2>3 DEF vars, IInv, Shapes, Sizes
  <2> QED
    BY <2>1, <2>2, <2>3
<1>4. Shapes' /\ Sizes'
  BY <1>1, <1>3 DEF IInv, Shapes, Sizes, clientVars, serverVars
<1> QED
  BY <1>2, <1>4 DEF IInv

\* The forwarder takes the first message of the client's channel: the queue is as it was.
LEMMA ForwardInvariant ==
  ASSUME IInv, NEW c \in Clients, Forward(c)
  PROVE  IInv'
<1> DEFINE s == sending[c]
<1>1. s \in Seq(Messages) /\ s # << >> /\ forwarder[c] = << >>
  BY DEF Forward, ForwarderFree, IInv, Shapes
<1>2. /\ Head(s) \in Messages /\ Tail(s) \in Seq(Messages) /\ Len(Tail(s)) = Len(s) - 1
      /\ Len(s) \in Nat
  BY <1>1, HeadTailProperties, LenProperties
<1>3. Append(<< >>, Head(s)) = <<Head(s)>>
  OBVIOUS
<1>4. /\ forwarder' = [forwarder EXCEPT ![c] = <<Head(s)>>]
      /\ sending' = [sending EXCEPT ![c] = Tail(s)]
      /\ UNCHANGED <<clock, recvd, sentAt, serverVars, state, forwards>>
  BY <1>1, <1>3 DEF Forward
<1>5. Shapes' /\ Sizes'
  <2>1. <<Head(s)>> \in Seq(Messages) /\ Len(<<Head(s)>>) = 1
    BY <1>2
  <2> HIDE DEF s
  <2>2. Len(sending[c]) <= 2 /\ Len(s) = Len(sending[c])
    BY DEF IInv, Sizes, s
  <2>3. Shapes'
    BY <1>2, <1>4, <2>1 DEF IInv, Shapes, serverVars
  <2>4. Sizes'
    BY <1>2, <1>4, <2>1, <2>2 DEF IInv, Shapes, Sizes, serverVars
  <2> QED
    BY <2>3, <2>4
<1>6. ASSUME NEW d \in Clients PROVE Queue(d)' = Queue(d)
  <2>1. CASE d = c
    <3>1. <<Head(s)>> \o Tail(s) = s /\ << >> \o s = s
      BY <1>1, <1>2, ConcatEmptySeq
    <3>2. forwarder'[c] = <<Head(s)>> /\ sending'[c] = Tail(s)
      BY <1>4 DEF IInv, Shapes
    <3>3. forwarder'[c] \o sending'[c] = forwarder[c] \o sending[c]
      BY <1>1, <3>1, <3>2, Zenon
    <3> QED
      BY <2>1, <3>3, Zenon DEF Queue
  <2>2. CASE d # c
    BY <1>4, <2>2 DEF Queue, IInv, Shapes
  <2> QED
    BY <2>1, <2>2
<1> QED
  BY <1>4, <1>5, <1>6, OrderKept DEF IInv, serverVars

-----------------------------------------------------------------------------
(***************************************************************************)
(* The server's broadcast.                                                 *)
(***************************************************************************)

\* The server's own time is all that changes of its clock.
LEMMA ServerSendInvariant ==
  ASSUME IInv, NEW c \in Clients, ServerSend(c)
  PROVE  IInv'
<1> DEFINE v == Increment(clock[Server], Server)
<1>1. v \in ClockVal /\ \A q \in Ids : v[q] = clock[Server][q] + IF q = Server THEN 1 ELSE 0
  BY IncrementMeans, ServerIsNoClient DEF IInv, Shapes
<1>2. /\ clock' = [clock EXCEPT ![Server] = v] /\ clock'[Server] = v
      /\ \A p \in Ids : p # Server => clock'[p] = clock[p]
  BY ServerIsNoClient DEF ServerSend, IInv, Shapes
<1>3. /\ relay' = [relay EXCEPT !.msg.ts = v]
      /\ offered' = {c} /\ c \in relay.to
      /\ UNCHANGED <<sending, forwarder, recvd, sentAt, accepted, state, forwards>>
  BY <1>2 DEF ServerSend, clientVars
<1>4. /\ relay'.to = relay.to /\ relay'.msg \in Messages
      /\ relay'.msg.src = relay.msg.src /\ relay'.msg.number = relay.msg.number
      /\ relay'.msg.ts = v
  BY <1>1, <1>3 DEF IInv, Shapes, Messages
<1> HIDE DEF v
<1>5. Shapes'
  BY <1>1, <1>2, <1>3, ServerIsNoClient DEF IInv, Shapes, Messages
<1>6. Sizes'
  BY <1>3, <1>4 DEF IInv, Sizes
<1>7. /\ AtMost(clock[Server], clock'[Server])
      /\ \A u \in ClockVal : AtMost(u, clock[Server]) => AtMost(u, clock'[Server])
  <2>1. AtMost(clock[Server], v)
    BY <1>1, ClockType, ServerIsNoClient DEF AtMost, IInv
  <2> QED
    BY <1>1, <1>2, <2>1, AtMostTransitive, ClockType, ServerIsNoClient DEF IInv
<1>8. NoClockIsAhead'
  <2> SUFFICES ASSUME NEW p \in Ids, NEW q \in Ids PROVE clock'[p][q] <= clock'[q][q]
    BY DEF NoClockIsAhead
  <2>1. clock[p][q] \in Nat /\ clock[q][q] \in Nat /\ clock[p][q] <= clock[q][q]
    BY ClockType DEF IInv, Order, NoClockIsAhead
  <2> QED
    BY <1>1, <1>2, <2>1
<1>9. StampsGrow'
  BY <1>2, <1>3, ServerIsNoClient DEF IInv, Order, StampsGrow
<1>10. QueueIsSent'
  <2>1. \A d \in Clients : Queue(d)' = Queue(d)
    BY <1>3 DEF Queue
  <2> QED
    BY <1>3, <2>1 DEF IInv, Order, QueueIsSent, IsSent, Origin
<1>11. AcceptedKnown'
  <2> SUFFICES ASSUME NEW d \in Clients
               PROVE  /\ accepted'[d] # 0 => AtMost(sentAt'[d][accepted'[d]], clock'[Server])
                      /\ \A p \in Ids \ {d} : clock'[p][d] <= LastAccepted(d)'
    BY DEF AcceptedKnown
  <2>1. accepted[d] # 0 => sentAt[d][accepted[d]] \in ClockVal
    BY StampType DEF IInv, Shapes, Sizes
  <2>2. \A p \in Ids : clock'[p][d] = clock[p][d]
    BY <1>1, <1>2, ClockType, ServerIsNoClient DEF IInv
  <2>3. LastAccepted(d)' = LastAccepted(d)
    BY <1>3 DEF LastAccepted
  <2> QED
    BY <1>3, <1>7, <2>1, <2>2, <2>3 DEF IInv, Order, AcceptedKnown
<1>12. \A m : (IsSent(m)' <=> IsSent(m)) /\ Origin(m)' = Origin(m)
  BY <1>3 DEF IsSent, Origin
<1>13. RecvdKnown' /\ CausalDelivery'
  <2>1. \A d \in Clients : \A i \in DOMAIN recvd[d] :
          IsSent(recvd[d][i]) /\ AtMost(Origin(recvd[d][i]), clock'[Server])
    BY <1>7, OriginType DEF IInv, Order, RecvdKnown
  <2> QED
    BY <1>3, <2>1 DEF IInv, Order, RecvdKnown, CausalDelivery, IsSent, Origin
<1>14. RelayKnown'
  <2> SUFFICES ASSUME relay.to # {}
               PROVE  /\ IsSent(relay.msg)'
                      /\ AtMost(relay'.msg.ts, clock'[Server])
                      /\ AtMost(Origin(relay.msg)', clock'[Server])
                      /\ \A d \in relay.to : \A i \in DOMAIN recvd[d] :
                           Compare(Origin(relay.msg)', Origin(recvd[d][i])') # -1
    BY <1>3, <1>4 DEF RelayKnown
  <2>1. IsSent(relay.msg) /\ AtMost(Origin(relay.msg), clock[Server])
        /\ \A d \in relay.to : \A i \in DOMAIN recvd[d] :
             Compare(Origin(relay.msg), Origin(recvd[d][i])) # -1
    BY DEF IInv, Order, RelayKnown
  <2>2. IsSent(relay.msg)' /\ Origin(relay.msg)' = Origin(relay.msg)
    BY <1>3, <1>4, <2>1 DEF IsSent, Origin
  <2>3. AtMost(relay'.msg.ts, clock'[Server])
    BY <1>1, <1>2, <1>4 DEF AtMost, ClockVal
  <2>4. AtMost(Origin(relay.msg), clock'[Server])
    BY <1>7, <2>1, OriginType DEF IInv
  <2>5. \A d \in relay.to : \A i \in DOMAIN recvd[d] :
          Compare(Origin(relay.msg)', Origin(recvd[d][i])') # -1
    BY <1>3, <2>1, <2>2 DEF Origin
  <2> QED
    BY <1>3, <2>2, <2>3, <2>4, <2>5
<1> QED
  BY <1>5, <1>6, <1>8, <1>9, <1>10, <1>11, <1>13, <1>14 DEF IInv, Order

\* A client receives: it knows what the server knew, and the message is not earlier than any
\* it has received.
LEMMA ClientHandleInvariant ==
  ASSUME IInv, NEW c \in Clients, ClientHandle(c)
  PROVE  IInv'
<1>1. PICK m \in Messages : m = relay.msg
  BY DEF IInv, Shapes
<1>2. /\ c \in relay.to
      /\ IsSent(m) /\ Origin(m) \in ClockVal /\ m.ts \in ClockVal
      /\ AtMost(m.ts, clock[Server]) /\ AtMost(Origin(m), clock[Server])
      /\ \A d \in relay.to : \A i \in DOMAIN recvd[d] : Compare(Origin(m), Origin(recvd[d][i])) # -1
  <2>1. c \in relay.to
    BY DEF ClientHandle, IInv, Sizes
  <2>2. IsSent(m) /\ AtMost(m.ts, clock[Server]) /\ AtMost(Origin(m), clock[Server])
        /\ \A d \in relay.to : \A i \in DOMAIN recvd[d] :
             Compare(Origin(m), Origin(recvd[d][i])) # -1
    BY <1>1, <2>1 DEF IInv, Order, RelayKnown
  <2> QED
    BY <2>1, <2>2, OriginType DEF IInv, Messages
<1>3. PICK v \in ClockVal :
        /\ v = Received(clock[c], m.ts, c)
        /\ \A q \in Ids : /\ clock[c][q] <= v[q] /\ m.ts[q] <= v[q]
                          /\ q # c => v[q] = clock[c][q] \/ v[q] = m.ts[q]
  <2>1. clock[c] \in ClockVal /\ c \in Ids
    BY ClockType, ServerIsNoClient DEF IInv
  <2> DEFINE w == Received(clock[c], m.ts, c)
  <2>2. /\ w \in ClockVal
        /\ \A q \in Ids : /\ clock[c][q] <= w[q] /\ m.ts[q] <= w[q]
                          /\ q # c => w[q] = clock[c][q] \/ w[q] = m.ts[q]
    BY <1>2, <2>1, ReceivedMeans
  <2> QED
    BY <2>2
<1>4. ~ ClientDrops(c, relay.msg)
  BY DEF ClientDrops, Compare
<1>5. /\ clock' = [clock EXCEPT ![c] = v] /\ clock'[c] = v
      /\ \A p \in Ids : p # c => clock'[p] = clock[p]
      /\ recvd' = [recvd EXCEPT ![c] = Append(@, m)]
      /\ offered' = {}
      /\ UNCHANGED <<sending, forwarder, sentAt, accepted, state, forwards>>
  BY <1>1, <1>3, <1>4, ServerIsNoClient DEF ClientHandle, IInv, Shapes
<1>6. /\ relay' \in [to : SUBSET Clients, msg : Messages]
      /\ relay'.to = relay.to \ {c}
      /\ relay'.to # {} => relay'.msg = m
  <2>1. Nothing \in [to : SUBSET Clients, msg : Messages] /\ Nothing.to = {}
    BY ServerIsNoClient DEF Nothing, Message, Messages, NewClockVal, ClockVal
  <2>2. relay' = IF relay.to = {c} THEN Nothing ELSE [relay EXCEPT !.to = @ \ {c}]
    BY DEF ClientHandle, RelayLeft
  <2> HIDE DEF Nothing
  <2> QED
    BY <1>1, <1>2, <2>1, <2>2 DEF IInv, Shapes
<1>7. /\ Append(recvd[c], m) \in Seq(Messages) /\ recvd'[c] = Append(recvd[c], m)
      /\ \A d \in Clients : d # c => recvd'[d] = recvd[d]
      /\ DOMAIN recvd[c] = 1..Len(recvd[c]) /\ DOMAIN recvd'[c] = 1..(Len(recvd[c]) + 1)
      /\ Len(recvd[c]) \in Nat
      /\ \A i \in 1..Len(recvd[c]) : recvd'[c][i] = recvd[c][i]
      /\ recvd'[c][Len(recvd[c]) + 1] = m
  <2>1. recvd[c] \in Seq(Messages)
    BY DEF IInv, Shapes
  <2>2. recvd'[c] = Append(recvd[c], m) /\ \A d \in Clients : d # c => recvd'[d] = recvd[d]
    BY <1>5 DEF IInv, Shapes
  <2> QED
    BY <2>1, <2>2, AppendProperties, LenProperties
<1>8. Shapes'
  BY <1>3, <1>5, <1>6, <1>7 DEF IInv, Shapes
<1>9. Sizes'
  BY <1>5, <1>6 DEF IInv, Sizes
<1>10. clock'[Server] = clock[Server]
  BY <1>5, ServerIsNoClient
<1>11. \A p, q \in Ids : clock[p][q] \in Nat /\ clock[p][q] <= clock[q][q] /\ m.ts[q] \in Nat
                        /\ m.ts[q] <= clock[Server][q] /\ v[q] \in Nat
  BY <1>2, <1>3, ClockType DEF IInv, Order, NoClockIsAhead, AtMost, ClockVal
<1>12. NoClockIsAhead'
  <2> SUFFICES ASSUME NEW p \in Ids, NEW q \in Ids PROVE clock'[p][q] <= clock'[q][q]
    BY DEF NoClockIsAhead
  <2>1. CASE q = c /\ p = c
    BY <1>3, <1>5, <1>11, <2>1
  <2>2. CASE q = c /\ p # c
    BY <1>3, <1>5, <1>11, <2>2
  <2>3. CASE q # c /\ p = c
    BY <1>3, <1>5, <1>11, <2>3, ServerIsNoClient
  <2>4. CASE q # c /\ p # c
    BY <1>5, <1>11, <2>4
  <2> QED
    BY <2>1, <2>2, <2>3, <2>4
<1>13. StampsGrow'
  <2>1. \A d \in Clients : \A k \in DOMAIN sentAt[d] : AtMost(sentAt[d][k], clock'[d])
    <3>1. AtMost(clock[c], v)
      BY <1>3 DEF AtMost
    <3>2. \A d \in Clients : \A k \in DOMAIN sentAt[d] :
            sentAt[d][k] \in ClockVal /\ AtMost(sentAt[d][k], clock[d])
      BY StampType DEF IInv, Order, StampsGrow
    <3> QED
      BY <1>3, <1>5, <3>1, <3>2, AtMostTransitive, ClockType, ServerIsNoClient DEF IInv
  <2> QED
    BY <1>5, <2>1 DEF IInv, Order, StampsGrow
<1>14. QueueIsSent'
  <2>1. \A d \in Clients : Queue(d)' = Queue(d)
    BY <1>5 DEF Queue
  <2> QED
    BY <1>5, <2>1 DEF IInv, Order, QueueIsSent, IsSent, Origin
<1>15. AcceptedKnown'
  <2> SUFFICES ASSUME NEW d \in Clients
               PROVE  /\ accepted'[d] # 0 => AtMost(sentAt'[d][accepted'[d]], clock'[Server])
                      /\ \A p \in Ids \ {d} : clock'[p][d] <= LastAccepted(d)'
    BY DEF AcceptedKnown
  <2>1. LastAccepted(d)' = LastAccepted(d)
    BY <1>5 DEF LastAccepted
  <2>2. \A p \in Ids \ {d} : clock[p][d] <= LastAccepted(d)
    BY DEF IInv, Order, AcceptedKnown
  <2>3. \A p \in Ids \ {d} : clock'[p][d] <= LastAccepted(d)
    <3> SUFFICES ASSUME NEW p \in Ids \ {d} PROVE clock'[p][d] <= LastAccepted(d)
      OBVIOUS
    <3>1. LastAccepted(d) \in Int
      BY LastAcceptedType DEF IInv
    <3>2. m.ts[d] <= LastAccepted(d)
      BY <1>11, <2>2, <3>1, ServerIsNoClient
    <3> QED
      BY <1>3, <1>5, <2>2, <3>2, ServerIsNoClient
  <2> QED
    BY <1>5, <1>10, <2>1, <2>3 DEF IInv, Order, AcceptedKnown
<1>16. RecvdKnown'
  <2> SUFFICES ASSUME NEW d \in Clients, NEW i \in DOMAIN recvd'[d]
               PROVE  /\ IsSent(recvd'[d][i])
                      /\ AtMost(Origin(recvd'[d][i]), clock[Server])
    BY <1>5, <1>10 DEF RecvdKnown, IsSent, Origin
  <2>1. (i \in DOMAIN recvd[d] /\ recvd'[d][i] = recvd[d][i]) \/ recvd'[d][i] = m
    BY <1>7
  <2> QED
    BY <1>2, <2>1 DEF IInv, Order, RecvdKnown
<1>17. RelayKnown'
  <2> SUFFICES ASSUME relay'.to # {}
               PROVE  /\ IsSent(m)
                      /\ AtMost(m.ts, clock[Server])
                      /\ AtMost(Origin(m), clock[Server])
                      /\ \A d \in relay'.to : \A i \in DOMAIN recvd'[d] :
                           Compare(Origin(m), Origin(recvd'[d][i])) # -1
    BY <1>5, <1>6, <1>10 DEF RelayKnown, IsSent, Origin
  <2>1. \A d \in relay'.to : d \in relay.to /\ recvd'[d] = recvd[d]
    BY <1>6, <1>7
  <2> QED
    BY <1>2, <2>1
<1>18. CausalDelivery'
  <2> SUFFICES ASSUME NEW d \in Clients, NEW i \in DOMAIN recvd'[d], NEW j \in DOMAIN recvd'[d], i < j
               PROVE  Compare(Origin(recvd'[d][j]), Origin(recvd'[d][i])) # -1
    BY <1>5, SMTT(30) DEF CausalDelivery, Origin
  <2>1. CASE d = c /\ j = Len(recvd[c]) + 1
    <3>1. i \in DOMAIN recvd[c] /\ recvd'[d][i] = recvd[c][i] /\ recvd'[d][j] = m
      BY <1>7, <2>1
    <3> QED
      BY <1>2, <3>1
  <2>2. CASE ~ (d = c /\ j = Len(recvd[c]) + 1)
    <3>1. /\ i \in DOMAIN recvd[d] /\ recvd'[d][i] = recvd[d][i]
          /\ j \in DOMAIN recvd[d] /\ recvd'[d][j] = recvd[d][j]
      BY <1>7, <2>2, SMTT(30)
    <3> QED
      BY <3>1 DEF IInv, Order, CausalDelivery
  <2> QED
    BY <2>1, <2>2
<1> QED
  BY <1>8, <1>9, <1>12, <1>13, <1>14, <1>15, <1>16, <1>17, <1>18 DEF IInv, Order

-----------------------------------------------------------------------------
(***************************************************************************)
(* The server receives.                                                    *)
(***************************************************************************)

\* The message that c's forwarder holds is the first of c's queue.
LEMMA FirstOfQueue ==
  ASSUME IInv, NEW c \in Clients, forwarder[c] # << >>
  PROVE  \E m \in Messages :
           /\ forwarder[c] = <<m>>
           /\ m.src = c /\ m.number \in DOMAIN sentAt[c] /\ m.ts = sentAt[c][m.number]
           /\ m.number # accepted[c]
           /\ \A i \in DOMAIN sending[c] : /\ i + 1 \in DOMAIN Queue(c)
                                          /\ Queue(c)[i + 1] = sending[c][i]
                                          /\ sending[c][i].number # m.number
<1>1. PICK f \in Seq(Messages), g \in Seq(Messages) : f = forwarder[c] /\ g = sending[c]
  BY DEF IInv, Shapes
<1>2. f # << >> /\ Len(f) <= 1 /\ Queue(c) = f \o g
  BY <1>1 DEF IInv, Sizes, Queue
<1>3. PICK m \in Messages : m = f[1] /\ f = <<m>>
  BY <1>2, OneElement
<1>4. /\ 1 \in DOMAIN Queue(c) /\ Queue(c)[1] = m
      /\ \A i \in DOMAIN g : i + 1 \in DOMAIN Queue(c) /\ Queue(c)[i + 1] = g[i]
  <2>1. 1 \in DOMAIN (f \o g) /\ (f \o g)[1] = f[1]
    BY <1>2, OneElement, Zenon
  <2>2. ASSUME NEW i \in DOMAIN g
        PROVE  i + 1 \in DOMAIN (f \o g) /\ (f \o g)[i + 1] = g[i]
    BY <1>2, BehindOne, Zenon
  <2> QED
    BY <1>2, <1>3, <2>1, <2>2, Zenon
<1>5. m.src = c /\ m.number \in DOMAIN sentAt[c] /\ m.ts = sentAt[c][m.number] /\ m.number # accepted[c]
  BY <1>4 DEF IInv, Order, QueueIsSent, IsSent, Origin
<1>6. ASSUME NEW i \in DOMAIN g PROVE g[i].number # m.number
  <2>1. i \in Nat \ {0}
    BY LenProperties
  <2>2. Queue(c)[1].number = Queue(c)[i + 1].number => 1 = i + 1
    BY <1>4 DEF IInv, Order, QueueIsSent
  <2> QED
    BY <1>4, <2>1, <2>2
<1> QED
  BY <1>1, <1>3, <1>4, <1>5, <1>6

\* The server's clock is later than the message just when a later one of the same client was
\* accepted: it knows of all that client knew, and of no more of the client's own time.
LEMMA DropsJustOvertaken ==
  ASSUME IInv, NEW c \in Clients, NEW m, m.number \in DOMAIN sentAt[c],
         m.ts = sentAt[c][m.number], m.number # accepted[c]
  PROVE  ServerDrops(m) <=> m.number < accepted[c]
<1> DEFINE k == m.number
           a == accepted[c]
<1>1. /\ k \in Nat /\ a \in Nat /\ m.ts \in ClockVal /\ clock[Server] \in ClockVal
      /\ a # 0 => a \in DOMAIN sentAt[c] /\ sentAt[c][a] \in ClockVal
  BY StampType, LastAcceptedType, ClockType, ServerIsNoClient DEF IInv, Shapes
<1>2. c \in Ids /\ Server # c /\ m.ts[c] \in Nat /\ clock[Server][c] \in Nat
      /\ LastAccepted(c) \in Nat
  BY <1>1, ServerIsNoClient, LastAcceptedType DEF ClockVal, IInv
<1>3. CASE k < a
  <2>1. a # 0 /\ a \in DOMAIN sentAt[c] /\ sentAt[c][a][c] \in Nat
    BY <1>1, <1>2, <1>3 DEF ClockVal
  <2>2. AtMost(m.ts, sentAt[c][a]) /\ m.ts[c] < sentAt[c][a][c]
    BY <1>3, <2>1 DEF IInv, Order, StampsGrow
  <2>3. AtMost(sentAt[c][a], clock[Server])
    BY <2>1 DEF IInv, Order, AcceptedKnown
  <2>4. AtMost(m.ts, clock[Server])
    BY <1>1, <2>1, <2>2, <2>3, AtMostTransitive
  <2>5. clock[Server][c] > m.ts[c]
    BY <1>2, <2>1, <2>2, <2>3 DEF AtMost
  <2> QED
    BY <1>1, <1>2, <1>3, <2>4, <2>5, CompareMeans DEF ServerDrops
<1>4. CASE k > a
  <2>1. LastAccepted(c) < m.ts[c]
    BY <1>1, <1>2, <1>4 DEF IInv, Order, StampsGrow, LastAccepted
  <2>2. clock[Server][c] <= LastAccepted(c)
    BY <1>2, ServerIsNoClient DEF IInv, Order, AcceptedKnown
  <2>3. ~ AtMost(m.ts, clock[Server])
    BY <1>2, <2>1, <2>2 DEF AtMost
  <2> QED
    BY <1>1, <1>4, <2>3, CompareMeans DEF ServerDrops
<1> QED
  BY <1>1, <1>3, <1>4

\* The server drops a message, or accepts it and may relay it.
LEMMA ServerHandleInvariant ==
  ASSUME IInv, NEW c \in Clients, ServerHandle(c)
  PROVE  IInv'
<1>1. PICK m \in Messages :
        /\ forwarder[c] = <<m>>
        /\ m.src = c /\ m.number \in DOMAIN sentAt[c] /\ m.ts = sentAt[c][m.number]
        /\ m.number # accepted[c]
        /\ \A i \in DOMAIN sending[c] : /\ i + 1 \in DOMAIN Queue(c)
                                       /\ Queue(c)[i + 1] = sending[c][i]
                                       /\ sending[c][i].number # m.number
  BY FirstOfQueue DEF ServerHandle
<1>2. ServerDrops(m) <=> m.number < accepted[c]
  BY <1>1, DropsJustOvertaken
<1>3. forwarder[c][1] = m
  BY <1>1
<1>4. /\ forwarder' = [forwarder EXCEPT ![c] = << >>]
      /\ relay.to = {} /\ offered = {}
      /\ UNCHANGED <<sending, recvd, sentAt, offered, state, forwards>>
  BY DEF ServerHandle, ServerSelects, IInv, Sizes
<1>5. \A d \in Clients : \A i \in DOMAIN Queue(d)' :
        LET j == IF d = c THEN i + 1 ELSE i IN
        /\ j \in DOMAIN Queue(d) /\ Queue(d)'[i] = Queue(d)[j]
        /\ d = c => Queue(d)[j].number # m.number
  <2>1. ASSUME NEW d \in Clients, d # c PROVE Queue(d)' = Queue(d)
    BY <1>4, <2>1 DEF Queue, IInv, Shapes
  <2>2. Queue(c)' = sending[c]
    <3>1. forwarder'[c] = << >> /\ sending'[c] = sending[c] /\ sending[c] \in Seq(Messages)
      BY <1>4 DEF IInv, Shapes
    <3> QED
      BY <3>1, ConcatEmptySeq DEF Queue
  <2>3. ASSUME NEW d \in Clients, NEW i \in DOMAIN Queue(d)', d # c
        PROVE  i \in DOMAIN Queue(d) /\ Queue(d)'[i] = Queue(d)[i]
    BY <2>1, <2>3
  <2>4. ASSUME NEW i \in DOMAIN Queue(c)'
        PROVE  /\ i + 1 \in DOMAIN Queue(c) /\ Queue(c)'[i] = Queue(c)[i + 1]
               /\ Queue(c)[i + 1].number # m.number
    BY <1>1, <2>2, <2>4
  <2> QED
    BY <2>3, <2>4
<1>6. ASSUME \A d \in Clients : accepted'[d] = accepted[d] \/ (d = c /\ accepted'[d] = m.number)
      PROVE  QueueIsSent'
  <2> SUFFICES ASSUME NEW d \in Clients, NEW i \in DOMAIN Queue(d)'
               PROVE  /\ Queue(d)'[i].src = d
                      /\ IsSent(Queue(d)'[i])
                      /\ Queue(d)'[i].ts = Origin(Queue(d)'[i])
                      /\ Queue(d)'[i].number # accepted'[d]
                      /\ \A j \in DOMAIN Queue(d)' :
                           Queue(d)'[i].number = Queue(d)'[j].number => i = j
    BY <1>4 DEF QueueIsSent, IsSent, Origin
  <2>1. \A k \in DOMAIN Queue(d) : /\ Queue(d)[k].src = d
                                 /\ IsSent(Queue(d)[k])
                                 /\ Queue(d)[k].ts = Origin(Queue(d)[k])
                                 /\ Queue(d)[k].number # accepted[d]
                                 /\ \A l \in DOMAIN Queue(d) :
                                      Queue(d)[k].number = Queue(d)[l].number => k = l
    BY DEF IInv, Order, QueueIsSent
  <2>2. \A k \in DOMAIN Queue(d)' : k \in Nat
    <3>1. forwarder'[d] \in Seq(Messages) /\ sending'[d] \in Seq(Messages)
      BY <1>4, EmptySeq DEF IInv, Shapes
    <3>2. Queue(d)' \in Seq(Messages)
      BY <3>1, ConcatProperties DEF Queue
    <3> QED
      BY <3>2, LenProperties
  <2>3. CASE d = c
    <3>1. \A k \in DOMAIN Queue(d)' : /\ k + 1 \in DOMAIN Queue(d) /\ Queue(d)'[k] = Queue(d)[k + 1]
                                   /\ Queue(d)[k + 1].number # m.number
      BY <1>5, <2>3
    <3> QED
      BY <1>6, <2>1, <2>2, <3>1
  <2>4. CASE d # c
    <3>1. \A k \in DOMAIN Queue(d)' : k \in DOMAIN Queue(d) /\ Queue(d)'[k] = Queue(d)[k]
      BY <1>5, <2>4
    <3> QED
      BY <1>6, <2>1, <2>4, <3>1
  <2> QED
    BY <2>3, <2>4
<1>7. CASE ServerDrops(m) /\ UNCHANGED <<clock, accepted, relay>>
  <2>1. Shapes' /\ Sizes'
    <3>1. << >> \in Seq(Messages) /\ Len(<< >>) = 0
      BY EmptySeq
    <3> QED
      BY <1>4, <1>7, <3>1 DEF IInv, Shapes, Sizes
  <2>2. NoClockIsAhead' /\ StampsGrow' /\ AcceptedKnown'
    BY <1>4, <1>7 DEF IInv, Order, NoClockIsAhead, StampsGrow, AcceptedKnown, LastAccepted
  <2>3. RecvdKnown' /\ RelayKnown' /\ CausalDelivery'
    BY <1>4, <1>7 DEF IInv, Order, RecvdKnown, RelayKnown, CausalDelivery, IsSent, Origin
  <2>4. QueueIsSent'
    <3>1. \A d \in Clients : accepted'[d] = accepted[d] \/ (d = c /\ accepted'[d] = m.number)
      BY <1>7
    <3> QED
      BY <1>6, <3>1
  <2> QED
    BY <2>1, <2>2, <2>3, <2>4 DEF IInv, Order
<1>8. CASE /\ ~ServerDrops(m)
           /\ clock' = [clock EXCEPT ![Server] = Received(@, m.ts, Server)]
           /\ accepted' = [accepted EXCEPT ![c] = m.number]
           /\ \/ UNCHANGED relay
              \/ relay' = IF Clients = {c} THEN Nothing ELSE [to |-> Clients \ {c}, msg |-> m]
  <2>1. PICK v \in ClockVal :
          /\ clock' = [clock EXCEPT ![Server] = v]
          /\ \A q \in Ids : /\ clock[Server][q] <= v[q] /\ m.ts[q] <= v[q]
                            /\ q # Server => v[q] = clock[Server][q] \/ v[q] = m.ts[q]
    <3> DEFINE w == Received(clock[Server], m.ts, Server)
    <3>1. clock[Server] \in ClockVal /\ m.ts \in ClockVal /\ Server \in Ids
      BY ClockType, ServerIsNoClient DEF IInv, Messages
    <3>2. /\ w \in ClockVal
          /\ \A q \in Ids : /\ clock[Server][q] <= w[q] /\ m.ts[q] <= w[q]
                            /\ q # Server => w[q] = clock[Server][q] \/ w[q] = m.ts[q]
      BY <3>1, ReceivedMeans
    <3>3. clock' = [clock EXCEPT ![Server] = w]
      BY <1>8
    <3> HIDE DEF w
    <3> QED
      BY <3>2, <3>3
  <2>2. /\ clock'[Server] = v /\ \A p \in Ids : p # Server => clock'[p] = clock[p]
        /\ accepted'[c] = m.number /\ \A d \in Clients : d # c => accepted'[d] = accepted[d]
    BY <1>8, <2>1, ServerIsNoClient DEF IInv, Shapes
  <2>3. /\ relay' \in [to : SUBSET Clients, msg : Messages]
        /\ relay'.to # {} => relay'.msg = m
    <3>1. Nothing \in [to : SUBSET Clients, msg : Messages] /\ Nothing.to = {}
      BY ServerIsNoClient DEF Nothing, Message, Messages, NewClockVal, ClockVal
    <3> HIDE DEF Nothing
    <3>2. [to |-> Clients \ {c}, msg |-> m] \in [to : SUBSET Clients, msg : Messages]
      OBVIOUS
    <3> QED
      BY <1>4, <1>8, <3>1, <3>2 DEF IInv, Shapes
  <2>4. /\ IsSent(m) /\ Origin(m) = m.ts /\ m.ts \in ClockVal /\ m.number \in Nat \ {0}
        /\ m.number <= Len(sentAt[c]) /\ m.number > accepted[c]
    <3>1. m.number \in 1..Len(sentAt[c]) /\ Len(sentAt[c]) \in Nat
      BY <1>1, StampType DEF IInv
    <3> QED
      BY <1>1, <1>2, <1>8, <3>1 DEF IsSent, Origin, Messages, IInv, Shapes
  <2>5. Shapes' /\ Sizes'
    <3>1. << >> \in Seq(Messages) /\ Len(<< >>) = 0
      BY EmptySeq
    <3>2. Shapes'
      <4>1. forwarder' \in [Clients -> Seq(Messages)]
        BY <1>4, <3>1 DEF IInv, Shapes
      <4>2. clock' \in [Ids -> ClockVal] /\ accepted' \in [Clients -> Nat]
        <5>1. clock \in [Ids -> ClockVal] /\ accepted \in [Clients -> Nat]
          BY DEF IInv, Shapes
        <5>2. m.number \in Nat
          BY <2>4
        <5>3. clock' \in [Ids -> ClockVal]
          BY <1>8, <2>1, <5>1
        <5>4. accepted' \in [Clients -> Nat]
          BY <1>8, <5>1, <5>2
        <5> QED
          BY <5>3, <5>4
      <4> QED
        BY <1>4, <2>3, <4>1, <4>2 DEF IInv, Shapes
    <3>3. Sizes'
      BY <1>4, <2>2, <2>4, <3>1 DEF IInv, Shapes, Sizes
    <3> QED
      BY <3>2, <3>3
  <2>6. /\ AtMost(clock[Server], v) /\ AtMost(m.ts, v)
        /\ \A u \in ClockVal : AtMost(u, clock[Server]) => AtMost(u, v)
    <3>1. AtMost(clock[Server], v) /\ AtMost(m.ts, v)
      BY <2>1 DEF AtMost
    <3> QED
      BY <3>1, AtMostTransitive, ClockType, ServerIsNoClient DEF IInv
  <2>7. \A p, q \in Ids : /\ clock[p][q] \in Nat /\ clock[p][q] <= clock[q][q]
                         /\ m.ts[q] \in Nat /\ v[q] \in Nat /\ m.ts[q] <= clock[c][q]
    <3>1. AtMost(m.ts, clock[c])
      BY <1>1 DEF IInv, Order, StampsGrow
    <3> QED
      BY <2>1, <2>4, <3>1, ClockType DEF IInv, Order, NoClockIsAhead, AtMost, ClockVal
  <2>8. NoClockIsAhead'
    <3> SUFFICES ASSUME NEW p \in Ids, NEW q \in Ids PROVE clock'[p][q] <= clock'[q][q]
      BY DEF NoClockIsAhead
    <3>1. CASE q = Server /\ p = Server
      BY <2>2, <2>7, <3>1
    <3>2. CASE q = Server /\ p # Server
      BY <2>1, <2>2, <2>7, <3>2
    <3>3. CASE q # Server /\ p = Server
      <4>1. m.ts[q] <= clock[q][q] /\ clock[Server][q] <= clock[q][q]
        BY <2>7, <3>3, ServerIsNoClient
      <4> QED
        BY <2>1, <2>2, <3>3, <4>1
    <3>4. CASE q # Server /\ p # Server
      BY <2>2, <2>7, <3>4
    <3> QED
      BY <3>1, <3>2, <3>3, <3>4
  <2>9. StampsGrow'
    <3>1. \A d \in Clients : clock'[d] = clock[d]
      BY <2>2, ServerIsNoClient
    <3> QED
      BY <1>4, <3>1 DEF IInv, Order, StampsGrow
  <2>10. QueueIsSent'
    <3>1. \A d \in Clients : accepted'[d] = accepted[d] \/ (d = c /\ accepted'[d] = m.number)
      BY <2>2
    <3> QED
      BY <1>6, <3>1
  <2>11. AcceptedKnown'
    <3> SUFFICES ASSUME NEW d \in Clients
                 PROVE  /\ accepted'[d] # 0 => AtMost(sentAt[d][accepted'[d]], v)
                        /\ \A p \in Ids \ {d} : clock'[p][d] <= LastAccepted(d)'
      BY <1>4, <2>2 DEF AcceptedKnown
    <3>1. /\ LastAccepted(d) \in Nat
          /\ accepted[d] # 0 => accepted[d] \in DOMAIN sentAt[d] /\ sentAt[d][accepted[d]] \in ClockVal
      BY LastAcceptedType DEF IInv
    <3>2. \A p \in Ids \ {d} : clock[p][d] <= LastAccepted(d) /\ clock[p][d] \in Nat
      BY <2>7, ServerIsNoClient DEF IInv, Order, AcceptedKnown
    <3>3. d \in Ids /\ d # Server /\ m.ts[d] \in Nat /\ v[d] \in Nat
      BY <2>7, ServerIsNoClient
    <3>4. CASE d = c
      <4>1. LastAccepted(c)' = m.ts[c]
        BY <1>1, <1>4, <2>2, <2>4 DEF LastAccepted
      <4>2. LastAccepted(c) <= m.ts[c]
        <5>1. CASE accepted[c] = 0
          BY <1>1, <3>3, <3>4, <5>1 DEF LastAccepted
        <5>2. CASE accepted[c] # 0
          <6>1. sentAt[c][accepted[c]][c] < m.ts[c]
            BY <1>1, <2>4, <3>1, <3>4, <5>2 DEF IInv, Order, StampsGrow
          <6> QED
            BY <3>1, <3>3, <3>4, <5>2, <6>1 DEF LastAccepted
        <5> QED
          BY <5>1, <5>2
      <4>3. \A p \in Ids \ {c} : clock'[p][c] <= m.ts[c]
        BY <2>1, <2>2, <3>1, <3>2, <3>3, <3>4, <4>2
      <4> QED
        BY <1>1, <2>2, <2>6, <3>4, <4>1, <4>3
    <3>5. CASE d # c
      <4>1. LastAccepted(d)' = LastAccepted(d)
        BY <1>4, <2>2, <3>5 DEF LastAccepted
      <4>2. m.ts[d] <= LastAccepted(d)
        <5>1. clock[c][d] <= LastAccepted(d) /\ clock[c][d] \in Nat /\ m.ts[d] <= clock[c][d]
          BY <2>7, <3>2, <3>3, <3>5, ServerIsNoClient
        <5> QED
          BY <3>1, <3>3, <5>1
      <4>3. \A p \in Ids \ {d} : clock'[p][d] <= LastAccepted(d)
        BY <2>1, <2>2, <3>2, <3>3, <4>2
      <4>4. accepted[d] # 0 => AtMost(sentAt[d][accepted[d]], v)
        BY <2>6, <3>1 DEF IInv, Order, AcceptedKnown
      <4> QED
        BY <2>2, <3>5, <4>1, <4>3, <4>4
    <3> QED
      BY <3>4, <3>5
  <2>12. RecvdKnown' /\ CausalDelivery'
    <3>1. \A d \in Clients : \A i \in DOMAIN recvd[d] :
            IsSent(recvd[d][i]) /\ AtMost(Origin(recvd[d][i]), v)
      BY <2>6, OriginType DEF IInv, Order, RecvdKnown
    <3> QED
      BY <1>4, <2>2, <3>1 DEF IInv, Order, RecvdKnown, CausalDelivery, IsSent, Origin
  <2>13. RelayKnown'
    <3> SUFFICES ASSUME relay'.to # {}
                 PROVE  /\ IsSent(m) /\ AtMost(m.ts, v) /\ AtMost(Origin(m), v)
                        /\ \A d \in relay'.to : \A i \in DOMAIN recvd[d] :
                             Compare(Origin(m), Origin(recvd[d][i])) # -1
      BY <1>4, <2>2, <2>3 DEF RelayKnown, IsSent, Origin
    <3>1. ASSUME NEW d \in Clients, NEW i \in DOMAIN recvd[d]
          PROVE  Compare(Origin(m), Origin(recvd[d][i])) # -1
      <4> DEFINE o == Origin(recvd[d][i])
      <4>1. o \in ClockVal /\ AtMost(o, clock[Server])
        BY OriginType DEF IInv, Order, RecvdKnown
      <4>2. clock[Server] \in ClockVal
        BY ClockType, ServerIsNoClient DEF IInv
      <4>3. ASSUME AtMost(m.ts, o), \E p \in Ids : m.ts[p] < o[p] PROVE FALSE
        <5>1. AtMost(m.ts, clock[Server])
          BY <2>4, <4>1, <4>2, <4>3, AtMostTransitive
        <5>2. PICK p \in Ids : m.ts[p] < o[p]
          BY <4>3
        <5>3. clock[Server][p] > m.ts[p]
          BY <2>7, <4>1, <5>2, ServerIsNoClient DEF AtMost, ClockVal
        <5> QED
          BY <1>8, <2>4, <4>2, <5>1, <5>3, CompareMeans DEF ServerDrops
      <4> QED
        BY <2>4, <4>1, <4>3, CompareMeans
    <3> QED
      BY <2>3, <2>4, <2>6, <3>1
  <2> QED
    BY <2>5, <2>8, <2>9, <2>10, <2>11, <2>12, <2>13 DEF IInv, Order
<1> QED
  BY <1>3, <1>7, <1>8 DEF ServerHandle

-----------------------------------------------------------------------------
(***************************************************************************)
(* A client sends.                                                         *)
(***************************************************************************)

\* The first l stamps of s grow in the time of c, up to the clock u.
Grow(c, s, l, u) ==
    \A j \in 1..l : /\ 0 < s[j][c] /\ AtMost(s[j], u)
                    /\ \A i \in 1..l : i < j => AtMost(s[i], s[j]) /\ s[i][c] < s[j][c]

\* Those after the n-th are increments of the clock u by c.
Incremented(c, s, n, l, u) ==
    \A k \in (n + 1)..l, p \in Ids : s[k][p] = u[p] + IF p = c THEN k - n ELSE 0

LEMMA GrowingStamps ==
  ASSUME NEW c \in Clients, NEW u \in ClockVal,
         NEW n \in Nat, NEW l \in Nat, n < l,
         NEW s \in [1..l -> ClockVal],
         Grow(c, s, n, u), Incremented(c, s, n, l, u)
  PROVE  Grow(c, s, l, s[l])
<1> USE DEF Grow, Incremented
<1>1. c \in Ids /\ \A p \in Ids : u[p] \in Nat /\ \A k \in 1..l : s[k][p] \in Nat
  BY ServerIsNoClient DEF ClockVal
<1>2. ASSUME NEW j \in (n + 1)..l PROVE 0 < s[j][c] /\ AtMost(s[j], s[l])
  <2>1. l \in (n + 1)..l
    OBVIOUS
  <2>2. \A p \in Ids : /\ s[j][p] = u[p] + IF p = c THEN j - n ELSE 0
                      /\ s[l][p] = u[p] + IF p = c THEN l - n ELSE 0
    BY <2>1
  <2>3. s[j][c] = u[c] + (j - n) /\ s[l][c] = u[c] + (l - n)
    BY <1>1, <2>2
  <2>4. ASSUME NEW p \in Ids PROVE s[j][p] <= s[l][p]
    <3>1. CASE p = c
      BY <1>1, <2>3, <3>1
    <3>2. CASE p # c
      BY <1>1, <2>2, <3>2
    <3> QED
      BY <3>1, <3>2
  <2> QED
    BY <1>1, <2>3, <2>4 DEF AtMost
<1>3. ASSUME NEW j \in (n + 1)..l, NEW i \in (n + 1)..l, i < j
      PROVE  AtMost(s[i], s[j]) /\ s[i][c] < s[j][c]
  <2>1. \A p \in Ids : /\ s[j][p] = u[p] + IF p = c THEN j - n ELSE 0
                      /\ s[i][p] = u[p] + IF p = c THEN i - n ELSE 0
    OBVIOUS
  <2>3. s[i][c] = u[c] + (i - n) /\ s[j][c] = u[c] + (j - n)
    BY <1>1, <2>1
  <2>4. ASSUME NEW p \in Ids PROVE s[i][p] <= s[j][p]
    <3>1. CASE p = c
      BY <1>1, <1>3, <2>3, <3>1
    <3>2. CASE p # c
      BY <1>1, <2>1, <3>2
    <3> QED
      BY <3>1, <3>2
  <2> QED
    BY <1>1, <1>3, <2>3, <2>4 DEF AtMost
<1>4. ASSUME NEW j \in (n + 1)..l, NEW i \in 1..n
      PROVE  AtMost(s[i], s[j]) /\ s[i][c] < s[j][c]
  <2>1. \A p \in Ids : s[j][p] = u[p] + IF p = c THEN j - n ELSE 0
    OBVIOUS
  <2>2. i \in 1..l /\ \A p \in Ids : s[i][p] <= u[p]
    BY DEF AtMost
  <2>3. s[j][c] = u[c] + (j - n) /\ s[i][c] <= u[c]
    BY <1>1, <2>1, <2>2
  <2>4. ASSUME NEW p \in Ids PROVE s[i][p] <= s[j][p]
    <3>1. CASE p = c
      BY <1>1, <2>3, <3>1
    <3>2. CASE p # c
      <4>1. s[j][p] = u[p]
        BY <1>1, <2>1, <3>2
      <4>2. s[i][p] <= u[p]
        BY <2>2
      <4> QED
        BY <4>1, <4>2
    <3> QED
      BY <3>1, <3>2
  <2> QED
    BY <1>1, <2>2, <2>3, <2>4 DEF AtMost
<1> QED
  <2> SUFFICES ASSUME NEW j \in 1..l
               PROVE  /\ 0 < s[j][c] /\ AtMost(s[j], s[l])
                      /\ \A i \in 1..l : i < j => AtMost(s[i], s[j]) /\ s[i][c] < s[j][c]
    OBVIOUS
  <2>1. l \in (n + 1)..l
    OBVIOUS
  <2>2. CASE j \in 1..n
    <3>1. \A i \in 1..l : i < j => i \in 1..n
      BY <2>2
    <3> QED
      BY <1>4, <2>1, <2>2, <3>1
  <2>3. CASE j \in (n + 1)..l
    <3>1. \A i \in 1..l : i < j => i \in 1..n \/ i \in (n + 1)..l
      OBVIOUS
    <3> QED
      BY <1>2, <1>3, <1>4, <2>3, <3>1
  <2> QED
    BY <2>2, <2>3

\* c stamps the messages ms, one or two, with its clock, which it increments for each and which
\* is v then: s is its history, of which the first n stamps are not new.
Stamped(c, n, s, v, ms) ==
    /\ Selecting(c) /\ n = Len(sentAt[c])
    /\ n < Len(s) /\ Len(s) <= MaxMsgs[c]
    /\ \A k \in 1..n : s[k] = sentAt[c][k]
    /\ Incremented(c, s, n, Len(s), clock[c])
    /\ v = s[Len(s)]
    /\ Len(ms) <= 2
    /\ \A i \in DOMAIN ms : /\ ms[i].src = c
                           /\ ms[i].number \in (n + 1)..Len(s)
                           /\ ms[i].ts = s[ms[i].number]
    /\ \A i, j \in DOMAIN ms : ms[i].number = ms[j].number => i = j
    /\ clock' = [clock EXCEPT ![c] = v]
    /\ sentAt' = [sentAt EXCEPT ![c] = s]
    /\ sending' = [sending EXCEPT ![c] = ms]
    /\ UNCHANGED <<forwarder, recvd, serverVars, state, forwards>>

\* Such a step keeps the invariant.
LEMMA StampedInvariant ==
  ASSUME IInv, NEW c \in Clients, NEW n,
         NEW s \in Seq(ClockVal), NEW v \in ClockVal, NEW ms \in Seq(Messages),
         Stamped(c, n, s, v, ms)
  PROVE  IInv'
<1> USE DEF Stamped
<1>1. n \in Nat /\ Len(s) \in Nat /\ DOMAIN s = 1..Len(s) /\ DOMAIN sentAt[c] = 1..n
      /\ \A k \in DOMAIN s : s[k] \in ClockVal
  BY StampType, LenProperties, ElementOfSeq DEF IInv
<1>2. /\ sentAt'[c] = s /\ \A d \in Clients : d # c => sentAt'[d] = sentAt[d]
      /\ clock'[c] = v /\ \A p \in Ids : p # c => clock'[p] = clock[p]
      /\ sending'[c] = ms /\ \A d \in Clients : d # c => sending'[d] = sending[d]
  BY ServerIsNoClient DEF IInv, Shapes
<1>3. \A d \in Clients : \A k \in DOMAIN sentAt[d] : k \in DOMAIN sentAt'[d] /\ sentAt'[d][k] = sentAt[d][k]
  <2> SUFFICES ASSUME NEW d \in Clients, NEW k \in DOMAIN sentAt[d]
               PROVE  k \in DOMAIN sentAt'[d] /\ sentAt'[d][k] = sentAt[d][k]
    OBVIOUS
  <2>1. CASE d = c
    <3>1. k \in 1..n
      BY <1>1, <2>1
    <3>2. k \in DOMAIN s /\ s[k] = sentAt[c][k]
      BY <1>1, <3>1
    <3> QED
      BY <1>2, <2>1, <3>2
  <2>2. CASE d # c
    BY <1>2, <2>2
  <2> QED
    BY <2>1, <2>2
<1>4. \A m : IsSent(m) => /\ m.src \in Clients /\ m.number \in DOMAIN sentAt'[m.src]
                         /\ sentAt'[m.src][m.number] = Origin(m)
  BY <1>3 DEF IsSent, Origin
<1>5. \A p, q \in Ids : /\ clock[p][q] \in Nat /\ clock[p][q] <= clock[q][q] /\ v[q] \in Nat
                       /\ v[q] = clock[c][q] + IF q = c THEN Len(s) - n ELSE 0
  <2>1. Len(s) \in (n + 1)..Len(s)
    BY <1>1
  <2>2. \A q \in Ids : s[Len(s)][q] = clock[c][q] + IF q = c THEN Len(s) - n ELSE 0
    BY <2>1 DEF Incremented
  <2> QED
    BY <2>2, ClockType DEF IInv, Order, NoClockIsAhead, ClockVal
<1>6. Shapes'
  BY <1>2 DEF IInv, Shapes, serverVars
<1>7. Sizes'
  <2>1. \A d \in Clients : accepted[d] \in Nat /\ Len(sentAt[d]) \in Nat
    BY StampType DEF IInv, Shapes
  <2>2. accepted[c] <= Len(s)
    BY <1>1, <2>1 DEF IInv, Sizes
  <2> QED
    BY <1>2, <2>2 DEF IInv, Sizes, serverVars
<1>8. NoClockIsAhead'
  <2> SUFFICES ASSUME NEW p \in Ids, NEW q \in Ids PROVE clock'[p][q] <= clock'[q][q]
    BY DEF NoClockIsAhead
  <2>1. CASE q = c /\ p = c
    BY <1>2, <1>5, <2>1
  <2>2. CASE q = c /\ p # c
    BY <1>1, <1>2, <1>5, <2>2
  <2>3. CASE q # c /\ p = c
    BY <1>2, <1>5, <2>3, SMTT(30)
  <2>4. CASE q # c /\ p # c
    BY <1>2, <1>5, <2>4
  <2> QED
    BY <2>1, <2>2, <2>3, <2>4
<1>9. StampsGrow'
  <2> SUFFICES ASSUME NEW d \in Clients, NEW k \in DOMAIN sentAt'[d]
               PROVE  /\ 0 < sentAt'[d][k][d]
                      /\ AtMost(sentAt'[d][k], clock'[d])
                      /\ \A j \in DOMAIN sentAt'[d] : j < k =>
                           AtMost(sentAt'[d][j], sentAt'[d][k]) /\ sentAt'[d][j][d] < sentAt'[d][k][d]
    BY DEF StampsGrow
  <2>1. CASE d # c
    BY <1>2, <2>1, ServerIsNoClient DEF IInv, Order, StampsGrow
  <2>2. CASE d = c
    <3>1. Grow(c, sentAt[c], n, clock[c])
      BY <1>1 DEF IInv, Order, StampsGrow, Grow
    <3>2. Grow(c, s, n, clock[c])
      BY <3>1 DEF Grow
    <3>3. s \in [1..Len(s) -> ClockVal] /\ clock[c] \in ClockVal
      BY LenProperties, ClockType, ServerIsNoClient DEF IInv
    <3>4. Grow(c, s, Len(s), v)
      BY <1>1, <3>2, <3>3, GrowingStamps
    <3>5. k \in 1..Len(s) /\ sentAt'[d] = s /\ clock'[d] = v
      BY <1>1, <1>2, <2>2
    <3> QED
      BY <1>1, <2>2, <3>4, <3>5 DEF Grow
  <2> QED
    BY <2>1, <2>2
<1>10. QueueIsSent'
  <2> SUFFICES ASSUME NEW d \in Clients, NEW i \in DOMAIN Queue(d)'
               PROVE  /\ Queue(d)'[i].src = d
                      /\ IsSent(Queue(d)[i])'
                      /\ Queue(d)'[i].ts = Origin(Queue(d)[i])'
                      /\ Queue(d)'[i].number # accepted[d]
                      /\ \A j \in DOMAIN Queue(d)' :
                           Queue(d)'[i].number = Queue(d)'[j].number => i = j
    BY DEF QueueIsSent, serverVars
  <2>1. CASE d # c
    <3>1. Queue(d)' = Queue(d)
      BY <1>2, <2>1 DEF Queue
    <3> QED
      BY <1>4, <3>1 DEF IInv, Order, QueueIsSent, IsSent, Origin
  <2>2. CASE d = c
    <3>1. PICK f \in Seq(Messages) : f = forwarder[c] /\ Queue(c) = f /\ Queue(c)' = f \o ms
      <4>1. forwarder[c] \in Seq(Messages) /\ sending[c] = << >>
        BY DEF IInv, Shapes, Selecting
      <4>2. forwarder[c] \o << >> = forwarder[c]
        BY <4>1, ConcatEmptySeq
      <4> QED
        BY <1>2, <4>1, <4>2 DEF Queue
    <3>2. \A k \in DOMAIN f : /\ f[k].src = c /\ f[k].number \in 1..n /\ f[k].ts = sentAt[c][f[k].number]
                              /\ f[k].number # accepted[c]
                              /\ \A j \in DOMAIN f : f[k].number = f[j].number => k = j
      <4>1. \A k \in DOMAIN Queue(c) :
              /\ Queue(c)[k].src = c
              /\ Queue(c)[k].number \in DOMAIN sentAt[c]
              /\ Queue(c)[k].ts = sentAt[c][Queue(c)[k].number]
              /\ Queue(c)[k].number # accepted[c]
              /\ \A j \in DOMAIN Queue(c) : Queue(c)[k].number = Queue(c)[j].number => k = j
        BY DEF IInv, Order, QueueIsSent, IsSent, Origin
      <4> QED
        BY <1>1, <3>1, <4>1
    <3>3. \A k \in DOMAIN (f \o ms) :
            \/ k \in DOMAIN f /\ (f \o ms)[k] = f[k]
            \/ k - Len(f) \in DOMAIN ms /\ (f \o ms)[k] = ms[k - Len(f)]
      BY ConcatElements
    <3>4. \A k \in DOMAIN (f \o ms) : k \in Nat
      BY ConcatElements, LenProperties
    <3>5. Len(f) \in Nat
      BY LenProperties
    <3>6. accepted[c] \in Nat /\ accepted[c] <= n
      BY DEF IInv, Shapes, Sizes
    <3> DEFINE u == f \o ms
    <3>7. \A k \in DOMAIN u : \/ k \in DOMAIN f /\ u[k] = f[k]
                              \/ k - Len(f) \in DOMAIN ms /\ u[k] = ms[k - Len(f)]
      BY <3>3
    <3>8. \A k \in DOMAIN u : k \in Nat
      BY <3>4
    <3> HIDE DEF u
    <3>9. \A k \in DOMAIN u : /\ u[k].src = c /\ u[k].number \in 1..Len(s) /\ u[k].ts = s[u[k].number]
                              /\ u[k].number # accepted[c]
      <4> SUFFICES ASSUME NEW k \in DOMAIN u
                   PROVE  /\ u[k].src = c /\ u[k].number \in 1..Len(s) /\ u[k].ts = s[u[k].number]
                          /\ u[k].number # accepted[c]
        OBVIOUS
      <4>1. CASE k \in DOMAIN f /\ u[k] = f[k]
        <5>1. f[k].number \in 1..n /\ s[f[k].number] = sentAt[c][f[k].number]
          BY <3>2, <4>1
        <5> QED
          BY <1>1, <3>2, <4>1, <5>1
      <4>2. CASE k - Len(f) \in DOMAIN ms /\ u[k] = ms[k - Len(f)]
        <5>1. u[k].src = c /\ u[k].number \in (n + 1)..Len(s) /\ u[k].ts = s[u[k].number]
          BY <4>2
        <5> QED
          BY <1>1, <3>6, <5>1
      <4> QED
        BY <3>7, <4>1, <4>2
    <3>10. \A k, j \in DOMAIN u : u[k].number = u[j].number => k = j
      <4> SUFFICES ASSUME NEW k \in DOMAIN u, NEW j \in DOMAIN u, u[k].number = u[j].number PROVE k = j
        OBVIOUS
      <4>1. CASE k \in DOMAIN f /\ u[k] = f[k] /\ j \in DOMAIN f /\ u[j] = f[j]
        BY <3>2, <4>1
      <4>2. CASE /\ k - Len(f) \in DOMAIN ms /\ u[k] = ms[k - Len(f)]
                 /\ j - Len(f) \in DOMAIN ms /\ u[j] = ms[j - Len(f)]
        <5>1. k - Len(f) = j - Len(f)
          BY <4>2
        <5> QED
          BY <3>5, <3>8, <5>1
      <4>3. CASE k \in DOMAIN f /\ u[k] = f[k] /\ j - Len(f) \in DOMAIN ms /\ u[j] = ms[j - Len(f)]
        <5>1. f[k].number \in 1..n /\ ms[j - Len(f)].number \in (n + 1)..Len(s)
          BY <3>2, <4>3
        <5> QED
          BY <1>1, <4>3, <5>1
      <4>4. CASE k - Len(f) \in DOMAIN ms /\ u[k] = ms[k - Len(f)] /\ j \in DOMAIN f /\ u[j] = f[j]
        <5>1. f[j].number \in 1..n /\ ms[k - Len(f)].number \in (n + 1)..Len(s)
          BY <3>2, <4>4
        <5> QED
          BY <1>1, <4>4, <5>1
      <4> QED
        BY <3>7, <4>1, <4>2, <4>3, <4>4
    <3>11. Queue(c)' = u
      BY <3>1 DEF u
    <3>12. Queue(d)' = u
      BY <2>2, <3>11
    <3> QED
      BY <1>1, <1>2, <2>2, <3>9, <3>10, <3>12 DEF IsSent, Origin
  <2> QED
    BY <2>1, <2>2
<1>11. AcceptedKnown'
  <2> SUFFICES ASSUME NEW d \in Clients
               PROVE  /\ accepted[d] # 0 => AtMost(sentAt'[d][accepted[d]], clock'[Server])
                      /\ \A p \in Ids \ {d} : clock'[p][d] <= LastAccepted(d)'
    BY DEF AcceptedKnown, serverVars
  <2>1. LastAccepted(d)' = LastAccepted(d)
        /\ (accepted[d] # 0 => sentAt'[d][accepted[d]] = sentAt[d][accepted[d]])
    BY <1>3, LastAcceptedType DEF IInv, LastAccepted, serverVars
  <2>2. clock'[Server] = clock[Server] /\ \A p \in Ids \ {d} : clock'[p][d] = clock[p][d]
    BY <1>2, <1>5, ServerIsNoClient
  <2> QED
    BY <2>1, <2>2 DEF IInv, Order, AcceptedKnown
<1>12. clock'[Server] = clock[Server]
  BY <1>2, ServerIsNoClient
<1>13. \A d \in Clients : \A i \in DOMAIN recvd[d] :
         IsSent(recvd[d][i])' /\ Origin(recvd[d][i])' = Origin(recvd[d][i])
  BY <1>4 DEF IInv, Order, RecvdKnown, IsSent, Origin
<1>14. RecvdKnown' /\ CausalDelivery'
  BY <1>12, <1>13 DEF IInv, Order, RecvdKnown, CausalDelivery
<1>15. RelayKnown'
  <2> SUFFICES ASSUME relay.to # {} PROVE RelayKnown'
    BY DEF RelayKnown, serverVars
  <2>1. IsSent(relay.msg)' /\ Origin(relay.msg)' = Origin(relay.msg)
    BY <1>4 DEF IInv, Order, RelayKnown, IsSent, Origin, serverVars
  <2>2. relay.to \subseteq Clients
    BY DEF IInv, Shapes
  <2> QED
    BY <1>12, <1>13, <2>1, <2>2 DEF IInv, Order, RelayKnown, serverVars
<1> QED
  BY <1>6, <1>7, <1>8, <1>9, <1>10, <1>11, <1>14, <1>15 DEF IInv, Order

\* One message.
LEMMA SendInvariant ==
  ASSUME IInv, NEW c \in Clients, Send(c)
  PROVE  IInv'
<1> DEFINE n == Len(sentAt[c])
           w == Increment(clock[c], c)
<1>1. PICK h \in Seq(ClockVal), v \in ClockVal, k \in Nat :
        /\ h = sentAt[c] /\ v = w /\ k = n
        /\ \A p \in Ids : v[p] = clock[c][p] + IF p = c THEN 1 ELSE 0
  <2>1. c \in Ids /\ Shapes
    BY ServerIsNoClient DEF IInv
  <2>2. sentAt[c] \in Seq(ClockVal) /\ n \in Nat
    BY <2>1, StampType
  <2>3. /\ w \in ClockVal
        /\ \A p \in Ids : w[p] = clock[c][p] + IF p = c THEN 1 ELSE 0
    BY <2>1, ClockType, IncrementMeans
  <2> HIDE DEF n, w
  <2> QED
    BY <2>2, <2>3
<1> DEFINE m == Message(c, k + 1, v)
<1>2. /\ Selecting(c) /\ k + 1 <= MaxMsgs[c]
      /\ clock' = [clock EXCEPT ![c] = v]
      /\ sentAt' = [sentAt EXCEPT ![c] = Append(h, v)]
      /\ sending' = [sending EXCEPT ![c] = <<m>>]
      /\ UNCHANGED <<forwarder, recvd, serverVars, state, forwards>>
  BY <1>1 DEF Send
<1>3. /\ Append(h, v) \in Seq(ClockVal) /\ Len(Append(h, v)) = k + 1
      /\ \A i \in 1..k : Append(h, v)[i] = h[i]
      /\ Append(h, v)[k + 1] = v
  BY <1>1, AppendProperties
<1>4. m \in Messages /\ m.src = c /\ m.number = k + 1 /\ m.ts = v
  BY ServerIsNoClient DEF Message, Messages
<1> HIDE DEF m
<1>5. /\ <<m>> \in Seq(Messages) /\ Len(<<m>>) <= 2 /\ DOMAIN <<m>> = 1..1
      /\ \A i \in DOMAIN <<m>> : i = 1 /\ <<m>>[i] = m
  BY <1>4
<1>6. Incremented(c, Append(h, v), k, k + 1, clock[c])
  BY <1>1, <1>3 DEF Incremented
<1>7. PICK s \in Seq(ClockVal), ms \in Seq(Messages) : s = Append(h, v) /\ ms = <<m>>
  BY <1>3, <1>5
<1>8. Len(s) = k + 1 /\ Len(ms) = 1 /\ DOMAIN ms = 1..1 /\ ms[1] = m
  BY <1>3, <1>7
<1>9. k < Len(s) /\ Len(s) <= MaxMsgs[c] /\ v = s[Len(s)]
  BY <1>2, <1>3, <1>7, <1>8
<1>10. \A i \in DOMAIN ms : /\ ms[i].src = c
                            /\ ms[i].number \in (k + 1)..Len(s)
                            /\ ms[i].ts = s[ms[i].number]
  BY <1>4, <1>8, <1>9
<1>11. \A i, j \in DOMAIN ms : ms[i].number = ms[j].number => i = j
  BY <1>8
<1>12. Stamped(c, k, s, v, ms)
  <2>1. \A i \in 1..k : s[i] = sentAt[c][i]
    BY <1>1, <1>3, <1>7
  <2>2. Incremented(c, s, k, Len(s), clock[c])
    BY <1>6, <1>7, <1>8
  <2>3. /\ clock' = [clock EXCEPT ![c] = v]
        /\ sentAt' = [sentAt EXCEPT ![c] = s]
        /\ sending' = [sending EXCEPT ![c] = ms]
    BY <1>2, <1>7
  <2>4. k = Len(sentAt[c]) /\ Len(ms) <= 2
    BY <1>1, <1>8
  <2> QED
    BY <1>2, <1>9, <1>10, <1>11, <2>1, <2>2, <2>3, <2>4, Zenon DEF Stamped
<1> QED
  BY <1>12, StampedInvariant, Zenon

\* Two messages, the later one first.
LEMMA SendTwoInvariant ==
  ASSUME IInv, NEW c \in Clients, SendTwo(c)
  PROVE  IInv'
<1> DEFINE n == Len(sentAt[c])
           w1 == Increment(clock[c], c)
           w2 == Increment(w1, c)
<1>1. PICK h \in Seq(ClockVal), v1 \in ClockVal, v2 \in ClockVal, k \in Nat :
        /\ h = sentAt[c] /\ v1 = w1 /\ v2 = w2 /\ k = n
        /\ \A p \in Ids : /\ v1[p] = clock[c][p] + IF p = c THEN 1 ELSE 0
                         /\ v2[p] = clock[c][p] + IF p = c THEN 2 ELSE 0
  <2>1. clock[c] \in ClockVal /\ c \in Ids /\ \A p \in Ids : clock[c][p] \in Nat
    BY ClockType, ServerIsNoClient DEF IInv
  <2>2. w1 \in ClockVal /\ \A p \in Ids : w1[p] = clock[c][p] + IF p = c THEN 1 ELSE 0
    BY <2>1, IncrementMeans
  <2> HIDE DEF w1
  <2>3. w2 \in ClockVal /\ \A p \in Ids : w2[p] = w1[p] + IF p = c THEN 1 ELSE 0
    BY <2>1, <2>2, IncrementMeans
  <2> HIDE DEF w2
  <2>4. \A p \in Ids : w2[p] = clock[c][p] + IF p = c THEN 2 ELSE 0
    BY <2>1, <2>2, <2>3
  <2> QED
    BY <2>2, <2>3, <2>4, StampType DEF IInv
<1> DEFINE m1 == Message(c, k + 1, v1)
           m2 == Message(c, k + 2, v2)
           s == h \o <<v1, v2>>
           ms == <<m2, m1>>
<1>2. /\ Selecting(c) /\ k + 2 <= MaxMsgs[c]
      /\ clock' = [clock EXCEPT ![c] = v2]
      /\ sentAt' = [sentAt EXCEPT ![c] = s]
      /\ sending' = [sending EXCEPT ![c] = ms]
      /\ UNCHANGED <<forwarder, recvd, serverVars, state, forwards>>
  <2>1. k + 1 + 1 = k + 2
    OBVIOUS
  <2> QED
    BY <1>1, <2>1 DEF SendTwo
<1>3. /\ s \in Seq(ClockVal) /\ Len(s) = k + 2
      /\ \A i \in 1..k : s[i] = h[i]
      /\ s[k + 1] = v1 /\ s[k + 2] = v2
  BY <1>1
<1>4. /\ m1 \in Messages /\ m1.src = c /\ m1.number = k + 1 /\ m1.ts = v1
      /\ m2 \in Messages /\ m2.src = c /\ m2.number = k + 2 /\ m2.ts = v2
  BY ServerIsNoClient DEF Message, Messages
<1> HIDE DEF m1, m2, s
<1>5. /\ ms \in Seq(Messages) /\ Len(ms) <= 2 /\ DOMAIN ms = 1..2
      /\ ms[1] = m2 /\ ms[2] = m1
  BY <1>4
<1> HIDE DEF ms
<1>6. Incremented(c, s, k, k + 2, clock[c])
  BY <1>1, <1>3 DEF Incremented
<1>7. /\ \A i \in DOMAIN ms : /\ ms[i].src = c
                             /\ ms[i].number \in (k + 1)..(k + 2)
                             /\ ms[i].ts = s[ms[i].number]
      /\ \A i, j \in DOMAIN ms : ms[i].number = ms[j].number => i = j
  BY <1>3, <1>4, <1>5
<1>8. PICK u \in Seq(ClockVal), ns \in Seq(Messages) : u = s /\ ns = ms
  BY <1>3, <1>5
<1>9. k < Len(s) /\ Len(s) <= MaxMsgs[c] /\ v2 = s[Len(s)] /\ \A i \in 1..k : s[i] = sentAt[c][i]
  BY <1>1, <1>2, <1>3
<1>10. Stamped(c, k, u, v2, ns)
  <2>1. Stamped(c, k, s, v2, ms)
    <3>1. Incremented(c, s, k, Len(s), clock[c])
      BY <1>3, <1>6
    <3>2. \A i \in DOMAIN ms : /\ ms[i].src = c
                               /\ ms[i].number \in (k + 1)..Len(s)
                               /\ ms[i].ts = s[ms[i].number]
      BY <1>3, <1>7
    <3>3. k = Len(sentAt[c])
      BY <1>1
    <3> QED
      BY <1>2, <1>5, <1>7, <1>9, <3>1, <3>2, <3>3, Zenon DEF Stamped
  <2> QED
    BY <1>8, <2>1, Zenon
<1> QED
  BY <1>10, StampedInvariant, Zenon

LEMMA StepInvariant == IInv /\ [Next]_vars => IInv'
<1> SUFFICES ASSUME IInv, [Next]_vars PROVE IInv'
  OBVIOUS
<1>1. ASSUME NEW c \in Clients,
             \/ Send(c) \/ SendTwo(c) \/ Forward(c) \/ ClientHandle(c)
             \/ ServerHandle(c) \/ ServerSend(c)
      PROVE  IInv'
  BY <1>1, SendInvariant, SendTwoInvariant, ForwardInvariant, ClientHandleInvariant,
     ServerHandleInvariant, ServerSendInvariant
<1>2. CASE \/ QuitReceived \/ ServerReturns \/ UNCHANGED vars
           \/ \E c \in Clients : ClientReturns(c) \/ ForwarderReturns(c)
  BY <1>2, ControlInvariant
<1> QED
  BY <1>1, <1>2 DEF Next

-----------------------------------------------------------------------------
(***************************************************************************)
(* The theorems.                                                           *)
(***************************************************************************)

\* The inductive invariant holds of every reachable state.
THEOREM Invariance == Spec => []IInv
<1>1. IInv /\ [Next]_vars => IInv'
  BY StepInvariant
<1> QED
  BY InitInvariant, <1>1, PTL DEF Spec

\* The variables have their types: a forwarder holds one message, the server is blocked on one
\* client, and what is on the way has been sent.
THEOREM TypeCorrect == Spec => []TypeOK
  BY Invariance, TypesHold, PTL

\* Nobody knows more of a clock than its owner.
THEOREM NoClockIsAheadHolds == Spec => []NoClockIsAhead
<1>1. IInv => NoClockIsAhead
  BY DEF IInv, Order
<1> QED
  BY <1>1, Invariance, PTL

\* No client receives a message after one that its sender could have reacted to.
THEOREM CausalDeliveryHolds == Spec => []CausalDelivery
<1>1. IInv => CausalDelivery
  BY DEF IInv, Order
<1> QED
  BY <1>1, Invariance, PTL

\* The server takes a message of a forwarder and of no other.
LEMMA OnlyServerHandleEmpties ==
  ASSUME IInv, [Next]_vars, NEW c \in Clients, forwarder[c] # << >>, forwarder'[c] = << >>
  PROVE  ServerHandle(c)
<1>1. CASE UNCHANGED vars
  BY <1>1 DEF vars, clientVars
<1>2. CASE QuitReceived \/ ServerReturns
  BY <1>2 DEF QuitReceived, ServerReturns, clientVars
<1>3. ASSUME NEW d \in Clients,
             \/ Send(d) \/ SendTwo(d) \/ ClientHandle(d) \/ ServerSend(d)
             \/ ClientReturns(d) \/ ForwarderReturns(d)
      PROVE  FALSE
  BY <1>3 DEF Send, SendTwo, ClientHandle, ServerSend, ClientReturns, ForwarderReturns, clientVars
<1>4. ASSUME NEW d \in Clients, Forward(d) PROVE FALSE
  <2>1. d # c
    BY <1>4 DEF Forward, ForwarderFree
  <2> QED
    BY <1>4, <2>1 DEF Forward, IInv, Shapes
<1>5. ASSUME NEW d \in Clients, ServerHandle(d), d # c PROVE FALSE
  BY <1>5 DEF ServerHandle, IInv, Shapes
<1> QED
  BY <1>1, <1>2, <1>3, <1>4, <1>5 DEF Next

\* The server drops a message if and only if a later one of the same client was accepted: the
\* comparison of vector clocks is as good as one of the client's own numbers.
THEOREM DropsTheOvertakenHolds == Spec => DropsTheOvertaken
<1>1. ASSUME IInv, [Next]_vars, NEW c \in Clients, forwarder[c] # << >>, forwarder'[c] = << >>
      PROVE  accepted'[c] = accepted[c] <=> forwarder[c][1].number < accepted[c]
  <2>1. ServerHandle(c)
    BY <1>1, OnlyServerHandleEmpties
  <2>2. PICK m \in Messages :
          /\ forwarder[c][1] = m
          /\ m.number \in DOMAIN sentAt[c] /\ m.ts = sentAt[c][m.number]
          /\ m.number # accepted[c]
    BY <1>1, FirstOfQueue
  <2>3. ServerDrops(m) <=> m.number < accepted[c]
    BY <1>1, <2>2, DropsJustOvertaken
  <2>4. accepted'[c] = IF ServerDrops(m) THEN accepted[c] ELSE m.number
    BY <1>1, <2>1, <2>2 DEF ServerHandle, IInv, Shapes
  <2> QED
    BY <2>2, <2>3, <2>4
<1>2. IInv /\ [Next]_vars =>
        [\A c \in Clients :
            forwarder[c] # <<>> /\ forwarder'[c] = <<>> =>
                (accepted'[c] = accepted[c] <=> forwarder[c][1].number < accepted[c])]_vars
  BY <1>1
<1> QED
  BY <1>2, Invariance, PTL DEF Spec, DropsTheOvertaken
=============================================================================
