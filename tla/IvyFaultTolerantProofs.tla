----------------------- MODULE IvyFaultTolerantProofs -----------------------
(***************************************************************************)
(* Proofs about fault-tolerant Ivy, for any nodes, client programs and     *)
(* number of crashes:                                                      *)
(*   - every variable keeps its type, as do all messages and local steps;  *)
(*   - at most one of the managers that are up is a primary.  The          *)
(*     invariant Orderly says who sends what in an election; a step that   *)
(*     has nothing to do with elections is Harmless to it.                 *)
(***************************************************************************)
EXTENDS IvyFaultTolerant, FiniteSetTheorems, SequenceTheorems, TLAPS

-----------------------------------------------------------------------------
(***************************************************************************)
(* Managers, goroutines, sequences.                                        *)
(***************************************************************************)

LEMMA OtherManager ==
  ASSUME NEW c \in CMs
  PROVE  /\ Other(c) \in CMs /\ Other(c) # c /\ Other(Other(c)) = c
         /\ \A d \in CMs : d # c => d = Other(c)
<1>1. IsFiniteSet(CMs \ {c}) /\ Cardinality(CMs \ {c}) = 1
  BY CMsAssumption, FS_RemoveElement
<1>2. PICK e : CMs \ {c} = {e}
  BY <1>1, FS_Singleton
<1>3. Other(c) = e
  BY <1>2 DEF Other
<1>4. CMs \ {e} = {c}
  BY <1>2
<1>5. Other(e) = c
  BY <1>4 DEF Other
<1> QED
  BY <1>2, <1>3, <1>5

LEMMA Identifiers ==
  /\ \A n \in Nodes : n \in Nat /\ n # 0 /\ n \notin CMs
  /\ \A c \in CMs : c \in Int /\ c # 0 /\ c \notin Nodes
  BY NodesAssumption, CMsAssumption

LEMMA GoroutineNames ==
  /\ \A x, y : Listener(x) = Listener(y) => x = y
  /\ \A x, y : Handler(x) = Handler(y) => x = y
  /\ \A x, y : Elector(x) = Elector(y) => x = y
  /\ \A x, y : Client(x) = Client(y) => x = y
  /\ \A x, y : Listener(x) # Handler(y) /\ Listener(x) # Elector(y) /\ Listener(x) # Client(y)
  /\ \A x, y : Handler(x) # Elector(y) /\ Handler(x) # Client(y) /\ Elector(x) # Client(y)
  BY DEF Listener, Handler, Elector, Client

LEMMA GoroutineSet ==
  /\ \A x \in Nodes \cup CMs : Listener(x) \in Goroutines
  /\ \A c \in CMs : Handler(c) \in Goroutines /\ Elector(c) \in Goroutines
  /\ \A n \in Nodes : Client(n) \in Goroutines
  BY DEF Goroutines

LEMMA ShortSeqs ==
  ASSUME NEW S
  PROVE  /\ <<>> \in Seq(S)
         /\ \A a \in S : <<a>> \in Seq(S)
         /\ \A a, b \in S : <<a, b>> \in Seq(S)
         /\ \A a, b, c \in S : <<a, b, c>> \in Seq(S)
  OBVIOUS

LEMMA HeadOf ==
  ASSUME NEW S, NEW s \in Seq(S), s # <<>>
  PROVE  Head(s) \in S /\ Tail(s) \in Seq(S) /\ Head(s) = s[1] /\ 1 \in DOMAIN s
  BY HeadTailProperties, EmptySeq, LenProperties

-----------------------------------------------------------------------------
(***************************************************************************)
(* Messages.                                                               *)
(***************************************************************************)

Types == ToNodes \cup ToCMs \cup LocalSteps

AllMessages == UNION {Messages(t) : t \in Types}

RecordSet == [owner : Nodes \cup {0}, copies : SUBSET Nodes]

LEMMA Fields ==
  ASSUME NEW m \in AllMessages
  PROVE  /\ m.type \in Types
         /\ m \in Messages(m.type)
         /\ m.to \subseteq ReceiversOf(m.type)
         /\ m.id \in IdsOf(m.type)
         /\ m.body \in BodiesOf(m.type)
         /\ IsMessage(m)
<1>1. PICK t \in Types : m \in Messages(t)
  BY DEF AllMessages
<1>2. /\ m.type = t
      /\ m.to \subseteq ReceiversOf(t) /\ m.id \in IdsOf(t) /\ m.body \in BodiesOf(t)
  BY <1>1 DEF Messages
<1> QED
  BY <1>1, <1>2 DEF IsMessage, Types

LEMMA Making ==
  ASSUME NEW t \in Types, NEW to \in SUBSET ReceiversOf(t), NEW id \in IdsOf(t), NEW body \in BodiesOf(t)
  PROVE  Msg(t, to, id, body) \in AllMessages
<1>1. Msg(t, to, id, body) \in Messages(t)
  BY DEF Msg, Messages
<1> QED
  BY <1>1 DEF AllMessages

\* A message with fewer receivers is a message.
LEMMA LessTo ==
  ASSUME NEW m \in AllMessages, NEW S \in SUBSET m.to
  PROVE  [m EXCEPT !.to = S] \in AllMessages
<1>1. m.type \in Types /\ m \in Messages(m.type)
  BY Fields
<1>2. [m EXCEPT !.to = S] \in Messages(m.type)
  BY <1>1 DEF Messages
<1> QED
  BY <1>1, <1>2 DEF AllMessages

\* What a message of each type carries.
LEMMA Carried ==
  ASSUME NEW m \in AllMessages
  PROVE  /\ m.type \in {"RQ", "WQ", "RC", "WC", "IC"} => m.id \in RequestIds /\ m.body \in Nodes
         /\ m.type \in {"RF", "WF", "IV"} => m.id \in RequestIds /\ m.body \in Nodes \cup {0}
         /\ m.type \in {"RP", "WP", "WI"} => m.id \in RequestIds /\ m.body \in Data
         /\ m.type \in {"RC_ACK", "WC_ACK"} => m.id \in RequestIds /\ m.body \in CMs
         /\ m.type \in {"RQ_RECV", "WQ_RECV", "RC_RECV", "WC_RECV"} =>
              m.id \in RequestIds /\ m.body \in RecordSet
         /\ m.type = "UPDATE" => m.body \in RecordSet
         /\ m.type \in {"ELECT_ME", "ELECT_NO"} => m.id \in CMElectionIds /\ m.body \in CMs
         /\ m.type = "ELWIN" => m.body \in CMs
         /\ m.type \in {"await", "invalidate", "serveRQ", "serveWQ", "idle"} => m.id \in RequestIds
  BY Fields DEF IdsOf, BodiesOf, RecordSet

LEMMA Receivers ==
  ASSUME NEW m \in AllMessages
  PROVE  /\ m.to \subseteq Nodes \cup CMs \cup {0}
         /\ \A x \in m.to : x \in Nodes => m.type \in ToNodes
         /\ \A x \in m.to : x \in CMs => m.type \in ToCMs
         /\ m.type \in LocalSteps => m.to = {}
<1>1. m.type \in Types /\ m.to \subseteq ReceiversOf(m.type)
  BY Fields
<1>2. \A t \in Types : ReceiversOf(t) \subseteq Nodes \cup CMs \cup {0}
  BY DEF ReceiversOf
<1>3. \A t \in Types, x \in Nodes : x \in ReceiversOf(t) => t \in ToNodes
  BY Identifiers DEF ReceiversOf
<1>4. \A t \in Types, x \in CMs : x \in ReceiversOf(t) => t \in ToCMs
  BY Identifiers DEF ReceiversOf, ToNodes, ToCMs
<1>5. \A t \in LocalSteps : ReceiversOf(t) = {}
  BY DEF ReceiversOf, LocalSteps, ToNodes, ToCMs
<1> QED
  BY <1>1, <1>2, <1>3, <1>4, <1>5

LEMMA FromNode ==
  ASSUME NEW t \in {"RQ", "WQ", "RC", "WC", "IC"}, NEW to \in SUBSET (CMs \cup {0}),
         NEW id \in RequestIds, NEW n \in Nodes
  PROVE  Msg(t, to, id, n) \in AllMessages
<1>1. t \in Types /\ ReceiversOf(t) = CMs \cup {0} /\ IdsOf(t) = RequestIds /\ BodiesOf(t) = Nodes
  BY DEF Types, ToCMs, ToNodes, ReceiversOf, IdsOf, BodiesOf
<1> QED
  BY <1>1, Making

LEMMA Forward ==
  ASSUME NEW t \in {"RF", "WF", "IV"}, NEW to \in SUBSET (Nodes \cup {0}),
         NEW id \in RequestIds, NEW n \in Nodes \cup {0}
  PROVE  Msg(t, to, id, n) \in AllMessages
<1>1. /\ t \in Types /\ ReceiversOf(t) = Nodes \cup {0} /\ IdsOf(t) = RequestIds
      /\ BodiesOf(t) = Nodes \cup {0}
  BY DEF Types, ToNodes, ReceiversOf, IdsOf, BodiesOf
<1> QED
  BY <1>1, Making

LEMMA Page ==
  ASSUME NEW t \in {"RP", "WP", "WI"}, NEW to \in SUBSET (Nodes \cup {0}),
         NEW id \in RequestIds, NEW data \in Data
  PROVE  Msg(t, to, id, data) \in AllMessages /\ Msg(t, to, id, data) \in Messages(t)
<1>1. t \in Types /\ ReceiversOf(t) = Nodes \cup {0} /\ IdsOf(t) = RequestIds /\ BodiesOf(t) = Data
  BY DEF Types, ToNodes, ReceiversOf, IdsOf, BodiesOf
<1> QED
  BY <1>1, Making DEF Messages, Msg

LEMMA Acknowledgement ==
  ASSUME NEW t \in {"RC_ACK", "WC_ACK"}, NEW n \in Nodes, NEW id \in RequestIds, NEW c \in CMs
  PROVE  Msg(t, {n}, id, c) \in AllMessages
<1>1. t \in Types /\ ReceiversOf(t) = Nodes \cup {0} /\ IdsOf(t) = RequestIds /\ BodiesOf(t) = CMs
  BY DEF Types, ToNodes, ReceiversOf, IdsOf, BodiesOf
<1> QED
  BY <1>1, Making

LEMMA Update ==
  ASSUME NEW t \in {"RQ_RECV", "WQ_RECV", "RC_RECV", "WC_RECV"}, NEW c \in CMs,
         NEW id \in RequestIds, NEW r \in RecordSet
  PROVE  Msg(t, {c}, id, r) \in AllMessages
<1>1. /\ t \in Types /\ ReceiversOf(t) = CMs \cup {0} /\ IdsOf(t) = RequestIds
      /\ BodiesOf(t) = RecordSet
  BY DEF Types, ToNodes, ToCMs, ReceiversOf, IdsOf, BodiesOf, RecordSet
<1> QED
  BY <1>1, Making

LEMMA WholeUpdate ==
  ASSUME NEW c \in CMs, NEW r \in RecordSet
  PROVE  Msg("UPDATE", {c}, NoId, r) \in AllMessages
<1>1. /\ "UPDATE" \in Types /\ ReceiversOf("UPDATE") = CMs \cup {0} /\ IdsOf("UPDATE") = {NoId}
      /\ BodiesOf("UPDATE") = RecordSet
  BY DEF Types, ToNodes, ToCMs, ReceiversOf, IdsOf, BodiesOf, RecordSet
<1> QED
  BY <1>1, Making

LEMMA Electing ==
  /\ ElectionStart \in AllMessages
  /\ \A t \in {"ELECT_ME", "ELECT_NO"}, c, d \in CMs, id \in CMElectionIds :
       Msg(t, {d}, id, c) \in AllMessages
  /\ \A c \in CMs : Msg("ELWIN", Nodes, NoId, c) \in AllMessages
  /\ Local("clear", NoId) \in AllMessages
<1>1. /\ "EL" \in Types /\ ReceiversOf("EL") = CMs \cup {0} /\ IdsOf("EL") = {NoId}
      /\ BodiesOf("EL") = {0}
  BY DEF Types, ToNodes, ToCMs, ReceiversOf, IdsOf, BodiesOf
<1>2. \A t \in {"ELECT_ME", "ELECT_NO"} :
        t \in Types /\ ReceiversOf(t) = CMs \cup {0} /\ IdsOf(t) = CMElectionIds /\ BodiesOf(t) = CMs
  BY DEF Types, ToNodes, ToCMs, ReceiversOf, IdsOf, BodiesOf
<1>3. /\ "ELWIN" \in Types /\ ReceiversOf("ELWIN") = Nodes \cup {0} /\ IdsOf("ELWIN") = {NoId}
      /\ BodiesOf("ELWIN") = CMs
  BY DEF Types, ToNodes, ToCMs, ReceiversOf, IdsOf, BodiesOf
<1>4. /\ "clear" \in Types /\ IdsOf("clear") = {NoId} /\ BodiesOf("clear") = {NoId}
  BY DEF Types, LocalSteps, IdsOf, BodiesOf
<1>5. ElectionStart \in AllMessages
  BY <1>1, Making DEF ElectionStart
<1>6. \A t \in {"ELECT_ME", "ELECT_NO"}, c, d \in CMs, id \in CMElectionIds :
        Msg(t, {d}, id, c) \in AllMessages
  BY <1>2, Making
<1>7. \A c \in CMs : Msg("ELWIN", Nodes, NoId, c) \in AllMessages
  BY <1>3, Making
<1>8. Local("clear", NoId) \in AllMessages
  BY <1>4, Making DEF Local
<1> QED
  BY <1>5, <1>6, <1>7, <1>8

LEMMA LocalStep ==
  ASSUME NEW t \in {"await", "invalidate", "serveRQ", "serveWQ", "idle"}, NEW id \in RequestIds
  PROVE  Local(t, id) \in AllMessages
<1>1. t \in Types /\ IdsOf(t) = RequestIds /\ BodiesOf(t) = {NoId}
  BY DEF Types, LocalSteps, IdsOf, BodiesOf
<1> QED
  BY <1>1, Making DEF Local

-----------------------------------------------------------------------------
(***************************************************************************)
(* Types.                                                                  *)
(***************************************************************************)

CMsTyped ==
    /\ cm \in [CMs -> CMType]
    /\ \A c \in CMs : (cm[c].req = "IDLE" <=> cm[c].id = NoId) /\ cm[c].invalCount <= cm[c].invalExpected

NodesTyped == node \in [Nodes -> NodeType] /\ \A n \in Nodes : Len(node[n].inbox) <= 1

IsOut(o) == o \in [Goroutines -> Seq(AllMessages)]

PendTyped == pend \in [CMs -> SUBSET (Messages("RQ") \cup Messages("WQ"))]

ProgramTyped == rounds \in Workloads /\ round \in 0..Len(rounds) /\ kills \in 0..MaxKills

Typed == CMsTyped /\ NodesTyped /\ IsOut(out) /\ PendTyped /\ ProgramTyped

LEMMA TypedTypeOK == Typed => TypeOK
<1>1. IsOut(out) => \A p \in Goroutines : \A i \in DOMAIN out[p] : IsMessage(out[p][i])
  <2> SUFFICES ASSUME IsOut(out), NEW p \in Goroutines, NEW i \in DOMAIN out[p]
               PROVE  IsMessage(out[p][i])
    OBVIOUS
  <2>1. out[p] \in Seq(AllMessages)
    BY DEF IsOut
  <2>2. out[p][i] \in AllMessages
    BY <2>1, ElementOfSeq, LenProperties
  <2> QED
    BY <2>2, Fields
<1> QED
  BY <1>1 DEF Typed, CMsTyped, NodesTyped, PendTyped, ProgramTyped, TypeOK

LEMMA NoIdIsNoRequest == NoId \notin RequestIds
  BY NodesAssumption DEF NoId, RequestIds

LEMMA SetCM ==
  ASSUME CMsTyped, NEW c \in CMs, NEW r \in CMType, cm' = [cm EXCEPT ![c] = r],
         r.req = "IDLE" <=> r.id = NoId, r.invalCount <= r.invalExpected
  PROVE  CMsTyped'
  BY DEF CMsTyped

LEMMA SetNode ==
  ASSUME NodesTyped, NEW n \in Nodes, NEW r \in NodeType, node' = [node EXCEPT ![n] = r],
         Len(r.inbox) <= 1
  PROVE  NodesTyped'
  BY DEF NodesTyped

LEMMA SetOut ==
  ASSUME NEW o, IsOut(o), NEW p \in Goroutines, NEW s \in Seq(AllMessages)
  PROVE  IsOut([o EXCEPT ![p] = s])
  BY DEF IsOut

LEMMA InitTyped == Init => Typed
<1> SUFFICES ASSUME Init PROVE Typed
  OBVIOUS
<1>1. CMsTyped
  <2>1. FreshCM \in CMType
    <3>1. Cardinality(Nodes) \in Nat
      BY NodesAssumption, FS_CardinalityType
    <3> QED
      BY <3>1, BoundsAssumption DEF FreshCM, CMType
  <2> QED
    BY <2>1 DEF Init, CMsTyped, FreshCM
<1>2. NodesTyped
  BY DEF Init, NodesTyped, FreshNode, NodeType, Data
<1>3. IsOut(out)
  BY ShortSeqs DEF Init, IsOut
<1>4. ProgramTyped
  <2>1. rounds \in Seq([Nodes -> {"none", "read", "write"}])
    BY BoundsAssumption DEF Init
  <2>2. Len(rounds) \in Nat
    BY <2>1, LenProperties
  <2> QED
    BY <2>2, BoundsAssumption DEF Init, ProgramTyped
<1> QED
  BY <1>1, <1>2, <1>3, <1>4 DEF Init, Typed, PendTyped

\* What is left of the sender's list when x has received its first message.
Rest(p, x) == [out EXCEPT ![p] = IF Head(out[p]).to \ {x} = {} THEN Tail(@)
                                 ELSE <<[Head(out[p]) EXCEPT !.to = Head(out[p]).to \ {x}]>> \o Tail(@)]

LEMMA RestTyped ==
  ASSUME Typed, NEW p \in Goroutines, out[p] # <<>>, NEW x
  PROVE  IsOut(Rest(p, x)) /\ Head(out[p]) \in AllMessages /\ Tail(out[p]) \in Seq(AllMessages)
<1>1. out[p] \in Seq(AllMessages)
  BY DEF Typed, IsOut
<1>2. Head(out[p]) \in AllMessages /\ Tail(out[p]) \in Seq(AllMessages)
  BY <1>1, HeadOf
<1>3. [Head(out[p]) EXCEPT !.to = Head(out[p]).to \ {x}] \in AllMessages
  BY <1>2, LessTo
<1>4. <<[Head(out[p]) EXCEPT !.to = Head(out[p]).to \ {x}]>> \o Tail(out[p]) \in Seq(AllMessages)
  BY <1>2, <1>3, ShortSeqs, ConcatProperties
<1> QED
  BY <1>1, <1>2, <1>4, SetOut DEF Rest, Typed

LEMMA DoneTyped ==
  ASSUME Typed, NEW p \in Goroutines, out[p] # <<>>
  PROVE  IsOut(Done(p)) /\ Head(out[p]) \in AllMessages
  BY RestTyped, SetOut DEF Done, Typed

LEMMA ToManagerTyped ==
  ASSUME Typed, NEW n \in Nodes, NEW t \in {"RQ", "WQ", "RC", "WC", "IC"}, NEW id \in RequestIds
  PROVE  ToManager(n, t, id) \in Seq(AllMessages)
<1>1. node[n].cmId \in CMs \cup {0}
  BY DEF Typed, NodesTyped, NodeType
<1>2. Msg(t, {node[n].cmId}, id, n) \in AllMessages /\ Msg(t, {}, id, n) \in AllMessages
  BY <1>1, FromNode
<1> QED
  BY <1>2, ShortSeqs, Electing DEF ToManager

LEMMA ReplyTyped ==
  ASSUME NEW rest, IsOut(rest), NEW x \in Nodes \cup CMs, NEW ms \in Seq(AllMessages), Reply(x, ms, rest)
  PROVE  IsOut(out')
  BY SetOut, GoroutineSet DEF Reply

LEMMA NodeServesTyped ==
  ASSUME Typed, NEW n \in Nodes, NEW m \in AllMessages, NEW rest, IsOut(rest), NodeServes(n, m, rest)
  PROVE  NodesTyped' /\ IsOut(out')
<1>1. node[n] \in NodeType /\ Len(node[n].inbox) <= 1
  BY DEF Typed, NodesTyped
<1>2. m.type \in {"RF", "WF", "IV"}
  BY DEF NodeServes
<1>3. m.id \in RequestIds /\ m.body \in Nodes \cup {0}
  BY <1>2, Carried
<1>4. Sent(node[n].data) \in Data
  BY <1>1 DEF Sent, NodeType, Data
<1>5. \A a \in {"READONLY", "INVALID"} : node' = [node EXCEPT ![n].access = a] => NodesTyped'
  <2> SUFFICES ASSUME NEW a \in {"READONLY", "INVALID"}, node' = [node EXCEPT ![n].access = a]
               PROVE  NodesTyped'
    OBVIOUS
  <2>1. [node[n] EXCEPT !.access = a] \in NodeType /\ [node[n] EXCEPT !.access = a].inbox = node[n].inbox
    BY <1>1 DEF NodeType
  <2> QED
    BY <1>1, <2>1, SetNode DEF Typed
<1>6. CASE UNCHANGED node /\ Reply(n, <<Msg(m.type, {}, m.id, m.body)>>, rest)
  <2>1. <<Msg(m.type, {}, m.id, m.body)>> \in Seq(AllMessages)
    BY <1>2, <1>3, Forward, ShortSeqs
  <2> QED
    BY <1>6, <2>1, ReplyTyped DEF Typed, NodesTyped
<1>7. CASE /\ node' = [node EXCEPT ![n].access = "READONLY"]
           /\ Reply(n, <<Msg("RP", {m.body}, m.id, Sent(node[n].data))>>, rest)
  <2>1. <<Msg("RP", {m.body}, m.id, Sent(node[n].data))>> \in Seq(AllMessages)
    BY <1>3, <1>4, Page, ShortSeqs
  <2> QED
    BY <1>5, <1>7, <2>1, ReplyTyped
<1>8. CASE /\ node' = [node EXCEPT ![n].access = "INVALID"]
           /\ Reply(n, <<Msg("WP", {m.body}, m.id, Sent(node[n].data))>>, rest)
  <2>1. <<Msg("WP", {m.body}, m.id, Sent(node[n].data))>> \in Seq(AllMessages)
    BY <1>3, <1>4, Page, ShortSeqs
  <2> QED
    BY <1>5, <1>8, <2>1, ReplyTyped
<1>9. CASE /\ node' = [node EXCEPT ![n].access = "INVALID"]
           /\ Reply(n, ToManager(n, "IC", m.id), rest)
  BY <1>3, <1>5, <1>9, ToManagerTyped, ReplyTyped
<1> QED
  BY <1>6, <1>7, <1>8, <1>9 DEF NodeServes

LEMMA PutPageTyped ==
  ASSUME Typed, NEW n \in Nodes, NEW rest, IsOut(rest),
         NEW m \in Messages("RP") \cup Messages("WP") \cup Messages("WI"), PutPage(n, m, rest)
  PROVE  NodesTyped' /\ IsOut(out') /\ UNCHANGED <<cm, pend>>
<1>1. node[n] \in NodeType
  BY DEF Typed, NodesTyped
<1>2. [node[n] EXCEPT !.inbox = <<m>>] \in NodeType /\ [node[n] EXCEPT !.inbox = <<m>>].inbox = <<m>>
  <2>1. <<m>> \in Seq(Messages("RP") \cup Messages("WP") \cup Messages("WI"))
    BY ShortSeqs
  <2> QED
    BY <1>1, <2>1 DEF NodeType
<1>3. CASE Fail("SecondPage", rest)
  BY <1>3 DEF Fail, Typed, NodesTyped
<1>4. CASE node' = [node EXCEPT ![n].inbox = <<m>>] /\ out' = rest /\ UNCHANGED <<cm, pend>>
  <2> DEFINE r == [node[n] EXCEPT !.inbox = <<m>>]
  <2>1. r \in NodeType /\ Len(r.inbox) <= 1
    BY <1>2
  <2>2. node' = [node EXCEPT ![n] = r]
    BY <1>4
  <2> HIDE DEF r
  <2>3. NodesTyped'
    BY <2>1, <2>2, SetNode DEF Typed
  <2> QED
    BY <1>4, <2>3
<1> QED
  BY <1>3, <1>4 DEF PutPage

LEMMA NodeReceiveTyped ==
  ASSUME Typed, NEW n \in Nodes, NEW m \in AllMessages, NEW rest, IsOut(rest), NodeReceive(n, m, rest)
  PROVE  NodesTyped' /\ IsOut(out') /\ UNCHANGED <<cm, pend>>
<1>1. node[n] \in NodeType /\ Len(node[n].inbox) <= 1
  BY DEF Typed, NodesTyped
<1>2. ASSUME NEW text, Fail(text, rest) PROVE NodesTyped' /\ IsOut(out') /\ UNCHANGED <<cm, pend>>
  BY <1>2 DEF Fail, Typed, NodesTyped
<1>3. CASE NodeTakesPage(n, m, rest)
  <2>1. m \in Messages("RP") \cup Messages("WP") \cup Messages("WI")
    BY <1>3, Fields DEF NodeTakesPage
  <2> QED
    BY <1>2, <1>3, <2>1, PutPageTyped DEF NodeTakesPage
<1>4. CASE InvalidForward(n, m) /\ Fail("ForwardForInvalidPage", rest)
  BY <1>2, <1>4
<1>5. CASE NodeServesItself(n, m, rest)
  <2>1. m.id \in RequestIds
    BY <1>5, Carried DEF NodeServesItself
  <2>2. Msg("WP", {}, m.id, node[n].data) \in Messages("WP")
    BY <1>1, <2>1, Page DEF NodeType
  <2> QED
    BY <1>5, <2>2, PutPageTyped DEF NodeServesItself
<1>6. CASE NodeServes(n, m, rest) /\ UNCHANGED <<cm, pend, panic>>
  BY <1>6, NodeServesTyped
<1>7. CASE NodeTakesAck(n, m, rest)
  <2>1. CASE node' = [node EXCEPT ![n].id = NoId, ![n].state = "IDLE", ![n].ack = TRUE]
             /\ out' = rest /\ UNCHANGED <<cm, pend, panic>>
    <3> DEFINE r == [node[n] EXCEPT !.id = NoId, !.state = "IDLE", !.ack = TRUE]
    <3>1. r \in NodeType /\ r.inbox = node[n].inbox
      BY <1>1 DEF NodeType
    <3>2. node' = [node EXCEPT ![n] = r]
      BY <2>1 DEF Typed, NodesTyped
    <3> QED
      BY <1>1, <2>1, <3>1, <3>2, SetNode DEF Typed
  <2> QED
    BY <1>2, <1>7, <2>1 DEF NodeTakesAck
<1>8. CASE NodeTakesElwin(n, m, rest)
  <2>1. m.body \in CMs
    BY <1>8, Carried DEF NodeTakesElwin
  <2>2. [node[n] EXCEPT !.cmId = m.body] \in NodeType
    BY <1>1, <2>1 DEF NodeType
  <2>3. [node[n] EXCEPT !.cmId = m.body].inbox = node[n].inbox
    BY <1>1 DEF NodeType
  <2> QED
    BY <1>1, <1>8, <2>2, <2>3, SetNode DEF NodeTakesElwin, Typed
<1> QED
  BY <1>3, <1>4, <1>5, <1>6, <1>7, <1>8 DEF NodeReceive

LEMMA RecordsTyped ==
  ASSUME CMsTyped, NEW c \in CMs
  PROVE  Records(c) \in RecordSet
<1>1. cm[c] \in CMType
  BY DEF CMsTyped
<1> QED
  BY <1>1 DEF Records, RecordSet, CMType

LEMMA CMFields ==
  ASSUME CMsTyped, NEW c \in CMs
  PROVE  /\ cm[c] \in CMType
         /\ cm[c].req = "IDLE" <=> cm[c].id = NoId
         /\ cm[c].invalCount \in Nat /\ cm[c].invalExpected \in Nat
         /\ cm[c].invalCount <= cm[c].invalExpected
         /\ cm[c].owner \in Nodes \cup {0} /\ cm[c].copies \subseteq Nodes
         /\ cm[c].id \in RequestIds \cup {NoId}
         /\ cm[c].counter \in 0..(ElectionIds - 1)
<1>1. cm[c] \in CMType
  BY DEF CMsTyped
<1>2. Cardinality(Nodes) \in Nat
  BY NodesAssumption, FS_CardinalityType
<1> QED
  BY <1>1, <1>2 DEF CMsTyped, CMType

LEMMA GrantTyped ==
  ASSUME CMsTyped, NEW c \in CMs, NEW id \in RequestIds
  PROVE  Grant(id, c) \in AllMessages
<1>1. Requestor(cm[c].id) \in Nodes \cup {0}
  BY CMFields DEF Requestor, RequestIds, NoId
<1>2. Blank \in Data
  BY DEF Data
<1>3. Msg("WI", {Requestor(cm[c].id)}, id, Blank) \in AllMessages
  BY <1>1, <1>2, Page
<1>4. ASSUME cm[c].owner # 0 PROVE Msg("WF", {cm[c].owner}, id, Requestor(cm[c].id)) \in AllMessages
  <2>1. cm[c].owner \in Nodes \cup {0}
    BY CMFields
  <2> QED
    BY <1>1, <2>1, Forward
<1>5. CASE cm[c].owner = 0
  BY <1>3, <1>5 DEF Grant
<1>6. CASE cm[c].owner # 0
  BY <1>4, <1>6 DEF Grant
<1> QED
  BY <1>5, <1>6

LEMMA InvalConfirmTyped ==
  ASSUME Typed, NEW c \in CMs, NEW m \in AllMessages, NEW rest, IsOut(rest),
         recvInvalConfirm(c, m, rest)
  PROVE  CMsTyped' /\ IsOut(out') /\ UNCHANGED <<node, pend>>
<1>1. m.id \in RequestIds
  BY Carried DEF recvInvalConfirm
<1> DEFINE count == cm[c].invalCount + 1
           r == [cm[c] EXCEPT !.invalCount = count]
<1>2. CASE Fail("TooManyICs", rest)
  BY <1>2 DEF Fail, Typed, CMsTyped
<1>3. CASE ~(count > cm[c].invalExpected)
  <2>1. r \in CMType /\ r.req = cm[c].req /\ r.id = cm[c].id /\ r.invalCount = count
        /\ r.invalExpected = cm[c].invalExpected
    BY CMFields DEF CMType, Typed
  <2>2. cm' = [cm EXCEPT ![c] = r]
    BY <1>3 DEF recvInvalConfirm
  <2>3. CMsTyped'
    <3> HIDE DEF r
    <3>1. r.invalCount <= r.invalExpected
      BY <1>3, <2>1, CMFields DEF Typed
    <3>2. r.req = "IDLE" <=> r.id = NoId
      BY <2>1, CMFields DEF Typed
    <3> QED
      BY <2>1, <2>2, <3>1, <3>2, SetCM DEF Typed
  <2>4. <<Grant(m.id, c)>> \in Seq(AllMessages) /\ <<>> \in Seq(AllMessages)
    BY <1>1, GrantTyped, ShortSeqs DEF Typed
  <2>5. IsOut(out')
    BY <1>3, <2>4, ReplyTyped DEF recvInvalConfirm
  <2> QED
    BY <1>3, <2>3, <2>5 DEF recvInvalConfirm
<1> QED
  BY <1>2, <1>3 DEF recvInvalConfirm

LEMMA ConfirmTyped ==
  ASSUME Typed, NEW c \in CMs, NEW m \in AllMessages, NEW rest, IsOut(rest), RecvConfirm(c, m, rest)
  PROVE  CMsTyped' /\ IsOut(out') /\ UNCHANGED <<node, pend>>
<1>1. m.type \in {"RC", "WC"}
  BY DEF RecvConfirm
<1>2. m.id \in RequestIds /\ m.body \in Nodes
  BY <1>1, Carried
<1>3. CMsTyped'
  <2>1. CASE UNCHANGED cm
    BY <2>1 DEF Typed, CMsTyped
  <2>2. CASE cm' = [cm EXCEPT ![c].owner = m.body, ![c].copies = {}]
    <3> DEFINE r == [cm[c] EXCEPT !.owner = m.body, !.copies = {}]
    <3>1. r \in CMType /\ r.req = cm[c].req /\ r.id = cm[c].id /\ r.invalCount = cm[c].invalCount
          /\ r.invalExpected = cm[c].invalExpected
      BY <1>2, CMFields DEF CMType, Typed
    <3>2. cm' = [cm EXCEPT ![c] = r]
      BY <2>2 DEF Typed, CMsTyped
    <3> HIDE DEF r
    <3> QED
      BY <3>1, <3>2, CMFields, SetCM DEF Typed
  <2> QED
    BY <2>1, <2>2 DEF RecvConfirm
<1>4. ConfirmedRecords(c) \in RecordSet
  <2>1. cm'[c] \in CMType
    BY <1>3 DEF CMsTyped
  <2> QED
    BY <2>1 DEF ConfirmedRecords, Records, RecordSet, CMType
<1>5. Recv[m.type] \in {"RC_RECV", "WC_RECV"} /\ Ack[m.type] \in {"RC_ACK", "WC_ACK"}
  BY <1>1 DEF Recv, Ack
<1>6. /\ Msg(Recv[m.type], {Other(c)}, m.id, ConfirmedRecords(c)) \in AllMessages
      /\ Msg(Ack[m.type], {m.body}, m.id, c) \in AllMessages
      /\ Local("idle", m.id) \in AllMessages
  BY <1>2, <1>4, <1>5, Update, Acknowledgement, LocalStep, OtherManager
<1>7. /\ <<Msg(Recv[m.type], {Other(c)}, m.id, ConfirmedRecords(c)),
           Msg(Ack[m.type], {m.body}, m.id, c), Local("idle", m.id)>> \in Seq(AllMessages)
      /\ <<>> \in Seq(AllMessages)
  BY <1>6, ShortSeqs
<1>8. IsOut(out')
  BY <1>7, ReplyTyped DEF RecvConfirm
<1> QED
  BY <1>3, <1>8 DEF RecvConfirm

LEMMA StartElectionTyped ==
  ASSUME Typed, NEW c \in CMs, NEW rest, IsOut(rest), startElection(c, rest)
  PROVE  CMsTyped' /\ IsOut(out')
<1>1. rest[Elector(c)] \in Seq(AllMessages) /\ Elector(c) \in Goroutines
  BY GoroutineSet DEF IsOut
<1>2. CASE Primary(c)
  <2>1. Victory(c) \in Seq(AllMessages)
    BY Electing, ShortSeqs DEF Victory
  <2>2. rest[Elector(c)] \o Victory(c) \in Seq(AllMessages)
    BY <1>1, <2>1, ConcatProperties
  <2>3. out' = [rest EXCEPT ![Elector(c)] = @ \o Victory(c)] /\ UNCHANGED cm
    BY <1>2 DEF startElection
  <2>4. IsOut(out')
    BY <1>1, <2>2, <2>3, SetOut
  <2> QED
    BY <2>3, <2>4 DEF Typed, CMsTyped
<1>3. CASE ~Primary(c) /\ cm[c].ongoing
  BY <1>3 DEF startElection, Typed, CMsTyped
<1>4. CASE ~Primary(c) /\ ~cm[c].ongoing
  <2> DEFINE id == <<c, cm[c].counter>>
             r == [cm[c] EXCEPT !.ongoing = TRUE, !.refused = FALSE, !.electionId = id,
                                !.counter = (@ + 1) % ElectionIds]
             m == Msg("ELECT_ME", {Other(c)}, id, c)
  <2>1. id \in CMElectionIds
    BY CMFields DEF CMElectionIds, Typed
  <2>2. (cm[c].counter + 1) % ElectionIds \in 0..(ElectionIds - 1)
    BY CMFields, BoundsAssumption DEF Typed
  <2>3. r \in CMType /\ r.req = cm[c].req /\ r.id = cm[c].id /\ r.invalCount = cm[c].invalCount
        /\ r.invalExpected = cm[c].invalExpected
    BY <2>1, <2>2, CMFields DEF CMType, Typed
  <2>4. cm' = [cm EXCEPT ![c] = r] /\ out' = [rest EXCEPT ![Elector(c)] = Append(@, m)]
    BY <1>4 DEF startElection, Typed, CMsTyped
  <2>5. CMsTyped'
    <3> HIDE DEF r
    <3> QED
      BY <2>3, <2>4, CMFields, SetCM DEF Typed
  <2>6. m \in AllMessages
    BY <2>1, OtherManager, Electing
  <2>7. Append(rest[Elector(c)], m) \in Seq(AllMessages)
    BY <1>1, <2>6, AppendProperties
  <2>8. IsOut(out')
    BY <1>1, <2>4, <2>7, SetOut
  <2> QED
    BY <2>5, <2>8
<1> QED
  BY <1>2, <1>3, <1>4

LEMMA UpdateTyped ==
  ASSUME Typed, NEW c \in CMs, NEW m \in AllMessages, NEW rest, IsOut(rest), RecvUpdate(c, m, rest)
  PROVE  CMsTyped' /\ IsOut(out') /\ UNCHANGED <<node, pend>>
<1>1. m.type \in {"UPDATE", "RQ_RECV", "WQ_RECV", "RC_RECV", "WC_RECV"}
  BY DEF RecvUpdate, CMUpdates
<1>2. m.body \in RecordSet /\ (m.type # "UPDATE" => m.id \in RequestIds)
  BY <1>1, Carried
<1> DEFINE r == WithRecords(cm[c], m.body)
           s == CASE m.type = "UPDATE" -> r
                  [] m.type = "RQ_RECV" -> [r EXCEPT !.req = "RQ", !.id = m.id]
                  [] m.type = "WQ_RECV" -> [r EXCEPT !.req = "WQ", !.id = m.id]
                  [] OTHER -> [r EXCEPT !.req = "IDLE", !.id = NoId]
<1>3. /\ r \in CMType /\ r.req = cm[c].req /\ r.id = cm[c].id /\ r.invalCount = cm[c].invalCount
      /\ r.invalExpected = cm[c].invalExpected
  <2>1. cm[c] \in CMType
    BY CMFields DEF Typed
  <2>2. m.body.owner \in Nodes \cup {0} /\ m.body.copies \in SUBSET Nodes
    BY <1>2 DEF RecordSet
  <2> QED
    BY <2>1, <2>2 DEF CMType, WithRecords
<1>4. /\ s \in CMType /\ (s.req = "IDLE" <=> s.id = NoId) /\ s.invalCount = cm[c].invalCount
      /\ s.invalExpected = cm[c].invalExpected
  <2> HIDE DEF r
  <2>1. CASE m.type = "UPDATE"
    BY <1>3, <2>1, CMFields DEF Typed
  <2>2. CASE m.type = "RQ_RECV"
    BY <1>2, <1>3, <2>2, NoIdIsNoRequest DEF CMType
  <2>3. CASE m.type = "WQ_RECV"
    BY <1>2, <1>3, <2>3, NoIdIsNoRequest DEF CMType
  <2>4. CASE m.type \in {"RC_RECV", "WC_RECV"}
    BY <1>2, <1>3, <2>4 DEF CMType
  <2> QED
    BY <1>1, <2>1, <2>2, <2>3, <2>4
<1>5. CASE cm' = [cm EXCEPT ![c] = s] /\ out' = rest /\ UNCHANGED <<node, pend, panic>>
  <2> HIDE DEF s
  <2> QED
    BY <1>4, <1>5, CMFields, SetCM DEF Typed
<1>6. CASE Fail("UpdateAsPrimary", rest) \/ Fail("ImpossibleUpdate", rest)
  BY <1>6 DEF Fail, Typed, CMsTyped
<1> QED
  BY <1>5, <1>6 DEF RecvUpdate

LEMMA CMReceiveTyped ==
  ASSUME Typed, NEW c \in CMs, NEW m \in AllMessages, NEW rest, IsOut(rest), CMReceive(c, m, rest)
  PROVE  CMsTyped' /\ NodesTyped' /\ PendTyped' /\ IsOut(out')
<1>1. UNCHANGED node => NodesTyped'
  BY DEF Typed, NodesTyped
<1>2. UNCHANGED pend => PendTyped'
  BY DEF Typed, PendTyped
<1>3. UNCHANGED cm => CMsTyped'
  BY DEF Typed, CMsTyped
<1>4. CASE Keep(rest) \/ RecvAsBackup(c, m, rest)
  BY <1>1, <1>2, <1>3, <1>4 DEF Keep, RecvAsBackup, Fail
<1>5. CASE RecvRequest(c, m, rest)
  <2>1. m \in Messages("RQ") \cup Messages("WQ")
    BY <1>5, Fields DEF RecvRequest
  <2>2. PendTyped'
    BY <1>5, <2>1 DEF RecvRequest, Typed, PendTyped
  <2> QED
    BY <1>1, <1>3, <1>5, <2>2 DEF RecvRequest
<1>6. CASE recvInvalConfirm(c, m, rest) \/ RecvConfirm(c, m, rest) \/ RecvUpdate(c, m, rest)
  BY <1>1, <1>2, <1>6, InvalConfirmTyped, ConfirmTyped, UpdateTyped
<1>7. CASE RecvElectionStart(c, m, rest)
  BY <1>1, <1>2, <1>7, StartElectionTyped DEF RecvElectionStart
<1>8. CASE RecvElectMe(c, m, rest)
  <2>1. m.id \in CMElectionIds /\ m.body \in CMs
    BY <1>8, Carried DEF RecvElectMe
  <2>2. /\ Msg("UPDATE", {m.body}, NoId, Records(c)) \in AllMessages
        /\ Msg("ELECT_NO", {m.body}, m.id, c) \in AllMessages
    BY <2>1, RecordsTyped, WholeUpdate, Electing DEF Typed
  <2>3. /\ <<Msg("UPDATE", {m.body}, NoId, Records(c)), Msg("ELECT_NO", {m.body}, m.id, c)>>
             \in Seq(AllMessages)
        /\ <<>> \in Seq(AllMessages)
    BY <2>2, ShortSeqs
  <2> QED
    BY <1>1, <1>2, <1>3, <1>8, <2>3, ReplyTyped DEF RecvElectMe
<1>9. CASE RecvElectNo(c, m, rest)
  <2>1. CASE cm' = [cm EXCEPT ![c].refused = TRUE] /\ out' = rest /\ UNCHANGED <<node, pend, panic>>
    <3> DEFINE r == [cm[c] EXCEPT !.refused = TRUE]
    <3>1. r \in CMType /\ r.req = cm[c].req /\ r.id = cm[c].id /\ r.invalCount = cm[c].invalCount
          /\ r.invalExpected = cm[c].invalExpected
      BY CMFields DEF CMType, Typed
    <3>2. cm' = [cm EXCEPT ![c] = r]
      BY <2>1
    <3> HIDE DEF r
    <3> QED
      BY <1>1, <1>2, <2>1, <3>1, <3>2, CMFields, SetCM DEF Typed
  <2> QED
    BY <1>1, <1>2, <1>3, <1>9, <2>1 DEF RecvElectNo, Fail
<1> QED
  BY <1>4, <1>5, <1>6, <1>7, <1>8, <1>9 DEF CMReceive

LEMMA DeliverTyped ==
  ASSUME Typed, NEW p \in Goroutines, NEW x, x # 0, Deliver(p, x)
  PROVE  Typed'
<1>1. out[p] # <<>> /\ x \in Head(out[p]).to
  BY DEF Deliver
<1>2. IsOut(Rest(p, x)) /\ Head(out[p]) \in AllMessages
  BY <1>1, RestTyped
<1>3. x \in Nodes \/ x \in CMs
  BY <1>1, <1>2, Receivers
<1>4. IF x \in Nodes THEN NodeReceive(x, Head(out[p]), Rest(p, x))
                     ELSE CMReceive(x, Head(out[p]), Rest(p, x))
  BY DEF Deliver, Rest
<1>5. ProgramTyped'
  BY DEF Deliver, workVars, Typed, ProgramTyped
<1>6. CASE x \in Nodes
  <2>1. NodesTyped' /\ IsOut(out') /\ UNCHANGED <<cm, pend>>
    BY <1>2, <1>4, <1>6, NodeReceiveTyped
  <2> QED
    BY <1>5, <2>1 DEF Typed, CMsTyped, PendTyped
<1>7. CASE x \in CMs
  BY <1>2, <1>4, <1>5, <1>7, CMReceiveTyped, Identifiers DEF Typed
<1> QED
  BY <1>3, <1>6, <1>7

LEMMA GoroutineOf ==
  ASSUME NEW p \in Goroutines, NEW types, Doing(p, types)
  PROVE  out[p] # <<>> /\ Head(out[p]).type \in types /\ Head(out[p]).to = {}
  BY DEF Doing

LEMMA NodeLocalTyped ==
  ASSUME Typed, NEW n \in Nodes, UNCHANGED workVars, ManagerKnown(n) \/ InvalidateOwn(n) \/ NodeResumes(n)
  PROVE  Typed'
<1>1. ProgramTyped'
  BY DEF workVars, Typed, ProgramTyped
<1>2. UNCHANGED node => NodesTyped'
  BY DEF Typed, NodesTyped
<1>3. UNCHANGED pend => PendTyped'
  BY DEF Typed, PendTyped
<1>4. UNCHANGED cm => CMsTyped'
  BY DEF Typed, CMsTyped
<1>5. node[n] \in NodeType /\ Len(node[n].inbox) <= 1
  BY DEF Typed, NodesTyped
<1>6. CASE ManagerKnown(n)
  <2>1. PICK p \in {Client(n), Listener(n)} :
          /\ Doing(p, ManagerTypes \cup {"await"})
          /\ node[n].cmId # 0
          /\ out' = IF Head(out[p]).type = "await" THEN Done(p)
                    ELSE [out EXCEPT ![p][1].to = {node[n].cmId}]
          /\ UNCHANGED <<cm, node, pend, panic>>
    BY <1>6 DEF ManagerKnown
  <2>2. p \in Goroutines
    BY GoroutineSet
  <2>3. out[p] # <<>> /\ Head(out[p]).type \in ManagerTypes \cup {"await"}
    BY <2>1, <2>2, GoroutineOf
  <2>4. out[p] \in Seq(AllMessages) /\ Head(out[p]) \in AllMessages /\ Head(out[p]) = out[p][1]
        /\ 1 \in DOMAIN out[p]
    BY <2>2, <2>3, HeadOf DEF Typed, IsOut
  <2>5. IsOut(out')
    <3>1. CASE Head(out[p]).type = "await"
      BY <2>1, <2>2, <2>3, <3>1, DoneTyped
    <3>2. CASE Head(out[p]).type \in ManagerTypes
      <4> DEFINE m == [Head(out[p]) EXCEPT !.to = {node[n].cmId}]
                 s == [out[p] EXCEPT ![1] = m]
      <4>1. node[n].cmId \in CMs
        BY <1>5, <2>1 DEF NodeType
      <4>2. Head(out[p]).type \in Types /\ Head(out[p]) \in Messages(Head(out[p]).type)
            /\ ReceiversOf(Head(out[p]).type) = CMs \cup {0}
        BY <2>4, <3>2, Fields DEF ReceiversOf, ManagerTypes, ToCMs, ToNodes
      <4>3. m \in Messages(Head(out[p]).type)
        BY <4>1, <4>2 DEF Messages
      <4>4. m \in AllMessages
        BY <4>2, <4>3 DEF AllMessages
      <4>5. s \in Seq(AllMessages)
        <5> HIDE DEF m
        <5> QED
          BY <2>4, <4>4, ExceptSeq
      <4>6. out' = [out EXCEPT ![p] = s]
        BY <2>1, <2>2, <2>4, <3>2 DEF ManagerTypes, Typed, IsOut
      <4> QED
        BY <2>2, <4>5, <4>6, SetOut DEF Typed
    <3> QED
      BY <2>3, <3>1, <3>2
  <2> QED
    BY <1>1, <1>2, <1>3, <1>4, <2>1, <2>5 DEF Typed
<1>7. CASE InvalidateOwn(n)
  <2>1. Client(n) \in Goroutines
    BY GoroutineSet
  <2>2. IsOut(out')
    BY <1>7, <2>1, DoneTyped DEF InvalidateOwn, Doing
  <2>3. [node[n] EXCEPT !.access = "INVALID"] \in NodeType
        /\ [node[n] EXCEPT !.access = "INVALID"].inbox = node[n].inbox
    BY <1>5 DEF NodeType
  <2>4. NodesTyped'
    BY <1>5, <1>7, <2>3, SetNode DEF InvalidateOwn, Typed
  <2> QED
    BY <1>1, <1>3, <1>4, <1>7, <2>2, <2>4 DEF InvalidateOwn, Typed
<1>8. CASE NodeResumes(n)
  <2>1. Listener(n) \in Goroutines
    BY GoroutineSet
  <2>2. out[Listener(n)] # <<>> /\ NodeServes(n, Head(out[Listener(n)]), Done(Listener(n)))
        /\ UNCHANGED <<cm, pend>>
    BY <1>8 DEF NodeResumes, Doing
  <2>3. IsOut(Done(Listener(n))) /\ Head(out[Listener(n)]) \in AllMessages
    BY <2>1, <2>2, DoneTyped
  <2>4. NodesTyped' /\ IsOut(out')
    BY <2>2, <2>3, NodeServesTyped
  <2> QED
    BY <1>1, <1>3, <1>4, <2>2, <2>4 DEF Typed
<1> QED
  BY <1>6, <1>7, <1>8

LEMMA CMLocalTyped ==
  ASSUME Typed, NEW c \in CMs, UNCHANGED workVars,
         \/ RequestEnds(c) \/ ClearElection(c) \/ ElectionLost(c)
         \/ HandleRequest(c) \/ ServeRead(c) \/ ServeWrite(c)
  PROVE  Typed'
<1>1. ProgramTyped'
  BY DEF workVars, Typed, ProgramTyped
<1>2. UNCHANGED node => NodesTyped'
  BY DEF Typed, NodesTyped
<1>3. UNCHANGED pend => PendTyped'
  BY DEF Typed, PendTyped
<1>4. UNCHANGED cm => CMsTyped'
  BY DEF Typed, CMsTyped
<1>5. Listener(c) \in Goroutines /\ Handler(c) \in Goroutines /\ Elector(c) \in Goroutines
  BY GoroutineSet
<1>6. ASSUME NEW r \in CMType, cm' = [cm EXCEPT ![c] = r], r.req = cm[c].req, r.id = cm[c].id,
             r.invalCount = cm[c].invalCount, r.invalExpected = cm[c].invalExpected
      PROVE  CMsTyped'
  BY <1>6, CMFields, SetCM DEF Typed
<1>7. CASE RequestEnds(c)
  <2> DEFINE r == [cm[c] EXCEPT !.req = "IDLE", !.id = NoId]
  <2>1. r \in CMType /\ r.req = "IDLE" /\ r.id = NoId /\ r.invalCount = cm[c].invalCount
        /\ r.invalExpected = cm[c].invalExpected
    BY CMFields DEF CMType, Typed
  <2>2. cm' = [cm EXCEPT ![c] = r]
    BY <1>7 DEF RequestEnds, RequestOver, Typed, CMsTyped
  <2>3. CMsTyped'
    <3> HIDE DEF r
    <3> QED
      BY <2>1, <2>2, CMFields, SetCM DEF Typed
  <2>4. IsOut(out')
    BY <1>5, <1>7, DoneTyped DEF RequestEnds, Doing
  <2> QED
    BY <1>1, <1>2, <1>3, <1>7, <2>3, <2>4 DEF RequestEnds, Typed
<1>8. CASE ClearElection(c) \/ ElectionLost(c)
  <2> DEFINE r == [cm[c] EXCEPT !.ongoing = FALSE, !.refused = FALSE, !.electionId = NoId]
  <2>1. r \in CMType /\ r.req = cm[c].req /\ r.id = cm[c].id /\ r.invalCount = cm[c].invalCount
        /\ r.invalExpected = cm[c].invalExpected
    BY CMFields DEF CMType, Typed
  <2>2. cm' = [cm EXCEPT ![c] = r]
    BY <1>8 DEF ClearElection, ElectionLost, Typed, CMsTyped
  <2>3. CMsTyped'
    <3> HIDE DEF r
    <3> QED
      BY <1>6, <2>1, <2>2
  <2>4. IsOut(out')
    BY <1>5, <1>8, DoneTyped DEF ClearElection, ElectionLost, Doing, Typed
  <2> QED
    BY <1>1, <1>2, <1>3, <1>8, <2>3, <2>4 DEF ClearElection, ElectionLost, Typed
<1>9. CASE HandleRequest(c)
  <2>1. PICK m \in pend[c] :
          /\ pend' = [pend EXCEPT ![c] = @ \ {m}]
          /\ IF Serves(c, m)
             THEN /\ cm' = [cm EXCEPT ![c].req = m.type, ![c].id = m.id]
                  /\ out' = [out EXCEPT ![Handler(c)] =
                                <<Msg(Recv[m.type], {Other(c)}, m.id, Records(c)),
                                  Local(Serve[m.type], m.id)>>]
             ELSE UNCHANGED <<cm, out>>
          /\ UNCHANGED <<node, panic>>
    BY <1>9 DEF HandleRequest
  <2>2. m.type \in {"RQ", "WQ"} /\ m.id \in RequestIds
    <3>1. m \in Messages("RQ") \cup Messages("WQ")
      BY DEF Typed, PendTyped
    <3>2. IdsOf("RQ") = RequestIds /\ IdsOf("WQ") = RequestIds
      BY DEF IdsOf
    <3> QED
      BY <3>1, <3>2 DEF Messages
  <2>3. PendTyped'
    BY <2>1 DEF Typed, PendTyped
  <2>4. CASE ~Serves(c, m)
    BY <1>1, <1>2, <1>4, <2>1, <2>3, <2>4 DEF Typed
  <2>5. CASE Serves(c, m)
    <3> DEFINE r == [cm[c] EXCEPT !.req = m.type, !.id = m.id]
    <3>1. r \in CMType /\ r.req = m.type /\ r.id = m.id /\ r.invalCount = cm[c].invalCount
          /\ r.invalExpected = cm[c].invalExpected
      BY <2>2, CMFields DEF CMType, Typed
    <3>2. cm' = [cm EXCEPT ![c] = r]
      BY <2>1, <2>5 DEF Typed, CMsTyped
    <3>3. CMsTyped'
      <4> HIDE DEF r
      <4> QED
        BY <2>2, <3>1, <3>2, CMFields, SetCM, NoIdIsNoRequest DEF Typed
    <3>4. Recv[m.type] \in {"RQ_RECV", "WQ_RECV"} /\ Serve[m.type] \in {"serveRQ", "serveWQ"}
      BY <2>2 DEF Recv, Serve
    <3>5. /\ Msg(Recv[m.type], {Other(c)}, m.id, Records(c)) \in AllMessages
          /\ Local(Serve[m.type], m.id) \in AllMessages
      BY <2>2, <3>4, RecordsTyped, Update, LocalStep, OtherManager DEF Typed
    <3>6. <<Msg(Recv[m.type], {Other(c)}, m.id, Records(c)), Local(Serve[m.type], m.id)>>
            \in Seq(AllMessages)
      BY <3>5, ShortSeqs
    <3>7. IsOut(out')
      <4> DEFINE s == <<Msg(Recv[m.type], {Other(c)}, m.id, Records(c)), Local(Serve[m.type], m.id)>>
      <4>1. out' = [out EXCEPT ![Handler(c)] = s] /\ s \in Seq(AllMessages)
        BY <2>1, <2>5, <3>6
      <4> HIDE DEF s
      <4> QED
        BY <1>5, <4>1, SetOut DEF Typed
    <3> QED
      BY <1>1, <1>2, <2>1, <2>3, <3>3, <3>7 DEF Typed
  <2> QED
    BY <2>4, <2>5
<1>10. CASE ServeRead(c)
  <2> DEFINE id == Head(out[Handler(c)]).id
  <2>1. out[Handler(c)] # <<>> /\ Head(out[Handler(c)]).type = "serveRQ"
    BY <1>10 DEF ServeRead, Doing
  <2>2. IsOut(Done(Handler(c))) /\ id \in RequestIds
    BY <1>5, <2>1, DoneTyped, Carried
  <2>3. Requestor(id) \in Nodes
    BY <2>2 DEF Requestor, RequestIds
  <2>4. CASE cm[c].owner \in {0, Requestor(id)}
    BY <1>1, <1>2, <1>3, <1>4, <1>10, <2>2, <2>4 DEF ServeRead, Fail, Typed
  <2>5. CASE cm[c].owner \notin {0, Requestor(id)}
    <3> DEFINE r == [cm[c] EXCEPT !.copies = @ \cup {Requestor(id)}]
    <3>1. r \in CMType /\ r.req = cm[c].req /\ r.id = cm[c].id /\ r.invalCount = cm[c].invalCount
          /\ r.invalExpected = cm[c].invalExpected
      BY <2>3, CMFields DEF CMType, Typed
    <3>2. cm' = [cm EXCEPT ![c] = r]
      BY <1>10, <2>5 DEF ServeRead
    <3>3. CMsTyped'
      <4> HIDE DEF r
      <4> QED
        BY <1>6, <3>1, <3>2
    <3>4. Msg("RF", {cm[c].owner}, id, Requestor(id)) \in AllMessages
      BY <2>2, <2>3, CMFields, Forward DEF Typed
    <3>5. <<Msg("RF", {cm[c].owner}, id, Requestor(id))>> \in Seq(AllMessages)
      BY <3>4, ShortSeqs
    <3>6. IsOut(out')
      <4> DEFINE s == <<Msg("RF", {cm[c].owner}, id, Requestor(id))>>
      <4>1. out' = [out EXCEPT ![Handler(c)] = s] /\ s \in Seq(AllMessages)
        BY <1>10, <2>5, <3>5 DEF ServeRead
      <4> HIDE DEF s
      <4> QED
        BY <1>5, <4>1, SetOut DEF Typed
    <3> QED
      BY <1>1, <1>2, <1>3, <1>10, <2>5, <3>3, <3>6 DEF ServeRead, Typed
  <2> QED
    BY <2>4, <2>5
<1>11. CASE ServeWrite(c)
  <2> DEFINE id == Head(out[Handler(c)]).id
  <2>1. out[Handler(c)] # <<>> /\ Head(out[Handler(c)]).type = "serveWQ"
    BY <1>11 DEF ServeWrite, Doing
  <2>2. IsOut(Done(Handler(c))) /\ id \in RequestIds
    BY <1>5, <2>1, DoneTyped, Carried
  <2>3. Requestor(id) \in Nodes
    BY <2>2 DEF Requestor, RequestIds
  <2>4. CASE cm[c].copies = {}
    <3>1. <<Grant(id, c)>> \in Seq(AllMessages)
      BY <2>2, GrantTyped, ShortSeqs DEF Typed
    <3>2. IsOut(out')
      <4> DEFINE s == <<Grant(id, c)>>
      <4>1. out' = [out EXCEPT ![Handler(c)] = s] /\ s \in Seq(AllMessages)
        BY <1>11, <2>4, <3>1 DEF ServeWrite
      <4> HIDE DEF s
      <4> QED
        BY <1>5, <4>1, SetOut DEF Typed
    <3> QED
      BY <1>1, <1>2, <1>3, <1>4, <1>11, <2>4, <3>2 DEF ServeWrite, Typed
  <2>5. CASE Fail("OwnerHasCopy", Done(Handler(c)))
    BY <1>1, <1>2, <1>3, <1>4, <2>2, <2>5 DEF Fail, Typed
  <2>6. CASE cm[c].copies # {} /\ cm[c].owner \notin cm[c].copies
    <3> DEFINE r == [cm[c] EXCEPT !.invalCount = 0, !.invalExpected = Cardinality(cm[c].copies)]
    <3>1. Cardinality(cm[c].copies) \in 0..Cardinality(Nodes)
      BY CMFields, NodesAssumption, FS_Subset, FS_CardinalityType DEF Typed
    <3>2. r \in CMType /\ r.req = cm[c].req /\ r.id = cm[c].id /\ r.invalCount = 0
          /\ r.invalExpected = Cardinality(cm[c].copies)
      BY <3>1, CMFields DEF CMType, Typed
    <3>3. cm' = [cm EXCEPT ![c] = r]
      BY <1>11, <2>6 DEF ServeWrite, Typed, CMsTyped
    <3>4. CMsTyped'
      <4> HIDE DEF r
      <4>1. r.invalCount <= r.invalExpected
        BY <3>1, <3>2
      <4>2. r.req = "IDLE" <=> r.id = NoId
        BY <3>2, CMFields DEF Typed
      <4> QED
        BY <3>2, <3>3, <4>1, <4>2, SetCM DEF Typed
    <3>5. Msg("IV", cm[c].copies, id, Requestor(id)) \in AllMessages
      BY <2>2, <2>3, CMFields, Forward DEF Typed
    <3>6. <<Msg("IV", cm[c].copies, id, Requestor(id))>> \in Seq(AllMessages)
      BY <3>5, ShortSeqs
    <3>7. IsOut(out')
      <4> DEFINE s == <<Msg("IV", cm[c].copies, id, Requestor(id))>>
      <4>1. out' = [out EXCEPT ![Handler(c)] = s] /\ s \in Seq(AllMessages)
        BY <1>11, <2>6, <3>6 DEF ServeWrite
      <4> HIDE DEF s
      <4> QED
        BY <1>5, <4>1, SetOut DEF Typed
    <3> QED
      BY <1>1, <1>2, <1>3, <1>11, <2>6, <3>4, <3>7 DEF ServeWrite, Typed
  <2> QED
    BY <1>11, <2>4, <2>5, <2>6 DEF ServeWrite
<1> QED
  BY <1>7, <1>8, <1>9, <1>10, <1>11

LEMMA ReqIdTyped ==
  ASSUME ProgramTyped, NEW n \in Nodes
  PROVE  ReqId(n) \in RequestIds
<1>1. rounds \in Seq([Nodes -> {"none", "read", "write"}])
  BY BoundsAssumption DEF ProgramTyped
<1>2. Len(rounds) \in Nat
  BY <1>1, LenProperties
<1> QED
  BY <1>2 DEF ReqId, RequestIds, ProgramTyped

LEMMA ClientDoneTyped ==
  ASSUME Typed, NEW n \in Nodes, NEW data \in Data, ClientDone(n, data)
  PROVE  Typed'
<1>1. node[n] \in NodeType /\ Len(node[n].inbox) <= 1
  BY DEF Typed, NodesTyped
<1> DEFINE r == [node[n] EXCEPT !.pc = "idle", !.data = data]
<1>2. r \in NodeType /\ r.inbox = node[n].inbox
  BY <1>1 DEF NodeType
<1>3. node' = [node EXCEPT ![n] = r]
  BY DEF ClientDone, Typed, NodesTyped
<1>4. NodesTyped'
  <2> HIDE DEF r
  <2> QED
    BY <1>1, <1>2, <1>3, SetNode DEF Typed
<1> QED
  BY <1>4 DEF ClientDone, Typed, CMsTyped, PendTyped, ProgramTyped

LEMMA RequestPageTyped ==
  ASSUME Typed, NEW n \in Nodes, RequestPage(n)
  PROVE  Typed'
<1>1. node[n] \in NodeType /\ node[n].data \in Data
  BY DEF Typed, NodesTyped, NodeType
<1>2. ReqId(n) \in RequestIds /\ ReqId(n) \in Data
  BY ReqIdTyped DEF Typed, Data
<1>3. Client(n) \in Goroutines
  BY GoroutineSet
<1>4. ASSUME NEW t \in {"RQ", "WQ"}, NEW s \in Seq(AllMessages),
             node' = [node EXCEPT ![n].pc = "page", ![n].inbox = <<>>, ![n].ack = FALSE,
                                  ![n].state = t, ![n].id = ReqId(n)],
             out' = [out EXCEPT ![Client(n)] = s],
             UNCHANGED <<cm, pend, workVars, panic>>
      PROVE  Typed'
  <2> DEFINE r == [node[n] EXCEPT !.pc = "page", !.inbox = <<>>, !.ack = FALSE, !.state = t,
                                  !.id = ReqId(n)]
  <2>1. r \in NodeType /\ Len(r.inbox) <= 1
    <3>1. <<>> \in Seq(Messages("RP") \cup Messages("WP") \cup Messages("WI")) /\ Len(<<>>) = 0
      BY ShortSeqs
    <3>2. r \in NodeType
      BY <1>1, <1>2, <3>1 DEF NodeType
    <3>3. r.inbox = <<>>
      BY <1>1 DEF NodeType
    <3> QED
      BY <3>1, <3>2, <3>3
  <2>2. node' = [node EXCEPT ![n] = r]
    BY <1>4 DEF Typed, NodesTyped
  <2>3. NodesTyped'
    <3> HIDE DEF r
    <3> QED
      BY <2>1, <2>2, SetNode DEF Typed
  <2>4. IsOut(out')
    BY <1>3, <1>4, SetOut DEF Typed
  <2> QED
    BY <1>4, <2>3, <2>4 DEF Typed, CMsTyped, PendTyped, ProgramTyped, workVars
<1>5. CASE ClientDone(n, node[n].data) \/ ClientDone(n, ReqId(n))
  BY <1>1, <1>2, <1>5, ClientDoneTyped
<1>6. CASE /\ node' = [node EXCEPT ![n].pc = "page", ![n].inbox = <<>>, ![n].ack = FALSE,
                                   ![n].state = "RQ", ![n].id = ReqId(n)]
           /\ out' = [out EXCEPT ![Client(n)] = ToManager(n, "RQ", ReqId(n))]
           /\ UNCHANGED <<cm, pend, workVars, panic>>
  <2>1. ToManager(n, "RQ", ReqId(n)) \in Seq(AllMessages)
    BY <1>2, ToManagerTyped
  <2> QED
    BY <1>4, <1>6, <2>1
<1>7. CASE /\ node' = [node EXCEPT ![n].pc = "page", ![n].inbox = <<>>, ![n].ack = FALSE,
                                   ![n].state = "WQ", ![n].id = ReqId(n)]
           /\ out' = [out EXCEPT ![Client(n)] =
                         Append(ToManager(n, "WQ", ReqId(n)), Local("invalidate", ReqId(n)))]
           /\ UNCHANGED <<cm, pend, workVars, panic>>
  <2>1. Append(ToManager(n, "WQ", ReqId(n)), Local("invalidate", ReqId(n))) \in Seq(AllMessages)
    BY <1>2, ToManagerTyped, LocalStep, AppendProperties
  <2> QED
    BY <1>4, <1>7, <2>1
<1> QED
  BY <1>5, <1>6, <1>7 DEF RequestPage

LEMMA TakePageTyped ==
  ASSUME Typed, NEW n \in Nodes, TakePage(n)
  PROVE  Typed'
<1>1. node[n] \in NodeType /\ Len(node[n].inbox) <= 1
  BY DEF Typed, NodesTyped
<1>2. ReqId(n) \in RequestIds
  BY ReqIdTyped DEF Typed
<1> DEFINE m == node[n].inbox[1]
<1>3. m.body \in Data
  <2>1. node[n].inbox \in Seq(Messages("RP") \cup Messages("WP") \cup Messages("WI"))
    BY <1>1 DEF NodeType
  <2>2. m \in Messages("RP") \cup Messages("WP") \cup Messages("WI")
    BY <2>1, HeadOf DEF TakePage
  <2>3. \A t \in {"RP", "WP", "WI"} : BodiesOf(t) = Data
    BY DEF BodiesOf
  <2> QED
    BY <2>2, <2>3 DEF Messages
<1>4. UNCHANGED workVars
  BY DEF TakePage
<1>5. CASE Fail("WrongPage", out)
  BY <1>4, <1>5 DEF Fail, Typed, CMsTyped, NodesTyped, PendTyped, ProgramTyped, workVars
<1>6. CASE ~Fail("WrongPage", out)
  <2> DEFINE r == [node[n] EXCEPT !.pc = "ack", !.inbox = <<>>, !.data = m.body,
                                  !.access = IF IsRead(n) THEN "READONLY" ELSE "READWRITE"]
             s == ToManager(n, IF IsRead(n) THEN "RC" ELSE "WC", ReqId(n))
  <2>1. node' = [node EXCEPT ![n] = r] /\ out' = [out EXCEPT ![Client(n)] = s] /\ UNCHANGED <<cm, pend>>
    BY <1>6 DEF TakePage, Typed, NodesTyped
  <2>2. r \in NodeType /\ Len(r.inbox) <= 1
    <3>1. <<>> \in Seq(Messages("RP") \cup Messages("WP") \cup Messages("WI")) /\ Len(<<>>) = 0
      BY ShortSeqs
    <3>2. (IF IsRead(n) THEN "READONLY" ELSE "READWRITE") \in {"READONLY", "READWRITE"}
      OBVIOUS
    <3> HIDE DEF m
    <3>3. r \in NodeType
      BY <1>1, <1>3, <3>1, <3>2 DEF NodeType
    <3>4. r.inbox = <<>>
      BY <1>1 DEF NodeType
    <3> QED
      BY <3>1, <3>3, <3>4
  <2>3. s \in Seq(AllMessages)
    BY <1>2, ToManagerTyped
  <2>4. NodesTyped'
    <3> HIDE DEF r
    <3> QED
      BY <2>1, <2>2, SetNode DEF Typed
  <2>5. IsOut(out')
    <3> HIDE DEF s
    <3> QED
      BY <2>1, <2>3, GoroutineSet, SetOut DEF Typed
  <2> QED
    BY <1>4, <2>1, <2>4, <2>5 DEF Typed, CMsTyped, PendTyped, ProgramTyped, workVars
<1> QED
  BY <1>5, <1>6

LEMMA ClientTyped ==
  ASSUME Typed, NEW n \in Nodes, RequestPage(n) \/ TakePage(n) \/ ClientReturns(n)
  PROVE  Typed'
<1>1. node[n].data \in Data
  BY DEF Typed, NodesTyped, NodeType
<1>2. ReqId(n) \in Data
  BY ReqIdTyped DEF Typed, Data
<1>3. CASE ClientReturns(n)
  BY <1>1, <1>2, <1>3, ClientDoneTyped DEF ClientReturns
<1> QED
  BY <1>3, RequestPageTyped, TakePageTyped

LEMMA TimeoutTyped ==
  ASSUME Typed, NEW n \in Nodes, Timeout(n)
  PROVE  Typed'
<1>1. node[n] \in NodeType /\ Len(node[n].inbox) <= 1
  BY DEF Typed, NodesTyped
<1>2. ReqId(n) \in RequestIds
  BY ReqIdTyped DEF Typed
<1>3. ASSUME NEW r \in NodeType, r.inbox = node[n].inbox, node' = [node EXCEPT ![n] = r],
             NEW s \in Seq(AllMessages), out' = [out EXCEPT ![Client(n)] = s],
             UNCHANGED <<cm, pend, workVars>>
      PROVE  Typed'
  <2>1. NodesTyped'
    BY <1>1, <1>3, SetNode DEF Typed
  <2>2. IsOut(out')
    BY <1>3, GoroutineSet, SetOut DEF Typed
  <2> QED
    BY <1>3, <2>1, <2>2 DEF Typed, CMsTyped, PendTyped, ProgramTyped, workVars
<1>4. CASE PageTimeout(n)
  <2> DEFINE r == [node[n] EXCEPT !.pc = "ask", !.cmId = 0, !.state = IF IsRead(n) THEN @ ELSE "IDLE"]
             s == <<ElectionStart, Local("await", ReqId(n))>>
  <2>1. r \in NodeType /\ r.inbox = node[n].inbox
    BY <1>1 DEF NodeType
  <2>2. s \in Seq(AllMessages)
    BY <1>2, Electing, LocalStep, ShortSeqs
  <2>3. node' = [node EXCEPT ![n] = r] /\ out' = [out EXCEPT ![Client(n)] = s]
        /\ UNCHANGED <<cm, pend, workVars>>
    BY <1>4 DEF PageTimeout, Typed, NodesTyped
  <2> HIDE DEF r, s
  <2> QED
    BY <1>3, <2>1, <2>2, <2>3
<1>5. CASE ConfirmTimeout(n)
  <2> DEFINE t == IF IsRead(n) THEN "RC" ELSE "WC"
             r == [node[n] EXCEPT !.cmId = 0, !.state = IF IsRead(n) THEN "IDLE" ELSE @]
             s == <<ElectionStart, Msg(t, {}, ReqId(n), n)>>
  <2>1. r \in NodeType /\ r.inbox = node[n].inbox
    BY <1>1 DEF NodeType
  <2>2. s \in Seq(AllMessages)
    <3>1. t \in {"RQ", "WQ", "RC", "WC", "IC"}
      OBVIOUS
    <3> HIDE DEF t
    <3>2. Msg(t, {}, ReqId(n), n) \in AllMessages
      BY <1>2, <3>1, FromNode
    <3> QED
      BY <3>2, Electing, ShortSeqs
  <2>3. node' = [node EXCEPT ![n] = r] /\ out' = [out EXCEPT ![Client(n)] = s]
        /\ UNCHANGED <<cm, pend, workVars>>
    BY <1>5 DEF ConfirmTimeout, Typed, NodesTyped
  <2> HIDE DEF r, s
  <2> QED
    BY <1>3, <2>1, <2>2, <2>3
<1> QED
  BY <1>4, <1>5 DEF Timeout

LEMMA NextRoundTyped ==
  ASSUME Typed, NextRound
  PROVE  Typed'
<1>1. rounds \in Seq([Nodes -> {"none", "read", "write"}])
  BY BoundsAssumption DEF Typed, ProgramTyped
<1>2. Len(rounds) \in Nat
  BY <1>1, LenProperties
<1>3. ProgramTyped'
  BY <1>2 DEF NextRound, Typed, ProgramTyped
<1>4. ASSUME NEW n \in Nodes
      PROVE  node'[n] \in NodeType /\ Len(node'[n].inbox) <= 1
  <2>1. node[n] \in NodeType /\ Len(node[n].inbox) <= 1
    BY DEF Typed, NodesTyped
  <2>2. \A pc \in {"idle", "ready"} :
          [node[n] EXCEPT !.pc = pc] \in NodeType /\ [node[n] EXCEPT !.pc = pc].inbox = node[n].inbox
    BY <2>1 DEF NodeType
  <2>3. node'[n] = [node[n] EXCEPT !.pc = IF rounds[round'][n] = "none" THEN "idle" ELSE "ready"]
    BY DEF NextRound
  <2> QED
    BY <2>1, <2>2, <2>3
<1>5. DOMAIN node' = Nodes /\ node' = [n \in Nodes |-> node'[n]]
  BY DEF NextRound
<1>6. NodesTyped'
  BY <1>4, <1>5 DEF NodesTyped
<1> QED
  BY <1>3, <1>6 DEF NextRound, Typed, CMsTyped, PendTyped

LEMMA CrashTyped ==
  ASSUME Typed, NEW c \in CMs, ElectionTimeout(c) \/ Kill(c) \/ Reboot(c)
  PROVE  Typed'
<1>1. ASSUME NEW r \in CMType, cm' = [cm EXCEPT ![c] = r], r.req = cm[c].req, r.id = cm[c].id,
             r.invalCount = cm[c].invalCount, r.invalExpected = cm[c].invalExpected
      PROVE  CMsTyped'
  BY <1>1, CMFields, SetCM DEF Typed
<1>2. Elector(c) \in Goroutines
  BY GoroutineSet
<1>3. CASE ElectionTimeout(c)
  <2> DEFINE r == [cm[c] EXCEPT !.state = "PRIMARY"]
  <2>1. r \in CMType /\ r.req = cm[c].req /\ r.id = cm[c].id /\ r.invalCount = cm[c].invalCount
        /\ r.invalExpected = cm[c].invalExpected
    BY CMFields DEF CMType, Typed
  <2>2. cm' = [cm EXCEPT ![c] = r] /\ out' = [out EXCEPT ![Elector(c)] = Victory(c)]
        /\ UNCHANGED <<node, pend, workVars>>
    BY <1>3 DEF ElectionTimeout
  <2>3. CMsTyped'
    <3> HIDE DEF r
    <3> QED
      BY <1>1, <2>1, <2>2
  <2>4. Victory(c) \in Seq(AllMessages)
    BY Electing, ShortSeqs DEF Victory
  <2>5. IsOut(out')
    BY <1>2, <2>2, <2>4, SetOut DEF Typed
  <2> QED
    BY <2>2, <2>3, <2>5 DEF Typed, NodesTyped, PendTyped, ProgramTyped, workVars
<1>4. CASE Kill(c)
  <2> DEFINE r == [cm[c] EXCEPT !.alive = FALSE]
  <2>1. r \in CMType /\ r.req = cm[c].req /\ r.id = cm[c].id /\ r.invalCount = cm[c].invalCount
        /\ r.invalExpected = cm[c].invalExpected
    BY CMFields DEF CMType, Typed
  <2>2. cm' = [cm EXCEPT ![c] = r]
    BY <1>4 DEF Kill
  <2>3. CMsTyped'
    <3> HIDE DEF r
    <3> QED
      BY <1>1, <2>1, <2>2
  <2>4. ProgramTyped'
    BY <1>4, BoundsAssumption DEF Kill, Typed, ProgramTyped
  <2> QED
    BY <1>4, <2>3, <2>4 DEF Kill, Typed, NodesTyped, PendTyped
<1>5. CASE Reboot(c)
  <2> DEFINE id == <<c, 0>>
             r == [FreshCM EXCEPT !.ongoing = TRUE, !.electionId = id, !.counter = 1 % ElectionIds]
             s == <<Msg("ELECT_ME", {Other(c)}, id, c)>>
  <2>1. cm' = [cm EXCEPT ![c] = r] /\ out' = [out EXCEPT ![Elector(c)] = s]
        /\ UNCHANGED <<node, pend, workVars>>
    BY <1>5 DEF Reboot
  <2>2. id \in CMElectionIds
    BY BoundsAssumption DEF CMElectionIds
  <2>3. 1 % ElectionIds \in 0..(ElectionIds - 1) /\ Cardinality(Nodes) \in Nat
    BY BoundsAssumption, NodesAssumption, FS_CardinalityType
  <2>4. r \in CMType /\ r.req = "IDLE" /\ r.id = NoId /\ r.invalCount = 0 /\ r.invalExpected = 0
    <3> HIDE DEF id
    <3>1. FreshCM \in CMType
      BY BoundsAssumption, <2>3 DEF FreshCM, CMType
    <3>2. r.ongoing = TRUE /\ r.electionId = id /\ r.counter = 1 % ElectionIds
      BY DEF FreshCM
    <3>3. r \in CMType
      BY <2>2, <2>3, <3>1 DEF CMType
    <3> QED
      BY <3>3 DEF FreshCM
  <2>5. CMsTyped'
    <3> HIDE DEF r
    <3>1. r.invalCount <= r.invalExpected
      BY <2>4
    <3> QED
      BY <2>1, <2>4, <3>1, SetCM DEF Typed
  <2>6. s \in Seq(AllMessages)
    BY <2>2, OtherManager, Electing, ShortSeqs
  <2>7. IsOut(out')
    <3> HIDE DEF s
    <3> QED
      BY <1>2, <2>1, <2>6, SetOut DEF Typed
  <2> QED
    BY <2>1, <2>5, <2>7 DEF Typed, NodesTyped, PendTyped, ProgramTyped, workVars
<1> QED
  BY <1>3, <1>4, <1>5

LEMMA StepTyped == Typed /\ [Next]_vars => Typed'
<1> SUFFICES ASSUME Typed, [Next]_vars PROVE Typed'
  OBVIOUS
<1>1. CASE UNCHANGED vars
  BY <1>1 DEF vars, workVars, Typed, CMsTyped, NodesTyped, PendTyped, ProgramTyped
<1>2. CASE Work
  <2>1. ASSUME NEW p \in Goroutines, out[p] # <<>>, NEW x \in Head(out[p]).to \ {0}, Deliver(p, x)
        PROVE  Typed'
    BY <2>1, DeliverTyped
  <2>2. ASSUME NEW n \in Nodes, ManagerKnown(n) \/ InvalidateOwn(n) \/ NodeResumes(n), UNCHANGED workVars
        PROVE  Typed'
    BY <2>2, NodeLocalTyped
  <2>3. ASSUME NEW c \in CMs, UNCHANGED workVars,
               \/ RequestEnds(c) \/ ClearElection(c) \/ ElectionLost(c)
               \/ HandleRequest(c) \/ ServeRead(c) \/ ServeWrite(c)
        PROVE  Typed'
    BY <2>3, CMLocalTyped
  <2>4. ASSUME NEW n \in Nodes, RequestPage(n) \/ TakePage(n) \/ ClientReturns(n)
        PROVE  Typed'
    BY <2>4, ClientTyped
  <2> QED
    BY <1>2, <2>1, <2>2, <2>3, <2>4 DEF Work
<1>3. CASE NextRound
  BY <1>3, NextRoundTyped
<1>4. CASE (\E n \in Nodes : Timeout(n)) \/ \E c \in CMs : ElectionTimeout(c) \/ Kill(c) \/ Reboot(c)
  BY <1>4, TimeoutTyped, CrashTyped
<1> QED
  BY <1>1, <1>2, <1>3, <1>4 DEF Next, Step

\* Every variable keeps its type: each message and local step carries what its type demands.
THEOREM TypeCorrect == Spec => []TypeOK
<1>1. Spec => []Typed
  BY InitTyped, StepTyped, PTL DEF Spec
<1> QED
  BY <1>1, TypedTypeOK, PTL

-----------------------------------------------------------------------------
(***************************************************************************)
(* Elections: the invariant.                                               *)
(***************************************************************************)

\* The messages of a goroutine's list.
Said(s) == {s[i] : i \in DOMAIN s}

Refusal == {"UPDATE", "ELECT_NO"}  \* how a manager refuses to let the other one win
Winning == {"ELWIN", "clear"}      \* what a winner still has to do

\* Each message of an election comes from one goroutine, and goes to the other manager.
Says(p, m) ==
    /\ m.type = "ELECT_ME" => \E c \in CMs : p = Elector(c) /\ m.to = {Other(c)} /\ m.body = c
    /\ m.type \in Refusal => \E c \in CMs : p = Listener(c) /\ m.to = {Other(c)}

Origins == \A p \in Goroutines : \A m \in Said(out[p]) : Says(p, m)

\* A backup asks to be elected, a primary announces that it was.
Canvass ==
    \A c \in CMs : \A m \in Said(out[Elector(c)]) :
        IF Primary(c) THEN m.type \in Winning ELSE m.type = "ELECT_ME"

\* A backup's listener has something to say only when it refuses a lower backup.
BackupRefuses ==
    \A c \in CMs : ~Primary(c) /\ out[Listener(c)] # <<>> =>
        /\ c > Other(c) /\ ~Primary(Other(c))
        /\ \A m \in Said(out[Listener(c)]) : m.type \in Refusal

Refused(s) == \E m \in Said(s) : m.type = "ELECT_NO"
Refusing(c) == Refused(out[Listener(c)])

\* A listener that refuses says nothing else.
RefusalAlone == \A c \in CMs : Refusing(c) => \A m \in Said(out[Listener(c)]) : m.type \in Refusal

\* The other manager has answered c's ELECT_ME, and has not refused.
Cleared(c) ==
    /\ cm[c].ongoing /\ ~Primary(c) /\ ~cm[c].refused
    /\ out[Elector(c)] = <<>> /\ ~Refusing(Other(c))

Unopposed ==
    \A c \in CMs : Cleared(c) /\ cm[c].alive /\ cm[Other(c)].alive => ~Primary(Other(c)) /\ c > Other(c)

Orderly == Origins /\ Canvass /\ BackupRefuses /\ RefusalAlone /\ Unopposed

-----------------------------------------------------------------------------
(* Lists of messages *)

LEMMA SaidShort ==
  /\ Said(<<>>) = {}
  /\ \A a : Said(<<a>>) = {a}
  /\ \A a, b : Said(<<a, b>>) = {a, b}
  /\ \A a, b, c : Said(<<a, b, c>>) = {a, b, c}
<1>1. Said(<<>>) = {}
  BY DEF Said
<1>2. ASSUME NEW a PROVE Said(<<a>>) = {a}
  BY DEF Said
<1>3. ASSUME NEW a, NEW b PROVE Said(<<a, b>>) = {a, b}
  <2>1. DOMAIN <<a, b>> = {1, 2} /\ <<a, b>>[1] = a /\ <<a, b>>[2] = b
    OBVIOUS
  <2> QED
    BY <2>1 DEF Said
<1>4. ASSUME NEW a, NEW b, NEW c PROVE Said(<<a, b, c>>) = {a, b, c}
  <2>1. DOMAIN <<a, b, c>> = {1, 2, 3} /\ <<a, b, c>>[1] = a /\ <<a, b, c>>[2] = b
        /\ <<a, b, c>>[3] = c
    OBVIOUS
  <2> QED
    BY <2>1 DEF Said
<1> QED
  BY <1>1, <1>2, <1>3, <1>4

LEMMA SaidSplit ==
  ASSUME NEW S, NEW s \in Seq(S), s # <<>>
  PROVE  /\ Head(s) \in Said(s)
         /\ Said(Tail(s)) \subseteq Said(s)
         /\ \A m \in Said(s) : m = Head(s) \/ m \in Said(Tail(s))
<1>1. Len(s) \in Nat \ {0} /\ DOMAIN s = 1..Len(s)
  BY EmptySeq, LenProperties
<1>2. Head(s) = s[1] /\ Len(Tail(s)) = Len(s) - 1 /\ Tail(s) \in Seq(S)
      /\ \A i \in 1..(Len(s) - 1) : Tail(s)[i] = s[i + 1]
  BY <1>1, HeadTailProperties
<1>3. DOMAIN Tail(s) = 1..(Len(s) - 1)
  BY <1>2, LenProperties
<1>4. Said(Tail(s)) \subseteq Said(s)
  BY <1>1, <1>2, <1>3 DEF Said
<1>5. ASSUME NEW i \in DOMAIN s PROVE s[i] = Head(s) \/ s[i] \in Said(Tail(s))
  <2>1. CASE i = 1
    BY <1>2, <2>1
  <2>2. CASE i # 1
    <3>1. i - 1 \in DOMAIN Tail(s) /\ Tail(s)[i - 1] = s[i]
      BY <1>1, <1>2, <1>3, <2>2
    <3> QED
      BY <3>1 DEF Said
  <2> QED
    BY <2>1, <2>2
<1> QED
  BY <1>1, <1>2, <1>4, <1>5, SMTT(30) DEF Said

LEMMA SaidBoth ==
  ASSUME NEW S, NEW s \in Seq(S), NEW t \in Seq(S)
  PROVE  Said(s \o t) = Said(s) \cup Said(t)
<1>1. Len(s) \in Nat /\ DOMAIN s = 1..Len(s) /\ Len(t) \in Nat /\ DOMAIN t = 1..Len(t)
  BY LenProperties
<1>2. DOMAIN (s \o t) = 1..(Len(s) + Len(t))
      /\ \A i \in 1..(Len(s) + Len(t)) :
           (s \o t)[i] = IF i <= Len(s) THEN s[i] ELSE t[i - Len(s)]
  BY ConcatProperties, LenProperties
<1>3. ASSUME NEW m \in Said(s \o t) PROVE m \in Said(s) \cup Said(t)
  <2>1. PICK i \in 1..(Len(s) + Len(t)) : m = (s \o t)[i]
    BY <1>2 DEF Said
  <2>2. CASE i <= Len(s)
    BY <1>1, <1>2, <2>1, <2>2 DEF Said
  <2>3. CASE ~(i <= Len(s))
    <3>1. i - Len(s) \in 1..Len(t) /\ m = t[i - Len(s)]
      BY <1>1, <1>2, <2>1, <2>3
    <3> QED
      BY <1>1, <3>1 DEF Said
  <2> QED
    BY <2>2, <2>3
<1>4. ASSUME NEW m \in Said(s) PROVE m \in Said(s \o t)
  BY <1>1, <1>2 DEF Said
<1>5. ASSUME NEW m \in Said(t) PROVE m \in Said(s \o t)
  <2>1. PICK i \in 1..Len(t) : m = t[i]
    BY <1>1 DEF Said
  <2>2. i + Len(s) \in 1..(Len(s) + Len(t)) /\ (s \o t)[i + Len(s)] = m
    BY <1>1, <1>2, <2>1
  <2> QED
    BY <1>2, <2>2 DEF Said
<1> QED
  BY <1>3, <1>4, <1>5

\* A receiver gone, the list has the same messages but for its head, which has the same type.
LEMMA RestSaid ==
  ASSUME Typed, NEW p \in Goroutines, out[p] # <<>>, NEW x
  PROVE  /\ \A m \in Said(Rest(p, x)[p]) :
              m \in Said(out[p]) \/ m.type = Head(out[p]).type
         /\ \A q \in Goroutines : q # p => Rest(p, x)[q] = out[q]
         /\ Head(out[p]).to = {x} => Rest(p, x)[p] = Tail(out[p])
<1>1. out \in [Goroutines -> Seq(AllMessages)] /\ out[p] \in Seq(AllMessages)
  BY DEF Typed, IsOut
<1>2. Head(out[p]) \in AllMessages /\ Tail(out[p]) \in Seq(AllMessages)
  BY <1>1, HeadOf
<1>3. [Head(out[p]) EXCEPT !.to = Head(out[p]).to \ {x}] \in AllMessages
  BY <1>2, LessTo
<1> DEFINE h == [Head(out[p]) EXCEPT !.to = Head(out[p]).to \ {x}]
<1>4. h \in AllMessages /\ h.type = Head(out[p]).type
  BY <1>2, <1>3, Fields
<1>5. Rest(p, x)[p] = IF Head(out[p]).to \ {x} = {} THEN Tail(out[p]) ELSE <<h>> \o Tail(out[p])
  BY <1>1 DEF Rest
<1>6. \A m \in Said(<<h>> \o Tail(out[p])) : m = h \/ m \in Said(out[p])
  <2> HIDE DEF h
  <2>1. Said(<<h>> \o Tail(out[p])) = {h} \cup Said(Tail(out[p]))
    <3> DEFINE s == <<h>>
               t == Tail(out[p])
    <3>1. s \in Seq(AllMessages) /\ Said(s) = {h}
      BY <1>4, SaidShort, ShortSeqs
    <3>2. t \in Seq(AllMessages)
      BY <1>2
    <3> HIDE DEF s, t
    <3>3. Said(s \o t) = {h} \cup Said(t)
      BY <3>1, <3>2, SaidBoth
    <3> QED
      BY <3>3 DEF s, t
  <2> QED
    BY <1>1, <2>1, SaidSplit
<1>7. \A m \in Said(Rest(p, x)[p]) : m \in Said(out[p]) \/ m.type = Head(out[p]).type
  <2> HIDE DEF h
  <2> QED
    BY <1>1, <1>4, <1>5, <1>6, SaidSplit
<1>8. \A q \in Goroutines : q # p => Rest(p, x)[q] = out[q]
  BY <1>1 DEF Rest
<1> QED
  BY <1>5, <1>7, <1>8

LEMMA DoneSaid ==
  ASSUME Typed, NEW p \in Goroutines, out[p] # <<>>
  PROVE  /\ \A m \in Said(Done(p)[p]) : m \in Said(out[p])
         /\ \A q \in Goroutines : q # p => Done(p)[q] = out[q]
<1>1. out \in [Goroutines -> Seq(AllMessages)] /\ out[p] \in Seq(AllMessages)
  BY DEF Typed, IsOut
<1> QED
  BY <1>1, SaidSplit DEF Done

-----------------------------------------------------------------------------
(***************************************************************************)
(* Most steps leave the elections alone: o, the lists after such a step,   *)
(* differs from out only where it does not matter.                         *)
(***************************************************************************)

Electoral == Refusal \cup {"ELECT_ME"}

Undisturbed(o) ==
    /\ \A p \in Goroutines : \A m \in Said(o[p]) : Says(p, m)
    /\ \A c \in CMs : \/ o[Elector(c)] = out[Elector(c)]
                      \/ Primary(c) /\ \A m \in Said(o[Elector(c)]) : m.type \in Winning
    /\ \A c \in CMs : \/ o[Listener(c)] = out[Listener(c)]
                      \/ Primary(c) /\ ~Refusing(c) /\ ~Refused(o[Listener(c)])

Steady ==
    \A c \in CMs :
        /\ cm'[c].state = cm[c].state /\ (cm'[c].alive => cm[c].alive)
        /\ cm'[c].ongoing => cm[c].ongoing /\ (cm[c].refused => cm'[c].refused)

LEMMA StillOrderly ==
  ASSUME Orderly, Steady, Undisturbed(out')
  PROVE  Orderly'
<1>1. \A c \in CMs : Primary(c)' <=> Primary(c)
  BY DEF Steady, Primary
<1>2. Origins'
  BY DEF Undisturbed, Origins
<1>3. Canvass'
  BY <1>1 DEF Orderly, Undisturbed, Canvass
<1>4. BackupRefuses'
  BY <1>1, OtherManager DEF Orderly, Undisturbed, BackupRefuses
<1>5. \A c \in CMs : Refusing(c)' <=> Refusing(c)
  BY DEF Undisturbed, Refusing, Refused
<1>6. RefusalAlone'
  BY <1>5 DEF Orderly, Undisturbed, RefusalAlone, Refusing
<1>7. ASSUME NEW c \in CMs, Cleared(c)', cm'[c].alive, cm'[Other(c)].alive
      PROVE  ~Primary(Other(c))' /\ c > Other(c)
  <2>1. Other(c) \in CMs
    BY OtherManager
  <2>2. out'[Elector(c)] = <<>> /\ ~Primary(c) /\ ~Refusing(Other(c)) /\ cm'[c].ongoing /\ ~cm'[c].refused
    BY <1>1, <1>5, <1>7, <2>1 DEF Cleared
  <2>3. Cleared(c)
    BY <2>2 DEF Undisturbed, Steady, Cleared
  <2> QED
    BY <1>1, <1>7, <2>1, <2>3 DEF Steady, Orderly, Unopposed
<1>8. Unopposed'
  BY <1>7 DEF Unopposed
<1> QED
  BY <1>2, <1>3, <1>4, <1>6, <1>8 DEF Orderly

LEMMA StillOnePrimary ==
  ASSUME OneLivePrimary, Steady
  PROVE  OneLivePrimary'
  BY DEF Steady, OneLivePrimary, Primary

LEMMA RestUndisturbed ==
  ASSUME Typed, Orderly, NEW p \in Goroutines, out[p] # <<>>, Head(out[p]).type \notin Electoral, NEW x
  PROVE  Undisturbed(Rest(p, x))
<1> DEFINE o == Rest(p, x)
<1>1. /\ \A m \in Said(o[p]) : m \in Said(out[p]) \/ m.type = Head(out[p]).type
      /\ \A q \in Goroutines : q # p => o[q] = out[q]
  BY RestSaid
<1>2. Head(out[p]) \in Said(out[p])
  BY SaidSplit DEF Typed, IsOut
<1> HIDE DEF o
<1>3. ASSUME NEW q \in Goroutines, NEW m \in Said(o[q])
      PROVE  Says(q, m)
  <2>1. m.type \notin Electoral => Says(q, m)
    BY DEF Says, Electoral
  <2>2. m \in Said(out[q]) => Says(q, m)
    BY DEF Orderly, Origins
  <2> QED
    BY <1>1, <1>3, <2>1, <2>2
<1>4. ASSUME NEW c \in CMs, p = Elector(c)
      PROVE  Primary(c) /\ \A m \in Said(o[Elector(c)]) : m.type \in Winning
  <2>1. Primary(c) /\ Head(out[p]).type \in Winning
    BY <1>2, <1>4 DEF Orderly, Canvass, Electoral
  <2> QED
    BY <1>1, <1>4, <2>1 DEF Orderly, Canvass
<1>5. ASSUME NEW c \in CMs, p = Listener(c)
      PROVE  Primary(c) /\ ~Refusing(c) /\ ~Refused(o[Listener(c)])
  <2>1. Primary(c)
    BY <1>2, <1>5 DEF Orderly, BackupRefuses, Electoral
  <2>2. ~Refusing(c)
    BY <1>2, <1>5 DEF Orderly, RefusalAlone, Electoral
  <2> QED
    BY <1>1, <1>5, <2>1, <2>2 DEF Refusing, Refused, Electoral, Refusal
<1> QED
  BY <1>1, <1>3, <1>4, <1>5, GoroutineSet DEF Undisturbed, o

LEMMA DoneUndisturbed ==
  ASSUME Typed, Orderly, NEW p \in Goroutines, out[p] # <<>>, Head(out[p]).type \notin Electoral
  PROVE  Undisturbed(Done(p))
<1> DEFINE o == Done(p)
<1>1. /\ \A m \in Said(o[p]) : m \in Said(out[p])
      /\ \A q \in Goroutines : q # p => o[q] = out[q]
  BY DoneSaid
<1>2. Head(out[p]) \in Said(out[p])
  BY SaidSplit DEF Typed, IsOut
<1> HIDE DEF o
<1>3. ASSUME NEW q \in Goroutines, NEW m \in Said(o[q])
      PROVE  Says(q, m)
  BY <1>1, <1>3 DEF Orderly, Origins
<1>4. ASSUME NEW c \in CMs, p = Elector(c)
      PROVE  Primary(c) /\ \A m \in Said(o[Elector(c)]) : m.type \in Winning
  BY <1>1, <1>2, <1>4 DEF Orderly, Canvass, Electoral
<1>5. ASSUME NEW c \in CMs, p = Listener(c)
      PROVE  Primary(c) /\ ~Refusing(c) /\ ~Refused(o[Listener(c)])
  <2>1. Primary(c)
    BY <1>2, <1>5 DEF Orderly, BackupRefuses, Electoral
  <2>2. ~Refusing(c)
    BY <1>2, <1>5 DEF Orderly, RefusalAlone, Electoral
  <2> QED
    BY <1>1, <1>5, <2>1, <2>2 DEF Refusing, Refused
<1> QED
  BY <1>1, <1>3, <1>4, <1>5, GoroutineSet DEF Undisturbed, o

LEMMA SetUndisturbed ==
  ASSUME NEW o, IsOut(o), Undisturbed(o), NEW q \in Goroutines, NEW s,
         \A m \in Said(s) : m.type \notin Electoral,
         \A c \in CMs : q # Elector(c) /\ (q = Listener(c) => Primary(c) /\ out[q] = <<>>)
  PROVE  Undisturbed([o EXCEPT ![q] = s])
<1> DEFINE t == [o EXCEPT ![q] = s]
<1>1. t[q] = s /\ \A p \in Goroutines : p # q => t[p] = o[p]
  BY DEF IsOut
<1> HIDE DEF t
<1>2. ASSUME NEW p \in Goroutines, NEW m \in Said(t[p]) PROVE Says(p, m)
  <2>1. CASE p = q
    BY <1>1, <1>2, <2>1 DEF Says, Electoral
  <2>2. CASE p # q
    BY <1>1, <1>2, <2>2 DEF Undisturbed
  <2> QED
    BY <2>1, <2>2
<1>3. \A c \in CMs : t[Elector(c)] = o[Elector(c)]
  BY <1>1, GoroutineSet
<1>4. ASSUME NEW c \in CMs, q = Listener(c)
      PROVE  Primary(c) /\ ~Refusing(c) /\ ~Refused(t[Listener(c)])
  <2>1. Primary(c) /\ out[Listener(c)] = <<>>
    BY <1>4
  <2> QED
    BY <1>1, <1>4, <2>1, SaidShort DEF Refusing, Refused, Electoral, Refusal
<1>5. \A c \in CMs : q # Listener(c) => t[Listener(c)] = o[Listener(c)]
  BY <1>1, GoroutineSet
<1> QED
  BY <1>2, <1>3, <1>4, <1>5 DEF Undisturbed, t

-----------------------------------------------------------------------------
(* Steps of nodes *)

Harmless == Steady /\ (panic' = "none" => Undisturbed(out'))

LEMMA FailHarmless ==
  ASSUME NEW text, text # "none", NEW rest, Fail(text, rest)
  PROVE  Harmless
  BY DEF Fail, Harmless, Steady

LEMMA KeepHarmless ==
  ASSUME UNCHANGED cm, Undisturbed(out')
  PROVE  Harmless
  BY DEF Harmless, Steady

LEMMA ToManagerSaid ==
  ASSUME NEW n, NEW t, t \notin Electoral, NEW id, NEW m \in Said(ToManager(n, t, id))
  PROVE  m.type \notin Electoral
<1>1. CASE node[n].cmId # 0
  BY <1>1, SaidShort DEF ToManager, Msg
<1>2. CASE node[n].cmId = 0
  BY <1>2, SaidShort DEF ToManager, Msg, ElectionStart, Electoral, Refusal
<1> QED
  BY <1>1, <1>2

LEMMA NodeIsNoManager ==
  ASSUME NEW n \in Nodes, NEW c \in CMs
  PROVE  Listener(n) # Elector(c) /\ Listener(n) # Listener(c) /\ Client(n) # Elector(c)
         /\ Client(n) # Listener(c)
  BY GoroutineNames, Identifiers

LEMMA NodeSays ==
  ASSUME NEW o, IsOut(o), Undisturbed(o), NEW n \in Nodes, NEW q \in {Listener(n), Client(n)},
         NEW s, \A m \in Said(s) : m.type \notin Electoral
  PROVE  Undisturbed([o EXCEPT ![q] = s])
<1>1. q \in Goroutines
  BY GoroutineSet
<1>2. \A c \in CMs : q # Elector(c) /\ q # Listener(c)
  BY NodeIsNoManager
<1> QED
  BY <1>1, <1>2, SetUndisturbed

LEMMA NodeServesHarmless ==
  ASSUME NEW rest, IsOut(rest), Undisturbed(rest), NEW n \in Nodes, NEW m, NodeServes(n, m, rest)
  PROVE  Undisturbed(out')
<1>1. ASSUME NEW s, Reply(n, s, rest), \A k \in Said(s) : k.type \notin Electoral
      PROVE  Undisturbed(out')
  BY <1>1, NodeSays DEF Reply
<1>2. CASE m.type \in {"RF", "WF", "IV"} /\ Reply(n, <<Msg(m.type, {}, m.id, m.body)>>, rest)
  <2>1. \A k \in Said(<<Msg(m.type, {}, m.id, m.body)>>) : k.type \notin Electoral
    BY <1>2, SaidShort DEF Msg, Electoral, Refusal
  <2> QED
    BY <1>1, <1>2, <2>1
<1>3. CASE Reply(n, <<Msg("RP", {m.body}, m.id, Sent(node[n].data))>>, rest)
  <2>1. \A k \in Said(<<Msg("RP", {m.body}, m.id, Sent(node[n].data))>>) : k.type \notin Electoral
    BY SaidShort DEF Msg, Electoral, Refusal
  <2> QED
    BY <1>1, <1>3, <2>1
<1>4. CASE Reply(n, <<Msg("WP", {m.body}, m.id, Sent(node[n].data))>>, rest)
  <2>1. \A k \in Said(<<Msg("WP", {m.body}, m.id, Sent(node[n].data))>>) : k.type \notin Electoral
    BY SaidShort DEF Msg, Electoral, Refusal
  <2> QED
    BY <1>1, <1>4, <2>1
<1>5. CASE Reply(n, ToManager(n, "IC", m.id), rest)
  <2>1. "IC" \notin Electoral
    BY DEF Electoral, Refusal
  <2>2. \A k \in Said(ToManager(n, "IC", m.id)) : k.type \notin Electoral
    BY <2>1, ToManagerSaid
  <2> QED
    BY <1>1, <1>5, <2>2
<1> QED
  BY <1>2, <1>3, <1>4, <1>5 DEF NodeServes

LEMMA NodeReceiveHarmless ==
  ASSUME NEW rest, IsOut(rest), Undisturbed(rest), NEW n \in Nodes, NEW m, NodeReceive(n, m, rest)
  PROVE  Harmless
<1>1. ASSUME NEW k, PutPage(n, k, rest) PROVE Harmless
  BY <1>1, FailHarmless, KeepHarmless DEF PutPage
<1>2. CASE NodeTakesPage(n, m, rest)
  BY <1>1, <1>2, FailHarmless DEF NodeTakesPage
<1>3. CASE Fail("ForwardForInvalidPage", rest)
  BY <1>3, FailHarmless
<1>4. CASE NodeServesItself(n, m, rest)
  BY <1>1, <1>4 DEF NodeServesItself
<1>5. CASE NodeServes(n, m, rest) /\ UNCHANGED <<cm, pend, panic>>
  BY <1>5, NodeServesHarmless, KeepHarmless
<1>6. CASE NodeTakesAck(n, m, rest)
  <2>1. m.type \in {"RC_ACK", "WC_ACK"} => Unexpected[m.type] # "none"
    BY DEF Unexpected
  <2> QED
    BY <1>6, <2>1, FailHarmless, KeepHarmless DEF NodeTakesAck
<1>7. CASE NodeTakesElwin(n, m, rest)
  BY <1>7, KeepHarmless DEF NodeTakesElwin
<1> QED
  BY <1>2, <1>3, <1>4, <1>5, <1>6, <1>7 DEF NodeReceive

LEMMA NodeLocalHarmless ==
  ASSUME Typed, Orderly, NEW n \in Nodes, ManagerKnown(n) \/ InvalidateOwn(n) \/ NodeResumes(n)
  PROVE  Harmless
<1>1. \A p \in {Client(n), Listener(n)} : p \in Goroutines
  BY GoroutineSet
<1>2. ASSUME NEW p \in {Client(n), Listener(n)}, out[p] # <<>>, Head(out[p]).type \notin Electoral
      PROVE  IsOut(Done(p)) /\ Undisturbed(Done(p))
  BY <1>1, <1>2, DoneTyped, DoneUndisturbed
<1>3. CASE ManagerKnown(n)
  <2>1. PICK p \in {Client(n), Listener(n)} :
          /\ Doing(p, ManagerTypes \cup {"await"})
          /\ out' = IF Head(out[p]).type = "await" THEN Done(p)
                    ELSE [out EXCEPT ![p][1].to = {node[n].cmId}]
          /\ UNCHANGED cm
    BY <1>3 DEF ManagerKnown
  <2>2. out[p] # <<>> /\ Head(out[p]).type \notin Electoral
    BY <2>1 DEF Doing, ManagerTypes, Electoral, Refusal
  <2>3. CASE Head(out[p]).type = "await"
    BY <1>2, <2>1, <2>2, <2>3, KeepHarmless
  <2>4. CASE Head(out[p]).type # "await"
    <3> DEFINE s == [out[p] EXCEPT ![1].to = {node[n].cmId}]
    <3>1. out \in [Goroutines -> Seq(AllMessages)] /\ out[p] \in Seq(AllMessages) /\ p \in Goroutines
      BY <1>1 DEF Typed, IsOut
    <3>2. out' = [out EXCEPT ![p] = s]
      BY <2>1, <2>4, <3>1
    <3>3. DOMAIN s = DOMAIN out[p] /\ \A i \in DOMAIN out[p] : s[i].type = out[p][i].type
      <4>1. out[p][1] \in AllMessages
        BY <2>2, <3>1, HeadOf
      <4>2. [out[p][1] EXCEPT !.to = {node[n].cmId}].type = out[p][1].type
        BY <4>1, Fields
      <4> QED
        BY <3>1, <4>2, LenProperties
    <3>4. \A m \in Said(out[p]) : m.type \notin Electoral
      <4>1. Says(p, Head(out[p])) /\ \A m \in Said(out[p]) : Says(p, m)
        BY <2>2, <3>1, SaidSplit DEF Orderly, Origins
      <4> QED
        BY <4>1, NodeIsNoManager DEF Says, Electoral
    <3>5. \A m \in Said(s) : m.type \notin Electoral
      <4> HIDE DEF s
      <4> QED
        BY <3>3, <3>4 DEF Said
    <3>6. IsOut(out) /\ Undisturbed(out)
      BY DEF Orderly, Origins, Undisturbed, Typed
    <3>7. Undisturbed(out')
      <4> HIDE DEF s
      <4> QED
        BY <3>2, <3>5, <3>6, NodeSays
    <3> QED
      BY <2>1, <3>7, KeepHarmless
  <2> QED
    BY <2>3, <2>4
<1>4. CASE InvalidateOwn(n)
  <2>1. out[Client(n)] # <<>> /\ Head(out[Client(n)]).type \notin Electoral
    BY <1>4 DEF InvalidateOwn, Doing, Electoral, Refusal
  <2> QED
    BY <1>2, <1>4, <2>1, KeepHarmless DEF InvalidateOwn
<1>5. CASE NodeResumes(n)
  <2>1. out[Listener(n)] # <<>> /\ Head(out[Listener(n)]).type \notin Electoral
    BY <1>5 DEF NodeResumes, Doing, Electoral, Refusal
  <2>2. IsOut(Done(Listener(n))) /\ Undisturbed(Done(Listener(n)))
    BY <1>2, <2>1
  <2> QED
    BY <1>5, <2>2, NodeServesHarmless, KeepHarmless DEF NodeResumes
<1> QED
  BY <1>3, <1>4, <1>5

LEMMA SaidAppend ==
  ASSUME NEW S, NEW s \in Seq(S), NEW a \in S
  PROVE  Said(Append(s, a)) = Said(s) \cup {a}
<1> DEFINE t == <<a>>
<1>1. t \in Seq(S) /\ Said(t) = {a} /\ Append(s, a) = s \o t
  BY SaidShort, ShortSeqs, AppendIsConcat
<1> HIDE DEF t
<1> QED
  BY <1>1, SaidBoth

-----------------------------------------------------------------------------
(* Steps of clients *)

LEMMA ClientHarmless ==
  ASSUME Typed, Orderly, NEW n \in Nodes,
         RequestPage(n) \/ TakePage(n) \/ ClientReturns(n) \/ Timeout(n)
  PROVE  Harmless
<1>1. IsOut(out) /\ Undisturbed(out)
  BY DEF Orderly, Origins, Undisturbed, Typed
<1>2. ASSUME NEW s, \A m \in Said(s) : m.type \notin Electoral,
             UNCHANGED cm, out' = [out EXCEPT ![Client(n)] = s]
      PROVE  Harmless
  BY <1>1, <1>2, NodeSays, KeepHarmless
<1>3. ASSUME UNCHANGED <<cm, out>> PROVE Harmless
  BY <1>1, <1>3, KeepHarmless
<1>4. \A id : \A t \in {"RQ", "WQ", "RC", "WC"} :
        \A m \in Said(ToManager(n, t, id)) : m.type \notin Electoral
  BY ToManagerSaid DEF Electoral, Refusal
<1>5. CASE RequestPage(n)
  <2>1. CASE UNCHANGED <<cm, out>>
    BY <1>3, <2>1
  <2>2. CASE UNCHANGED cm /\ out' = [out EXCEPT ![Client(n)] = ToManager(n, "RQ", ReqId(n))]
    BY <1>2, <1>4, <2>2
  <2>3. CASE UNCHANGED cm /\ out' = [out EXCEPT ![Client(n)] =
                 Append(ToManager(n, "WQ", ReqId(n)), Local("invalidate", ReqId(n)))]
    <3> DEFINE k == Local("invalidate", ReqId(n))
               t == ToManager(n, "WQ", ReqId(n))
               s == Append(t, k)
    <3>1. ReqId(n) \in RequestIds
      BY ReqIdTyped DEF Typed
    <3>2. k \in AllMessages /\ k.type \notin Electoral
      BY <3>1, LocalStep DEF Local, Msg, Electoral, Refusal
    <3>3. t \in Seq(AllMessages) /\ \A m \in Said(t) : m.type \notin Electoral
      BY <1>4, <3>1, ToManagerTyped
    <3>4. \A m \in Said(s) : m.type \notin Electoral
      <4> HIDE DEF k, t
      <4> QED
        BY <3>2, <3>3, SaidAppend
    <3> HIDE DEF s
    <3> QED
      BY <1>2, <2>3, <3>4 DEF s
  <2> QED
    BY <1>5, <2>1, <2>2, <2>3 DEF RequestPage, ClientDone
<1>6. CASE TakePage(n)
  <2>1. CASE Fail("WrongPage", out)
    BY <2>1, FailHarmless
  <2>2. CASE UNCHANGED cm /\ out' = [out EXCEPT ![Client(n)] =
                 ToManager(n, IF IsRead(n) THEN "RC" ELSE "WC", ReqId(n))]
    BY <1>2, <1>4, <2>2
  <2> QED
    BY <1>6, <2>1, <2>2 DEF TakePage
<1>7. CASE ClientReturns(n)
  BY <1>3, <1>7 DEF ClientReturns, ClientDone
<1>8. ASSUME NEW k, k.type \notin Electoral, UNCHANGED cm,
             out' = [out EXCEPT ![Client(n)] = <<ElectionStart, k>>]
      PROVE  Harmless
  <2>1. ElectionStart.type \notin Electoral
    BY DEF ElectionStart, Msg, Electoral, Refusal
  <2>2. \A m \in Said(<<ElectionStart, k>>) : m.type \notin Electoral
    <3> DEFINE a == ElectionStart
    <3> HIDE DEF a
    <3> QED
      BY <1>8, <2>1, SaidShort DEF a
  <2> QED
    BY <1>2, <1>8, <2>2
<1>9. CASE PageTimeout(n)
  <2>1. Local("await", ReqId(n)).type \notin Electoral
    BY DEF Local, Msg, Electoral, Refusal
  <2> QED
    BY <1>8, <1>9, <2>1 DEF PageTimeout
<1>10. CASE ConfirmTimeout(n)
  <2>1. Msg(IF IsRead(n) THEN "RC" ELSE "WC", {}, ReqId(n), n).type \notin Electoral
    BY DEF Msg, Electoral, Refusal
  <2> QED
    BY <1>8, <1>10, <2>1 DEF ConfirmTimeout
<1> QED
  BY <1>5, <1>6, <1>7, <1>9, <1>10 DEF Timeout

-----------------------------------------------------------------------------
(* Steps of managers *)

Outcome == (panic' = "none" => Orderly') /\ OneLivePrimary'

LEMMA HarmlessOutcome ==
  ASSUME Orderly, OneLivePrimary, Harmless
  PROVE  Outcome
  BY StillOrderly, StillOnePrimary DEF Harmless, Outcome

LEMMA ManagerSays ==
  ASSUME NEW o, IsOut(o), Undisturbed(o), NEW c \in CMs,
         NEW q \in {Listener(c), Handler(c)}, q = Listener(c) => Primary(c) /\ out[q] = <<>>,
         NEW s, \A m \in Said(s) : m.type \notin Electoral
  PROVE  Undisturbed([o EXCEPT ![q] = s])
<1>1. q \in Goroutines
  BY GoroutineSet
<1>2. \A d \in CMs : q # Elector(d) /\ (q = Listener(d) => d = c /\ q = Listener(c))
  BY GoroutineNames
<1> QED
  BY <1>1, <1>2, SetUndisturbed

LEMMA GrantSaid ==
  ASSUME NEW c, NEW id
  PROVE  Grant(id, c).type \notin Electoral
  BY DEF Grant, Msg, Electoral, Refusal

LEMMA SteadyCM ==
  ASSUME Typed, NEW c \in CMs, NEW r, cm' = [cm EXCEPT ![c] = r],
         r.state = cm[c].state, r.alive => cm[c].alive,
         r.ongoing => cm[c].ongoing /\ (cm[c].refused => r.refused)
  PROVE  Steady
  BY DEF Steady, Typed, CMsTyped

\* A primary that takes an election start announces its victory again.
LEMMA AnnounceHarmless ==
  ASSUME Orderly, NEW o, IsOut(o), Undisturbed(o), NEW c \in CMs, Primary(c), UNCHANGED cm,
         out' = [o EXCEPT ![Elector(c)] = @ \o Victory(c)]
  PROVE  Harmless
<1>1. Elector(c) \in Goroutines /\ o[Elector(c)] \in Seq(AllMessages)
  BY GoroutineSet DEF IsOut
<1>2. Victory(c) \in Seq(AllMessages) /\ \A m \in Said(Victory(c)) : m.type \in Winning
  <2> DEFINE a == Msg("ELWIN", Nodes, NoId, c)
             b == Local("clear", NoId)
  <2>1. a \in AllMessages /\ b \in AllMessages /\ a.type \in Winning /\ b.type \in Winning
    BY Electing DEF Local, Msg, Winning
  <2>2. Victory(c) = <<a, b>>
    BY DEF Victory
  <2> HIDE DEF a, b
  <2>3. <<a, b>> \in Seq(AllMessages)
    BY <2>1, ShortSeqs
  <2>4. Said(<<a, b>>) = {a, b}
    BY SaidShort
  <2>5. Said(Victory(c)) = {a, b}
    BY <2>2, <2>4
  <2> QED
    BY <2>1, <2>2, <2>3, <2>5
<1>3. Said(o[Elector(c)] \o Victory(c)) = Said(o[Elector(c)]) \cup Said(Victory(c))
  BY <1>1, <1>2, SaidBoth
<1>4. \A m \in Said(o[Elector(c)]) : m.type \in Winning
  BY DEF Undisturbed, Orderly, Canvass
<1>5. out'[Elector(c)] = o[Elector(c)] \o Victory(c)
      /\ \A q \in Goroutines : q # Elector(c) => out'[q] = o[q]
  BY <1>1 DEF IsOut
<1>6. \A m \in Said(out'[Elector(c)]) : m.type \in Winning
  BY <1>2, <1>3, <1>4, <1>5
<1>7. \A q \in Goroutines : \A m \in Said(out'[q]) : Says(q, m)
  BY <1>5, <1>6 DEF Undisturbed, Says, Winning, Refusal
<1>8. Undisturbed(out')
  BY <1>5, <1>6, <1>7, GoroutineNames, GoroutineSet DEF Undisturbed
<1> QED
  BY <1>8, KeepHarmless

\* A backup that takes an election start asks to be elected.
LEMMA CanvassBegins ==
  ASSUME Typed, Orderly, NEW o, IsOut(o), Undisturbed(o), NEW c \in CMs, ~Primary(c), NEW id, NEW k,
         id \in CMElectionIds,
         cm' = [cm EXCEPT ![c].ongoing = TRUE, ![c].refused = FALSE, ![c].electionId = id,
                          ![c].counter = k],
         out' = [o EXCEPT ![Elector(c)] = Append(@, Msg("ELECT_ME", {Other(c)}, id, c))]
  PROVE  Orderly' /\ (OneLivePrimary => OneLivePrimary')
<1> DEFINE e == Msg("ELECT_ME", {Other(c)}, id, c)
           s == Append(o[Elector(c)], e)
<1>1. Elector(c) \in Goroutines /\ o[Elector(c)] = out[Elector(c)] /\ o[Elector(c)] \in Seq(AllMessages)
  BY GoroutineSet DEF IsOut, Undisturbed
<1>2. e \in AllMessages /\ e.type = "ELECT_ME" /\ e.to = {Other(c)} /\ e.body = c
  BY OtherManager, Electing DEF Msg
<1>3. out'[Elector(c)] = s /\ \A q \in Goroutines : q # Elector(c) => out'[q] = o[q]
  BY <1>1 DEF IsOut
<1>4. /\ \A d \in CMs : Primary(d)' = Primary(d) /\ cm'[d].alive = cm[d].alive
      /\ \A d \in CMs : d # c => cm'[d] = cm[d]
  BY CMFields DEF Primary, Typed, CMsTyped, CMType
<1> HIDE DEF e
<1>5. s # <<>> /\ Said(s) = Said(out[Elector(c)]) \cup {e}
  BY <1>1, <1>2, AppendProperties, SaidAppend
<1> HIDE DEF s
<1>6. Origins'
  <2>1. ASSUME NEW q \in Goroutines, NEW m \in Said(out'[q]) PROVE Says(q, m)
    <3>1. m = e /\ q = Elector(c) => Says(q, m)
      BY <1>2 DEF Says, Refusal
    <3> QED
      BY <1>1, <1>3, <1>5, <2>1, <3>1 DEF Undisturbed, Orderly, Origins
  <2> QED
    BY <2>1 DEF Origins
<1>7. \A d \in CMs : d # c => out'[Elector(d)] = o[Elector(d)]
  BY <1>3, GoroutineNames, GoroutineSet
<1>8. \A d \in CMs : out'[Listener(d)] = o[Listener(d)]
  BY <1>3, GoroutineNames, GoroutineSet
<1>9. Canvass'
  <2>1. ASSUME NEW d \in CMs, NEW m \in Said(out'[Elector(d)])
        PROVE  IF Primary(d)' THEN m.type \in Winning ELSE m.type = "ELECT_ME"
    <3>1. CASE d = c
      BY <1>2, <1>3, <1>4, <1>5, <2>1, <3>1 DEF Orderly, Canvass
    <3>2. CASE d # c
      BY <1>4, <1>7, <2>1, <3>2 DEF Orderly, Canvass, Undisturbed
    <3> QED
      BY <3>1, <3>2
  <2> QED
    BY <2>1 DEF Canvass
<1>10. BackupRefuses'
  BY <1>4, <1>8, OtherManager DEF Orderly, Undisturbed, BackupRefuses
<1>11. \A d \in CMs : Refusing(d)' <=> Refusing(d)
  BY <1>8 DEF Undisturbed, Refusing, Refused
<1>12. RefusalAlone'
  BY <1>8, <1>11 DEF Orderly, Undisturbed, RefusalAlone, Refusing
<1>13. ASSUME NEW d \in CMs, Cleared(d)', cm'[d].alive, cm'[Other(d)].alive
       PROVE  ~Primary(Other(d))' /\ d > Other(d)
  <2>1. Other(d) \in CMs
    BY OtherManager
  <2>2. d # c
    BY <1>3, <1>5, <1>13 DEF Cleared
  <2>3. Cleared(d)
    BY <1>4, <1>7, <1>11, <1>13, <2>1, <2>2 DEF Cleared, Undisturbed
  <2> QED
    BY <1>4, <1>13, <2>1, <2>3 DEF Orderly, Unopposed
<1>14. Unopposed'
  BY <1>13 DEF Unopposed
<1>15. OneLivePrimary => OneLivePrimary'
  BY <1>4 DEF OneLivePrimary
<1> QED
  BY <1>6, <1>9, <1>10, <1>12, <1>14, <1>15 DEF Orderly

\* A message that has nothing to do with elections, but may start one, reaches a manager.
LEMMA ManagerReceives ==
  ASSUME Typed, Orderly, OneLivePrimary, NEW p \in Goroutines, out[p] # <<>>,
         Head(out[p]).type \notin Electoral, NEW c \in CMs, out[Listener(c)] = <<>>,
         CMReceive(c, Head(out[p]), Rest(p, c))
  PROVE  Outcome
<1> DEFINE m == Head(out[p])
           rest == Rest(p, c)
<1>1. IsOut(rest) /\ Undisturbed(rest) /\ m \in AllMessages
  BY RestTyped, RestUndisturbed
<1>2. m.type \notin Electoral /\ CMReceive(c, m, rest)
  OBVIOUS
<1>3. cm[c] \in CMType /\ cm[c].counter \in 0..(ElectionIds - 1)
  BY CMFields DEF Typed
<1> HIDE DEF m, rest
<1>4. ASSUME NEW s, \A k \in Said(s) : k.type \notin Electoral, Reply(c, s, rest), Primary(c)
      PROVE  Undisturbed(out')
  BY <1>1, <1>4, ManagerSays DEF Reply
<1>5. CASE Keep(rest)
  BY <1>1, <1>5, KeepHarmless, HarmlessOutcome DEF Keep
<1>6. CASE RecvAsBackup(c, m, rest)
  BY <1>6, FailHarmless, HarmlessOutcome DEF RecvAsBackup
<1>7. CASE RecvRequest(c, m, rest)
  BY <1>1, <1>7, KeepHarmless, HarmlessOutcome DEF RecvRequest
<1>8. CASE recvInvalConfirm(c, m, rest)
  <2> DEFINE count == cm[c].invalCount + 1
             r == [cm[c] EXCEPT !.invalCount = count]
             s == IF AllInvalidated(c, count) THEN <<Grant(m.id, c)>> ELSE <<>>
  <2>1. CASE Fail("TooManyICs", rest)
    BY <2>1, FailHarmless, HarmlessOutcome
  <2>2. CASE cm' = [cm EXCEPT ![c].invalCount = count] /\ Reply(c, s, rest)
    <3>1. cm' = [cm EXCEPT ![c] = r] /\ r.state = cm[c].state /\ r.alive = cm[c].alive
          /\ r.ongoing = cm[c].ongoing /\ r.refused = cm[c].refused
      BY <1>3, <2>2 DEF CMType
    <3>2. Steady
      <4> HIDE DEF r
      <4> QED
        BY <3>1, SteadyCM
    <3>3. \A k \in Said(s) : k.type \notin Electoral
      BY GrantSaid, SaidShort
    <3>4. Undisturbed(out')
      <4> HIDE DEF s
      <4> QED
        BY <1>4, <1>8, <2>2, <3>3 DEF recvInvalConfirm
    <3> QED
      BY <3>2, <3>4, HarmlessOutcome DEF Harmless
  <2> QED
    BY <1>8, <2>1, <2>2 DEF recvInvalConfirm
<1>9. CASE RecvConfirm(c, m, rest)
  <2> DEFINE u == Msg(Recv[m.type], {Other(c)}, m.id, ConfirmedRecords(c))
             a == Msg(Ack[m.type], {m.body}, m.id, c)
             b == Local("idle", m.id)
             s == IF Confirms(c, m) THEN <<u, a, b>> ELSE <<>>
             r == [cm[c] EXCEPT !.owner = m.body, !.copies = {}]
  <2>1. u.type \notin Electoral /\ a.type \notin Electoral /\ b.type \notin Electoral
    BY <1>9 DEF RecvConfirm, Recv, Ack, Local, Msg, Electoral, Refusal
  <2>2. Reply(c, s, rest) /\ Primary(c)
    BY <1>9 DEF RecvConfirm
  <2>3. Undisturbed(out')
    <3> HIDE DEF u, a, b
    <3>1. \A k \in Said(s) : k.type \notin Electoral
      BY <2>1, SaidShort
    <3> HIDE DEF s
    <3> QED
      BY <1>4, <2>2, <3>1
  <2>4. r.state = cm[c].state /\ r.alive = cm[c].alive
        /\ r.ongoing = cm[c].ongoing /\ r.refused = cm[c].refused
    BY <1>3 DEF CMType
  <2>5. cm' = [cm EXCEPT ![c] = r] \/ cm' = cm
    BY <1>3, <1>9 DEF RecvConfirm, CMType
  <2>6. Steady
    <3> HIDE DEF r
    <3>1. cm' = cm => Steady
      BY DEF Steady
    <3> QED
      BY <2>4, <2>5, <3>1, SteadyCM
  <2> QED
    BY <2>3, <2>6, HarmlessOutcome DEF Harmless
<1>10. CASE RecvElectionStart(c, m, rest)
  <2>1. CASE /\ Primary(c) /\ UNCHANGED cm
             /\ out' = [rest EXCEPT ![Elector(c)] = @ \o Victory(c)]
    BY <1>1, <2>1, AnnounceHarmless, HarmlessOutcome
  <2>2. CASE out' = rest /\ UNCHANGED cm
    BY <1>1, <2>2, KeepHarmless, HarmlessOutcome
  <2>3. CASE LET id == <<c, cm[c].counter>> IN
             /\ ~Primary(c)
             /\ cm' = [cm EXCEPT ![c].ongoing = TRUE, ![c].refused = FALSE, ![c].electionId = id,
                                 ![c].counter = (@ + 1) % ElectionIds]
             /\ out' = [rest EXCEPT ![Elector(c)] = Append(@, Msg("ELECT_ME", {Other(c)}, id, c))]
    <3> DEFINE id == <<c, cm[c].counter>>
               k == (cm[c].counter + 1) % ElectionIds
    <3>1. id \in CMElectionIds
      BY <1>3 DEF CMElectionIds
    <3>2. cm' = [cm EXCEPT ![c].ongoing = TRUE, ![c].refused = FALSE, ![c].electionId = id,
                           ![c].counter = k]
      BY <1>3, <2>3 DEF CMType
    <3>3. ~Primary(c) /\ out' = [rest EXCEPT ![Elector(c)] = Append(@, Msg("ELECT_ME", {Other(c)}, id, c))]
      BY <2>3
    <3> HIDE DEF id, k
    <3>4. Orderly' /\ (OneLivePrimary => OneLivePrimary')
      BY <1>1, <3>1, <3>2, <3>3, CanvassBegins
    <3> QED
      BY <3>4 DEF Outcome
  <2> QED
    BY <1>10, <2>1, <2>2, <2>3 DEF RecvElectionStart, startElection
<1>11. CASE RecvUpdate(c, m, rest)
  <2> DEFINE r == WithRecords(cm[c], m.body)
             s == CASE m.type = "UPDATE" -> r
                    [] m.type = "RQ_RECV" -> [r EXCEPT !.req = "RQ", !.id = m.id]
                    [] m.type = "WQ_RECV" -> [r EXCEPT !.req = "WQ", !.id = m.id]
                    [] OTHER -> [r EXCEPT !.req = "IDLE", !.id = NoId]
  <2>1. r.state = cm[c].state /\ r.alive = cm[c].alive
        /\ r.ongoing = cm[c].ongoing /\ r.refused = cm[c].refused
    BY <1>3 DEF WithRecords, CMType
  <2>2. s.state = cm[c].state /\ s.alive = cm[c].alive
        /\ s.ongoing = cm[c].ongoing /\ s.refused = cm[c].refused
    BY <1>3 DEF WithRecords, CMType
  <2>3. CASE Fail("UpdateAsPrimary", rest) \/ Fail("ImpossibleUpdate", rest)
    BY <2>3, FailHarmless, HarmlessOutcome
  <2>4. CASE cm' = [cm EXCEPT ![c] = s] /\ out' = rest
    <3>1. Steady
      <4> HIDE DEF s
      <4> QED
        BY <2>2, <2>4, SteadyCM
    <3> QED
      BY <1>1, <2>4, <3>1, HarmlessOutcome DEF Harmless
  <2> QED
    BY <1>11, <2>3, <2>4 DEF RecvUpdate
<1>12. ~RecvElectMe(c, m, rest) /\ ~RecvElectNo(c, m, rest)
  BY <1>2 DEF RecvElectMe, RecvElectNo, Electoral, Refusal
<1> QED
  BY <1>2, <1>5, <1>6, <1>7, <1>8, <1>9, <1>10, <1>11, <1>12 DEF CMReceive

\* A refusal is received, or dropped: r is out without the first message of d's listener.
LEMMA RefusalGoes ==
  ASSUME Typed, Orderly, Steady, NEW d \in CMs, out[Listener(d)] # <<>>,
         out' = [out EXCEPT ![Listener(d)] = Tail(@)],
         \/ Head(out[Listener(d)]).type = "UPDATE"
         \/ ~cm[Other(d)].alive
         \/ cm'[Other(d)].refused
  PROVE  Orderly'
<1>1. out \in [Goroutines -> Seq(AllMessages)] /\ Listener(d) \in Goroutines
  BY GoroutineSet DEF Typed, IsOut
<1>2. out'[Listener(d)] = Tail(out[Listener(d)])
      /\ \A q \in Goroutines : q # Listener(d) => out'[q] = out[q]
  BY <1>1
<1>3. /\ Said(out'[Listener(d)]) \subseteq Said(out[Listener(d)])
      /\ \A m \in Said(out[Listener(d)]) :
           m = Head(out[Listener(d)]) \/ m \in Said(out'[Listener(d)])
  BY <1>1, <1>2, SaidSplit
<1>4. \A c \in CMs : Primary(c)' <=> Primary(c)
  BY DEF Steady, Primary
<1>5. /\ \A c \in CMs : out'[Elector(c)] = out[Elector(c)]
      /\ \A c \in CMs : c # d => out'[Listener(c)] = out[Listener(c)]
  BY <1>2, GoroutineNames, GoroutineSet
<1>6. Origins'
  BY <1>2, <1>3 DEF Orderly, Origins
<1>7. Canvass'
  BY <1>4, <1>5 DEF Orderly, Canvass
<1>8. \A c \in CMs : Said(out'[Listener(c)]) \subseteq Said(out[Listener(c)])
                     /\ (out'[Listener(c)] # <<>> => out[Listener(c)] # <<>>)
  BY <1>3, <1>5
<1>9. BackupRefuses'
  <2> SUFFICES ASSUME NEW c \in CMs, ~Primary(c)', out'[Listener(c)] # <<>>
               PROVE  /\ c > Other(c) /\ ~Primary(Other(c))'
                      /\ \A m \in Said(out'[Listener(c)]) : m.type \in Refusal
    BY DEF BackupRefuses
  <2> QED
    BY <1>4, <1>8, OtherManager DEF Orderly, BackupRefuses
<1>10. \A c \in CMs : Refusing(c)' => Refusing(c)
  BY <1>8 DEF Refusing, Refused
<1>11. RefusalAlone'
  BY <1>8, <1>10 DEF Orderly, RefusalAlone
<1>12. ASSUME NEW c \in CMs, Cleared(c)', cm'[c].alive, cm'[Other(c)].alive
       PROVE  ~Primary(Other(c))' /\ c > Other(c)
  <2>1. Other(c) \in CMs /\ (Other(c) = d => c = Other(d))
    BY OtherManager
  <2>2. ~Refusing(Other(c))
    <3>1. CASE Other(c) # d
      BY <1>5, <1>12, <2>1, <3>1 DEF Cleared, Refusing
    <3>2. CASE Other(c) = d
      <4>1. Head(out[Listener(d)]).type = "UPDATE"
        BY <1>12, <2>1, <3>2 DEF Cleared, Steady
      <4> QED
        BY <1>3, <1>12, <3>2, <4>1 DEF Cleared, Refusing, Refused
    <3> QED
      BY <3>1, <3>2
  <2>3. Cleared(c)
    BY <1>4, <1>5, <1>12, <2>2 DEF Cleared, Steady
  <2> QED
    BY <1>4, <1>12, <2>1, <2>3 DEF Steady, Orderly, Unopposed
<1>13. Unopposed'
  BY <1>12 DEF Unopposed
<1> QED
  BY <1>6, <1>7, <1>9, <1>11, <1>13 DEF Orderly

\* d's ELECT_ME reaches the other manager c, which drops it, refuses, or says nothing.
LEMMA AskGoes ==
  ASSUME Typed, Orderly, UNCHANGED cm, NEW c \in CMs, NEW d \in CMs, d = Other(c),
         out[Elector(d)] # <<>>, Head(out[Elector(d)]).type = "ELECT_ME", out[Listener(c)] = <<>>,
         NEW s, out'[Listener(c)] = s, out'[Elector(d)] = Tail(out[Elector(d)]),
         \A q \in Goroutines : q # Elector(d) /\ q # Listener(c) => out'[q] = out[q],
         \/ ~cm[c].alive /\ s = <<>>
         \/ ~Primary(c) /\ ~(c > d) /\ s = <<>>
         \/ /\ Primary(c) \/ c > d
            /\ Refused(s) /\ \A m \in Said(s) : m.type \in Refusal /\ m.to = {d}
  PROVE  Orderly'
<1>1. out \in [Goroutines -> Seq(AllMessages)] /\ Listener(c) \in Goroutines /\ Elector(d) \in Goroutines
  BY GoroutineSet DEF Typed, IsOut
<1>2. /\ Listener(c) # Elector(d) /\ c = Other(d) /\ c # d
      /\ \A e \in CMs : e # c => e = d
  BY GoroutineNames, OtherManager
<1>3. /\ out'[Elector(d)] = Tail(out[Elector(d)]) /\ out'[Listener(c)] = s
      /\ \A q \in Goroutines : q # Elector(d) /\ q # Listener(c) => out'[q] = out[q]
  OBVIOUS
<1>4. /\ Said(out'[Elector(d)]) \subseteq Said(out[Elector(d)])
      /\ Head(out[Elector(d)]) \in Said(out[Elector(d)])
  BY <1>1, <1>3, SaidSplit
<1>5. ~Primary(d)
  BY <1>4 DEF Orderly, Canvass, Winning
<1>6. \A e \in CMs : Primary(e)' <=> Primary(e)
  BY DEF Primary
<1>7. out'[Elector(c)] = out[Elector(c)] /\ out'[Listener(d)] = out[Listener(d)]
  <2>1. Elector(c) \in Goroutines /\ Elector(c) # Elector(d) /\ Elector(c) # Listener(c)
    BY <1>2, GoroutineNames, GoroutineSet
  <2>2. Listener(d) \in Goroutines /\ Listener(d) # Elector(d) /\ Listener(d) # Listener(c)
    BY <1>2, GoroutineNames, GoroutineSet
  <2> QED
    BY <1>3, <2>1, <2>2
<1>8. \A m \in Said(s) : m.type \in Refusal /\ m.to = {d}
  BY SaidShort
<1>9. Origins'
  <2>1. ASSUME NEW q \in Goroutines, NEW m \in Said(out'[q]) PROVE Says(q, m)
    <3>1. CASE q = Listener(c)
      BY <1>2, <1>3, <1>8, <2>1, <3>1 DEF Says, Refusal
    <3>2. CASE q # Listener(c)
      BY <1>3, <1>4, <2>1, <3>2 DEF Orderly, Origins
    <3> QED
      BY <3>1, <3>2
  <2> QED
    BY <2>1 DEF Origins
<1>10. Canvass'
  BY <1>2, <1>4, <1>6, <1>7 DEF Orderly, Canvass
<1>11. BackupRefuses'
  <2> SUFFICES ASSUME NEW e \in CMs, ~Primary(e)', out'[Listener(e)] # <<>>
               PROVE  /\ e > Other(e) /\ ~Primary(Other(e))'
                      /\ \A m \in Said(out'[Listener(e)]) : m.type \in Refusal
    BY DEF BackupRefuses
  <2>1. CASE e = c
    BY <1>3, <1>5, <1>6, <1>8, <2>1
  <2>2. CASE e = d
    BY <1>2, <1>6, <1>7, <2>2 DEF Orderly, BackupRefuses
  <2> QED
    BY <1>2, <2>1, <2>2
<1>12. RefusalAlone'
  <2> SUFFICES ASSUME NEW e \in CMs, Refusing(e)', NEW m \in Said(out'[Listener(e)])
               PROVE  m.type \in Refusal
    BY DEF RefusalAlone
  <2>1. CASE e = c
    BY <1>3, <1>8, <2>1
  <2>2. CASE e = d
    BY <1>7, <2>2 DEF Orderly, RefusalAlone, Refusing
  <2> QED
    BY <1>2, <2>1, <2>2
<1>13. ASSUME Cleared(d)', cm[d].alive, cm[c].alive PROVE ~Primary(c) /\ d > c
  <2>1. ~Refused(s)
    BY <1>2, <1>3, <1>13 DEF Cleared, Refusing
  <2>2. ~Primary(c) /\ ~(c > d)
    BY <1>13, <2>1
  <2> QED
    BY <1>2, <2>2, Identifiers
<1>14. ASSUME Cleared(c)', cm[d].alive, cm[c].alive PROVE ~Primary(d) /\ c > d
  <2>1. Cleared(c)
    BY <1>6, <1>7, <1>14 DEF Cleared, Refusing
  <2> QED
    BY <1>14, <2>1 DEF Orderly, Unopposed
<1>15. Unopposed'
  <2> SUFFICES ASSUME NEW e \in CMs, Cleared(e)', cm'[e].alive, cm'[Other(e)].alive
               PROVE  ~Primary(Other(e))' /\ e > Other(e)
    BY DEF Unopposed
  <2>1. CASE e = c
    BY <1>6, <1>14, <2>1
  <2>2. CASE e = d
    BY <1>2, <1>6, <1>13, <2>2
  <2> QED
    BY <1>2, <2>1, <2>2
<1> QED
  BY <1>9, <1>10, <1>11, <1>12, <1>15 DEF Orderly

LEMMA ElectoralReceived ==
  ASSUME Typed, Orderly, OneLivePrimary, NEW p \in Goroutines, out[p] # <<>>,
         Head(out[p]).type \in Electoral, NEW c \in CMs, c \in Head(out[p]).to,
         out[Listener(c)] = <<>>, CMReceive(c, Head(out[p]), Rest(p, c))
  PROVE  Outcome
<1> DEFINE m == Head(out[p])
           rest == Rest(p, c)
           d == Other(c)
<1>1. out \in [Goroutines -> Seq(AllMessages)] /\ m \in AllMessages /\ m \in Said(out[p])
  <2>1. out \in [Goroutines -> Seq(AllMessages)] /\ out[p] \in Seq(AllMessages)
    BY DEF Typed, IsOut
  <2> QED
    BY <2>1, HeadOf, SaidSplit
<1>2. Says(p, m)
  BY <1>1 DEF Orderly, Origins
<1>3. d \in CMs /\ d = Other(c) /\ c = Other(d) /\ \A e \in CMs : c = Other(e) => e = d
  BY OtherManager
<1>4. m.to = {c} /\ rest = [out EXCEPT ![p] = Tail(@)]
  <2>1. m.to = {c}
    BY <1>2 DEF Says, Electoral
  <2> QED
    BY <2>1 DEF Rest
<1>5. m.type = "ELECT_ME" => p = Elector(d) /\ m.body = d
  BY <1>2, <1>3, <1>4 DEF Says
<1>6. m.type \in Refusal => p = Listener(d)
  BY <1>2, <1>3, <1>4 DEF Says
<1>7. m.type \in Electoral /\ CMReceive(c, m, rest)
  OBVIOUS
<1>8. cm[c] \in CMType
  BY CMFields DEF Typed
<1>9. UNCHANGED cm => OneLivePrimary'
  BY DEF OneLivePrimary, Primary
<1> HIDE DEF m, rest, d
<1>10. CASE m.type = "ELECT_ME"
  <2>1. Listener(c) \in Goroutines /\ Elector(d) # Listener(c) /\ p = Elector(d)
    BY <1>5, <1>10, GoroutineNames, GoroutineSet
  <2>2. ASSUME NEW s, out' = [rest EXCEPT ![Listener(c)] = s], UNCHANGED cm,
               \/ ~cm[c].alive /\ s = <<>>
               \/ ~Primary(c) /\ ~(c > d) /\ s = <<>>
               \/ /\ Primary(c) \/ c > d
                  /\ Refused(s) /\ \A k \in Said(s) : k.type \in Refusal /\ k.to = {d}
        PROVE  Outcome
    <3>1. /\ out'[Listener(c)] = s /\ out'[Elector(d)] = Tail(out[Elector(d)])
          /\ \A q \in Goroutines : q # Elector(d) /\ q # Listener(c) => out'[q] = out[q]
      BY <1>1, <1>4, <2>1, <2>2
    <3>2. Head(out[Elector(d)]).type = "ELECT_ME" /\ out[Elector(d)] # <<>>
      BY <1>10, <2>1 DEF m
    <3>3. Orderly'
      BY <1>3, <2>2, <3>1, <3>2, AskGoes
    <3> QED
      BY <1>9, <2>2, <3>3 DEF Outcome
  <2>3. CASE ~cm[c].alive
    <3>1. out' = rest /\ UNCHANGED cm
      BY <1>7, <2>3 DEF CMReceive, Keep
    <3>2. out' = [rest EXCEPT ![Listener(c)] = <<>>]
      BY <1>1, <1>4, <2>1, <3>1
    <3> QED
      BY <2>2, <2>3, <3>1, <3>2
  <2>4. CASE cm[c].alive
    <3>1. RecvElectMe(c, m, rest)
      BY <1>7, <1>10, <2>4 DEF CMReceive, RecvAsBackup, RecvRequest, recvInvalConfirm, RecvConfirm,
           RecvElectionStart, RecvElectNo, RecvUpdate, ManagerTypes, CMUpdates
    <3>2. UNCHANGED cm /\ m.body = d
      BY <1>5, <1>10, <3>1 DEF RecvElectMe
    <3>3. CASE Refuses(c, m)
      <4> DEFINE u == Msg("UPDATE", {d}, NoId, Records(c))
                 e == Msg("ELECT_NO", {d}, m.id, c)
                 s == <<u, e>>
      <4>1. u.type = "UPDATE" /\ u.to = {d} /\ e.type = "ELECT_NO" /\ e.to = {d}
        BY DEF Msg
      <4>2. out' = [rest EXCEPT ![Listener(c)] = s]
        BY <3>1, <3>2, <3>3 DEF RecvElectMe, Reply
      <4> HIDE DEF u, e
      <4>3. Said(s) = {u, e}
        BY SaidShort
      <4>4. Refused(s) /\ \A k \in Said(s) : k.type \in Refusal /\ k.to = {d}
        BY <4>1, <4>3 DEF Refused, Refusal
      <4>5. Primary(c) \/ c > d
        BY <3>2, <3>3 DEF Refuses
      <4> HIDE DEF s
      <4> QED
        BY <2>2, <3>2, <4>2, <4>4, <4>5
    <3>4. CASE ~Refuses(c, m)
      <4>1. out' = [rest EXCEPT ![Listener(c)] = <<>>]
        BY <3>1, <3>4 DEF RecvElectMe, Reply
      <4>2. ~Primary(c) /\ ~(c > d)
        BY <3>2, <3>4 DEF Refuses
      <4> QED
        BY <2>2, <3>2, <4>1, <4>2
    <3> QED
      BY <3>3, <3>4
  <2> QED
    BY <2>3, <2>4
<1>11. CASE m.type \in Refusal
  <2>1. p = Listener(d) /\ out[Listener(d)] # <<>> /\ Head(out[Listener(d)]) = m
    BY <1>6, <1>11 DEF m
  <2>2. ASSUME Steady, out' = rest,
               m.type = "UPDATE" \/ ~cm[c].alive \/ cm'[c].refused
        PROVE  Outcome
    <3>1. out' = [out EXCEPT ![Listener(d)] = Tail(@)]
      BY <1>4, <2>1, <2>2
    <3>2. Orderly'
      BY <1>3, <2>1, <2>2, <3>1, RefusalGoes
    <3> QED
      BY <2>2, <3>2, StillOnePrimary DEF Outcome
  <2>3. CASE ~cm[c].alive
    <3>1. out' = rest /\ UNCHANGED cm
      BY <1>7, <2>3 DEF CMReceive, Keep
    <3>2. Steady
      BY <3>1 DEF Steady
    <3> QED
      BY <2>2, <2>3, <3>1, <3>2
  <2>4. CASE cm[c].alive
    <3>1. RecvElectNo(c, m, rest) \/ RecvUpdate(c, m, rest)
      BY <1>7, <1>11, <2>4 DEF CMReceive, RecvAsBackup, RecvRequest, recvInvalConfirm, RecvConfirm,
           RecvElectionStart, RecvElectMe, ManagerTypes, Refusal
    <3>2. ASSUME NEW text, text # "none", Fail(text, rest) PROVE Outcome
      BY <3>2, FailHarmless, HarmlessOutcome
    <3>3. CASE RecvElectNo(c, m, rest)
      <4>1. CASE Fail("ElectNoOutOfElection", rest)
        BY <3>2, <4>1
      <4>2. CASE cm' = [cm EXCEPT ![c].refused = TRUE] /\ out' = rest
        <5> DEFINE r == [cm[c] EXCEPT !.refused = TRUE]
        <5>1. cm' = [cm EXCEPT ![c] = r] /\ r.refused /\ r.state = cm[c].state
              /\ r.alive = cm[c].alive /\ r.ongoing = cm[c].ongoing
          BY <1>8, <4>2 DEF CMType
        <5>2. Steady /\ cm'[c].refused
          <6> HIDE DEF r
          <6>1. cm'[c] = r
            BY <5>1 DEF Typed, CMsTyped
          <6> QED
            BY <5>1, <6>1, SteadyCM
        <5> QED
          BY <2>2, <4>2, <5>2
      <4> QED
        BY <3>3, <4>1, <4>2 DEF RecvElectNo
    <3>4. CASE RecvUpdate(c, m, rest)
      <4> DEFINE r == WithRecords(cm[c], m.body)
      <4>1. m.type = "UPDATE"
        BY <1>11, <3>4 DEF RecvUpdate, CMUpdates, Refusal
      <4>2. CASE Fail("UpdateAsPrimary", rest) \/ Fail("ImpossibleUpdate", rest)
        BY <3>2, <4>2
      <4>3. CASE cm' = [cm EXCEPT ![c] = r] /\ out' = rest
        <5>1. r.state = cm[c].state /\ r.alive = cm[c].alive
              /\ r.ongoing = cm[c].ongoing /\ r.refused = cm[c].refused
          BY <1>8 DEF WithRecords, CMType
        <5>2. Steady
          <6> HIDE DEF r
          <6> QED
            BY <4>3, <5>1, SteadyCM
        <5> QED
          BY <2>2, <4>1, <4>3, <5>2
      <4> QED
        BY <3>4, <4>1, <4>2, <4>3 DEF RecvUpdate
    <3> QED
      BY <3>1, <3>3, <3>4
  <2> QED
    BY <2>3, <2>4
<1> QED
  BY <1>7, <1>10, <1>11 DEF Electoral

LEMMA DeliverOutcome ==
  ASSUME Typed, Orderly, OneLivePrimary, NEW p \in Goroutines, NEW x, x # 0, Deliver(p, x)
  PROVE  Outcome
<1>1. out[p] # <<>> /\ x \in Head(out[p]).to /\ out[Listener(x)] = <<>>
  BY DEF Deliver
<1>2. IsOut(Rest(p, x)) /\ Head(out[p]) \in AllMessages
  BY <1>1, RestTyped
<1>3. x \in Nodes \/ x \in CMs
  BY <1>1, <1>2, Receivers
<1>4. IF x \in Nodes THEN NodeReceive(x, Head(out[p]), Rest(p, x))
                     ELSE CMReceive(x, Head(out[p]), Rest(p, x))
  BY DEF Deliver, Rest
<1>5. CASE x \in Nodes
  <2>1. Head(out[p]).type \in ToNodes
    BY <1>1, <1>2, <1>5, Receivers
  <2>2. Head(out[p]).type \notin Electoral
    BY <2>1 DEF ToNodes, Electoral, Refusal
  <2> QED
    BY <1>1, <1>2, <1>4, <1>5, <2>2, RestUndisturbed, NodeReceiveHarmless, HarmlessOutcome
<1>6. CASE x \in CMs
  BY <1>1, <1>4, <1>6, Identifiers, ManagerReceives, ElectoralReceived
<1> QED
  BY <1>3, <1>5, <1>6

LEMMA ManagerLocalHarmless ==
  ASSUME Typed, Orderly, NEW c \in CMs,
         \/ RequestEnds(c) \/ ClearElection(c) \/ ElectionLost(c)
         \/ HandleRequest(c) \/ ServeRead(c) \/ ServeWrite(c)
  PROVE  Harmless
<1>1. IsOut(out) /\ Undisturbed(out)
  BY DEF Orderly, Origins, Undisturbed, Typed
<1>2. Listener(c) \in Goroutines /\ Handler(c) \in Goroutines /\ Elector(c) \in Goroutines
  BY GoroutineSet
<1>3. \A p \in Goroutines : out[p] # <<>> /\ Head(out[p]).type \notin Electoral =>
        Undisturbed(Done(p))
  BY DoneUndisturbed
<1>4. ASSUME NEW s, \A m \in Said(s) : m.type \notin Electoral, out' = [out EXCEPT ![Handler(c)] = s]
      PROVE  Undisturbed(out')
  <2>1. Handler(c) # Listener(c)
    BY GoroutineNames
  <2> QED
    BY <1>1, <1>4, <2>1, ManagerSays
<1>5. cm[c] \in CMType
  BY CMFields DEF Typed
<1>6. ASSUME NEW r, cm' = [cm EXCEPT ![c] = r], r.state = cm[c].state, r.alive = cm[c].alive,
             r.ongoing => cm[c].ongoing /\ (cm[c].refused => r.refused), Undisturbed(out')
      PROVE  Harmless
  BY <1>6, SteadyCM DEF Harmless
<1>7. CASE RequestEnds(c)
  <2> DEFINE r == [cm[c] EXCEPT !.req = "IDLE", !.id = NoId]
  <2>1. cm' = [cm EXCEPT ![c] = r] /\ r.state = cm[c].state /\ r.alive = cm[c].alive
        /\ r.ongoing = cm[c].ongoing /\ r.refused = cm[c].refused
    BY <1>5, <1>7 DEF RequestEnds, RequestOver, CMType
  <2>2. out[Listener(c)] # <<>> /\ Head(out[Listener(c)]).type \notin Electoral
        /\ out' = Done(Listener(c))
    BY <1>7 DEF RequestEnds, Doing, Electoral, Refusal
  <2> HIDE DEF r
  <2> QED
    BY <1>2, <1>3, <1>6, <2>1, <2>2
<1>8. CASE ClearElection(c) \/ ElectionLost(c)
  <2> DEFINE r == [cm[c] EXCEPT !.ongoing = FALSE, !.refused = FALSE, !.electionId = NoId]
  <2>1. cm' = [cm EXCEPT ![c] = r] /\ r.state = cm[c].state /\ r.alive = cm[c].alive
        /\ ~r.ongoing
    BY <1>5, <1>8 DEF ClearElection, ElectionLost, CMType
  <2>2. Undisturbed(out')
    <3>1. CASE ClearElection(c)
      <4>1. out[Elector(c)] # <<>> /\ Head(out[Elector(c)]).type \notin Electoral
            /\ out' = Done(Elector(c))
        BY <3>1 DEF ClearElection, Doing, Electoral, Refusal
      <4> QED
        BY <1>2, <1>3, <4>1
    <3>2. CASE ElectionLost(c)
      BY <1>1, <3>2 DEF ElectionLost
    <3> QED
      BY <1>8, <3>1, <3>2
  <2> HIDE DEF r
  <2> QED
    BY <1>6, <2>1, <2>2
<1>9. CASE HandleRequest(c)
  <2>1. PICK m \in pend[c] :
          \/ UNCHANGED <<cm, out>>
          \/ /\ cm' = [cm EXCEPT ![c].req = m.type, ![c].id = m.id]
             /\ out' = [out EXCEPT ![Handler(c)] =
                          <<Msg(Recv[m.type], {Other(c)}, m.id, Records(c)), Local(Serve[m.type], m.id)>>]
    BY <1>9 DEF HandleRequest
  <2>2. CASE UNCHANGED <<cm, out>>
    BY <1>1, <2>2, KeepHarmless
  <2>3. CASE /\ cm' = [cm EXCEPT ![c].req = m.type, ![c].id = m.id]
             /\ out' = [out EXCEPT ![Handler(c)] =
                          <<Msg(Recv[m.type], {Other(c)}, m.id, Records(c)), Local(Serve[m.type], m.id)>>]
    <3> DEFINE r == [cm[c] EXCEPT !.req = m.type, !.id = m.id]
               u == Msg(Recv[m.type], {Other(c)}, m.id, Records(c))
               k == Local(Serve[m.type], m.id)
    <3>1. cm' = [cm EXCEPT ![c] = r] /\ r.state = cm[c].state /\ r.alive = cm[c].alive
          /\ r.ongoing = cm[c].ongoing /\ r.refused = cm[c].refused
      BY <1>5, <2>3 DEF CMType
    <3>2. m.type \in {"RQ", "WQ"}
      <4>1. m \in Messages("RQ") \cup Messages("WQ")
        BY DEF Typed, PendTyped
      <4> QED
        BY <4>1 DEF Messages
    <3>3. u.type \notin Electoral /\ k.type \notin Electoral
      BY <3>2 DEF Recv, Serve, Local, Msg, Electoral, Refusal
    <3>4. out' = [out EXCEPT ![Handler(c)] = <<u, k>>]
      BY <2>3
    <3> HIDE DEF r, u, k
    <3>5. \A j \in Said(<<u, k>>) : j.type \notin Electoral
      BY <3>3, SaidShort
    <3>6. Undisturbed(out')
      BY <1>4, <3>4, <3>5
    <3> QED
      BY <1>6, <3>1, <3>6
  <2> QED
    BY <2>1, <2>2, <2>3
<1>10. CASE ServeRead(c)
  <2> DEFINE id == Head(out[Handler(c)]).id
             u == Msg("RF", {cm[c].owner}, id, Requestor(id))
             r == [cm[c] EXCEPT !.copies = cm[c].copies \cup {Requestor(id)}]
  <2>1. CASE Fail("ReaderIsOwner", Done(Handler(c)))
    BY <2>1, FailHarmless
  <2>2. CASE /\ cm' = [cm EXCEPT ![c].copies = @ \cup {Requestor(id)}]
             /\ out' = [out EXCEPT ![Handler(c)] = <<u>>]
    <3>1. cm' = [cm EXCEPT ![c] = r] /\ r.state = cm[c].state /\ r.alive = cm[c].alive
          /\ r.ongoing = cm[c].ongoing /\ r.refused = cm[c].refused
      BY <1>5, <2>2 DEF CMType
    <3>2. u.type \notin Electoral
      BY DEF Msg, Electoral, Refusal
    <3> HIDE DEF r, u
    <3>3. \A j \in Said(<<u>>) : j.type \notin Electoral
      BY <3>2, SaidShort
    <3>4. Undisturbed(out')
      BY <1>4, <2>2, <3>3
    <3> QED
      BY <1>6, <3>1, <3>4
  <2> QED
    BY <1>10, <2>1, <2>2 DEF ServeRead
<1>11. CASE ServeWrite(c)
  <2> DEFINE id == Head(out[Handler(c)]).id
             g == Grant(id, c)
             v == Msg("IV", cm[c].copies, id, Requestor(id))
             r == [cm[c] EXCEPT !.invalCount = 0, !.invalExpected = Cardinality(cm[c].copies)]
  <2>1. CASE Fail("OwnerHasCopy", Done(Handler(c)))
    BY <2>1, FailHarmless
  <2>2. CASE out' = [out EXCEPT ![Handler(c)] = <<g>>] /\ UNCHANGED cm
    <3>1. g.type \notin Electoral
      BY GrantSaid
    <3> HIDE DEF g
    <3>2. \A j \in Said(<<g>>) : j.type \notin Electoral
      BY <3>1, SaidShort
    <3> QED
      BY <1>4, <2>2, <3>2, KeepHarmless
  <2>3. CASE /\ cm' = [cm EXCEPT ![c].invalCount = 0, ![c].invalExpected = Cardinality(cm[c].copies)]
             /\ out' = [out EXCEPT ![Handler(c)] = <<v>>]
    <3>1. cm' = [cm EXCEPT ![c] = r] /\ r.state = cm[c].state /\ r.alive = cm[c].alive
          /\ r.ongoing = cm[c].ongoing /\ r.refused = cm[c].refused
      BY <1>5, <2>3 DEF CMType
    <3>2. v.type \notin Electoral
      BY DEF Msg, Electoral, Refusal
    <3> HIDE DEF r, v
    <3>3. \A j \in Said(<<v>>) : j.type \notin Electoral
      BY <3>2, SaidShort
    <3>4. Undisturbed(out')
      BY <1>4, <2>3, <3>3
    <3> QED
      BY <1>6, <3>1, <3>4
  <2> QED
    BY <1>11, <2>1, <2>2, <2>3 DEF ServeWrite
<1> QED
  BY <1>7, <1>8, <1>9, <1>10, <1>11

-----------------------------------------------------------------------------
(***************************************************************************)
(* The timer of an election expires only in quiet, when the other manager  *)
(* has answered: two backups do not wait for each other's listeners, since *)
(* only the higher one refuses.                                            *)
(***************************************************************************)

LEMMA ListenerStuck ==
  ASSUME Orderly, Quiet, Typed, NEW c \in CMs, NEW d \in CMs, d = Other(c),
         out[Listener(d)] # <<>>, \A m \in Said(out[Listener(d)]) : m.type \in Refusal
  PROVE  out[Listener(c)] # <<>>
<1> DEFINE m == Head(out[Listener(d)])
<1>1. Listener(d) \in Goroutines /\ out[Listener(d)] \in Seq(AllMessages)
  BY GoroutineSet DEF Typed, IsOut
<1>2. m \in Said(out[Listener(d)]) /\ m.type \in Refusal
  BY <1>1, SaidSplit
<1>3. Says(Listener(d), m)
  BY <1>1, <1>2 DEF Orderly, Origins
<1>4. m.to = {c} /\ c # 0
  BY <1>2, <1>3, OtherManager, GoroutineNames, Identifiers DEF Says
<1>5. ~CanGoOn(Listener(d))
  BY <1>1 DEF Quiet
<1>6. ~CanReceive(c, m)
  BY <1>4, <1>5 DEF CanGoOn
<1> QED
  BY <1>2, <1>6 DEF CanReceive, Refusal

LEMMA QuietCleared ==
  ASSUME Typed, Orderly, Quiet, NEW c \in CMs,
         cm[c].ongoing, ~Primary(c), out[Elector(c)] = <<>>
  PROVE  /\ Cleared(c)
         /\ ~Primary(Other(c)) => out[Listener(Other(c))] = <<>>
<1> DEFINE d == Other(c)
<1>1. d \in CMs /\ d # c /\ c = Other(d) /\ d = Other(c)
  BY OtherManager
<1> HIDE DEF d
<1>2. ~cm[c].refused
  BY DEF Quiet, ManagerCanGoOn
<1>3. ASSUME out[Listener(d)] # <<>>, \A m \in Said(out[Listener(d)]) : m.type \in Refusal
      PROVE  FALSE
  <2>1. out[Listener(c)] # <<>>
    BY <1>1, <1>3, ListenerStuck
  <2>2. c > d /\ ~Primary(d)
    BY <1>1, <2>1 DEF Orderly, BackupRefuses
  <2>3. d > c
    BY <1>1, <1>3, <2>2 DEF Orderly, BackupRefuses
  <2> QED
    BY <2>2, <2>3, Identifiers, <1>1
<1>4. ~Refusing(d)
  <2> SUFFICES ASSUME Refusing(d) PROVE FALSE
    OBVIOUS
  <2>1. out[Listener(d)] # <<>>
    BY SaidShort DEF Refusing, Refused
  <2> QED
    BY <1>1, <1>3, <2>1 DEF Orderly, RefusalAlone
<1>5. ~Primary(d) => out[Listener(d)] = <<>>
  BY <1>1, <1>3 DEF Orderly, BackupRefuses
<1> QED
  BY <1>1, <1>2, <1>4, <1>5 DEF Cleared

LEMMA ElectionTimeoutOutcome ==
  ASSUME Typed, Orderly, OneLivePrimary, NEW c \in CMs, ElectionTimeout(c)
  PROVE  Outcome
<1> DEFINE d == Other(c)
<1>1. d \in CMs /\ d # c /\ c = Other(d) /\ d = Other(c) /\ \A e \in CMs : e # c => e = d
  BY OtherManager
<1> HIDE DEF d
<1>2. cm[c].ongoing /\ ~Primary(c) /\ out[Elector(c)] = <<>> /\ Quiet
  BY DEF ElectionTimeout
<1>3. Cleared(c) /\ (~Primary(d) => out[Listener(d)] = <<>>)
  BY <1>1, <1>2, QuietCleared
<1>4. cm[c].alive /\ cm[d].alive => ~Primary(d) /\ c > d
  BY <1>1, <1>3 DEF Orderly, Unopposed
<1>5. /\ \A e \in CMs : cm'[e].alive = cm[e].alive /\ cm'[e].ongoing = cm[e].ongoing
                        /\ cm'[e].refused = cm[e].refused
      /\ Primary(c)' /\ (Primary(d)' <=> Primary(d))
  BY <1>1, CMFields DEF ElectionTimeout, Primary, Typed, CMsTyped, CMType
<1>6. out' = [out EXCEPT ![Elector(c)] = Victory(c)] /\ out \in [Goroutines -> Seq(AllMessages)]
  BY DEF ElectionTimeout, Typed, IsOut
<1>7. /\ out'[Elector(c)] = Victory(c)
      /\ \A q \in Goroutines : q # Elector(c) => out'[q] = out[q]
  BY <1>6, GoroutineSet
<1>8. \A m \in Said(Victory(c)) : m.type \in Winning
  <2> DEFINE a == Msg("ELWIN", Nodes, NoId, c)
             b == Local("clear", NoId)
  <2>1. a.type \in Winning /\ b.type \in Winning /\ Victory(c) = <<a, b>>
    BY DEF Local, Msg, Winning, Victory
  <2> HIDE DEF a, b
  <2> QED
    BY <2>1, SaidShort
<1>9. out'[Elector(d)] = out[Elector(d)] /\ \A e \in CMs : out'[Listener(e)] = out[Listener(e)]
  BY <1>1, <1>7, GoroutineNames, GoroutineSet
<1>10. Origins'
  BY <1>7, <1>8 DEF Orderly, Origins, Says, Winning, Refusal
<1>11. Canvass'
  BY <1>1, <1>5, <1>7, <1>8, <1>9 DEF Orderly, Canvass
<1>12. BackupRefuses'
  BY <1>1, <1>3, <1>5, <1>9 DEF BackupRefuses
<1>13. RefusalAlone'
  BY <1>9 DEF Orderly, RefusalAlone, Refusing
<1>14. ASSUME NEW e \in CMs, Cleared(e)', cm'[e].alive, cm'[Other(e)].alive
       PROVE  FALSE
  <2>1. e = d
    BY <1>1, <1>5, <1>14 DEF Cleared
  <2>2. Cleared(d)
    BY <1>1, <1>5, <1>9, <1>14, <2>1 DEF Cleared, Refusing
  <2>3. d > c
    BY <1>1, <1>5, <1>14, <2>1, <2>2 DEF Orderly, Unopposed
  <2>4. c > d
    BY <1>1, <1>4, <1>5, <1>14, <2>1
  <2> QED
    BY <1>1, <2>3, <2>4, Identifiers
<1>15. Unopposed'
  BY <1>14 DEF Unopposed
<1>16. OneLivePrimary'
  BY <1>1, <1>4, <1>5 DEF OneLivePrimary
<1> QED
  BY <1>10, <1>11, <1>12, <1>13, <1>15, <1>16 DEF Orderly, Outcome

LEMMA RebootOutcome ==
  ASSUME Typed, Orderly, OneLivePrimary, NEW c \in CMs, Reboot(c)
  PROVE  Outcome
<1> DEFINE d == Other(c)
           e == Msg("ELECT_ME", {Other(c)}, <<c, 0>>, c)
           r == [FreshCM EXCEPT !.ongoing = TRUE, !.electionId = <<c, 0>>, !.counter = 1 % ElectionIds]
<1>1. d \in CMs /\ d # c /\ c = Other(d) /\ d = Other(c) /\ \A f \in CMs : f # c => f = d
  BY OtherManager
<1>2. Primary(d) /\ out[Listener(c)] = <<>>
  BY DEF Reboot
<1>3. r.state = "BACKUP"
  BY DEF FreshCM
<1>4. e.type = "ELECT_ME" /\ e.to = {d} /\ e.body = c
  BY DEF Msg
<1>5. cm' = [cm EXCEPT ![c] = r] /\ out' = [out EXCEPT ![Elector(c)] = <<e>>]
  BY DEF Reboot
<1> HIDE DEF d, e, r
<1>6. cm'[c] = r /\ cm'[d] = cm[d]
  BY <1>1, <1>5 DEF Typed, CMsTyped
<1>7. ~Primary(c)' /\ Primary(d)'
  BY <1>2, <1>3, <1>6 DEF Primary
<1>8. /\ out'[Elector(c)] = <<e>> /\ \A q \in Goroutines : q # Elector(c) => out'[q] = out[q]
  BY <1>5, GoroutineSet DEF Typed, IsOut
<1>9. out'[Elector(d)] = out[Elector(d)] /\ \A f \in CMs : out'[Listener(f)] = out[Listener(f)]
  BY <1>1, <1>8, GoroutineNames, GoroutineSet
<1>10. Said(<<e>>) = {e} /\ <<e>> # <<>>
  BY SaidShort
<1>11. Origins'
  <2>1. Says(Elector(c), e)
    BY <1>1, <1>4 DEF Says, Refusal
  <2> QED
    BY <1>8, <1>10, <2>1 DEF Orderly, Origins
<1>12. Canvass'
  <2> SUFFICES ASSUME NEW f \in CMs, NEW m \in Said(out'[Elector(f)])
               PROVE  IF Primary(f)' THEN m.type \in Winning ELSE m.type = "ELECT_ME"
    BY DEF Canvass
  <2>1. CASE f = c
    BY <1>4, <1>7, <1>8, <1>10, <2>1
  <2>2. CASE f = d
    BY <1>1, <1>2, <1>7, <1>9, <2>2 DEF Orderly, Canvass
  <2> QED
    BY <1>1, <2>1, <2>2
<1>13. BackupRefuses'
  BY <1>1, <1>2, <1>7, <1>9 DEF BackupRefuses
<1>14. RefusalAlone'
  BY <1>9 DEF Orderly, RefusalAlone, Refusing
<1>15. \A f \in CMs : ~Cleared(f)'
  BY <1>1, <1>7, <1>8, <1>10 DEF Cleared
<1>16. Unopposed'
  BY <1>15 DEF Unopposed
<1>17. OneLivePrimary'
  BY <1>1, <1>7 DEF OneLivePrimary
<1> QED
  BY <1>11, <1>12, <1>13, <1>14, <1>16, <1>17 DEF Orderly, Outcome

LEMMA KillHarmless ==
  ASSUME Typed, Orderly, NEW c \in CMs, Kill(c)
  PROVE  Harmless
<1> DEFINE r == [cm[c] EXCEPT !.alive = FALSE]
<1>1. cm' = [cm EXCEPT ![c] = r] /\ UNCHANGED out
  BY DEF Kill
<1>2. r.state = cm[c].state /\ ~r.alive /\ r.ongoing = cm[c].ongoing /\ r.refused = cm[c].refused
  BY CMFields DEF Typed, CMType
<1>3. Undisturbed(out')
  BY <1>1 DEF Orderly, Origins, Undisturbed
<1>4. Steady
  <2> HIDE DEF r
  <2> QED
    BY <1>1, <1>2, SteadyCM
<1> QED
  BY <1>3, <1>4 DEF Harmless

-----------------------------------------------------------------------------
(* The theorem *)

Elections == Typed /\ (Running => Orderly) /\ OneLivePrimary

LEMMA InitElections == Init => Elections
<1> SUFFICES ASSUME Init PROVE Elections
  OBVIOUS
<1>1. \A p \in Goroutines : out[p] = <<>> /\ Said(out[p]) = {}
  BY SaidShort DEF Init
<1>2. \A c \in CMs : ~Primary(c) /\ ~cm[c].ongoing
  BY DEF Init, FreshCM, Primary
<1>3. Orderly
  BY <1>1, <1>2, GoroutineSet
     DEF Orderly, Origins, Canvass, BackupRefuses, RefusalAlone, Refusing, Refused, Unopposed, Cleared
<1>4. OneLivePrimary
  BY <1>2 DEF OneLivePrimary
<1> QED
  BY <1>3, <1>4, InitTyped DEF Elections

LEMMA StepElections == Elections /\ [Next]_vars => Elections'
<1> SUFFICES ASSUME Elections, [Next]_vars PROVE Elections'
  OBVIOUS
<1>1. Typed'
  BY StepTyped DEF Elections
<1>2. CASE UNCHANGED vars
  <2>1. Orderly => Orderly'
    BY <1>2 DEF vars, Orderly, Origins, Canvass, BackupRefuses, RefusalAlone, Refusing, Unopposed,
                Cleared, Primary
  <2>2. OneLivePrimary'
    BY <1>2 DEF vars, Elections, OneLivePrimary, Primary
  <2> QED
    BY <1>1, <1>2, <2>1, <2>2 DEF vars, Elections, Running
<1>3. CASE Next
  <2>1. Typed /\ Orderly /\ OneLivePrimary
    BY <1>3 DEF Next, Step, Elections
  <2>2. Harmless => Outcome
    BY <2>1, HarmlessOutcome
  <2>3. Outcome
    <3>1. CASE Work
      <4>1. ASSUME NEW p \in Goroutines, NEW x \in Head(out[p]).to \ {0}, Deliver(p, x)
            PROVE  Outcome
        BY <2>1, <4>1, DeliverOutcome
      <4>2. ASSUME NEW n \in Nodes, ManagerKnown(n) \/ InvalidateOwn(n) \/ NodeResumes(n)
            PROVE  Outcome
        BY <2>1, <2>2, <4>2, NodeLocalHarmless
      <4>3. ASSUME NEW c \in CMs,
                   \/ RequestEnds(c) \/ ClearElection(c) \/ ElectionLost(c)
                   \/ HandleRequest(c) \/ ServeRead(c) \/ ServeWrite(c)
            PROVE  Outcome
        BY <2>1, <2>2, <4>3, ManagerLocalHarmless
      <4>4. ASSUME NEW n \in Nodes, RequestPage(n) \/ TakePage(n) \/ ClientReturns(n)
            PROVE  Outcome
        BY <2>1, <2>2, <4>4, ClientHarmless
      <4> QED
        BY <3>1, <4>1, <4>2, <4>3, <4>4 DEF Work
    <3>2. CASE NextRound
      <4>1. Undisturbed(out') /\ UNCHANGED cm
        BY <2>1, <3>2 DEF NextRound, Orderly, Origins, Undisturbed
      <4> QED
        BY <2>2, <4>1, KeepHarmless
    <3>3. ASSUME NEW n \in Nodes, Timeout(n) PROVE Outcome
      BY <2>1, <2>2, <3>3, ClientHarmless
    <3>4. ASSUME NEW c \in CMs, ElectionTimeout(c) \/ Kill(c) \/ Reboot(c) PROVE Outcome
      BY <2>1, <2>2, <3>4, ElectionTimeoutOutcome, KillHarmless, RebootOutcome
    <3> QED
      BY <1>3, <3>1, <3>2, <3>3, <3>4 DEF Next, Step
  <2> QED
    BY <1>1, <2>3 DEF Outcome, Elections, Running
<1> QED
  BY <1>2, <1>3

\* At most one of the managers that are up is a primary, whatever the nodes ask for, however
\* often and whenever managers are killed, as long as a killed one reboots only when the
\* other has taken over (Reboot) and the timer of an election waits for its answer (Quiet).
THEOREM OneLivePrimaryHolds == Spec => []OneLivePrimary
<1>1. Elections => OneLivePrimary
  BY DEF Elections
<1> QED
  BY <1>1, InitElections, StepElections, PTL DEF Spec

=============================================================================
