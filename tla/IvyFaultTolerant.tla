-------------------------- MODULE IvyFaultTolerant --------------------------
(***************************************************************************)
(* The fault-tolerant Ivy of hw3/IvyFaultTolerant, for one page: two       *)
(* central managers (a primary and its backup) that keep the same records, *)
(* and nodes that elect a new primary and send again when a timer expires. *)
(*                                                                         *)
(* Channels are unbuffered: a goroutine that sends waits for the receiver, *)
(* and every receiver is one Listen loop.  out[p] is what goroutine p has  *)
(* still to do, in order: messages to send, each with the set `to' of its  *)
(* remaining receivers, and local steps, whose `to' is empty.  A listener  *)
(* takes a message only when it has nothing left to do for the last one.   *)
(*                                                                         *)
(* Timers follow assumption 2 of Design.md, "messages must be delivered    *)
(* and responded to within a bounded time": they expire when nothing else  *)
(* can happen (Quiet).                                                     *)
(***************************************************************************)
EXTENDS Integers, Sequences, FiniteSets

CONSTANTS
    Nodes,      \* the node identifiers
    CMs,        \* the two central managers, negative identifiers
    Workloads,  \* the client programs: sequences of rounds, [Nodes -> {"none", "read", "write"}]
    MaxKills,   \* bound: how often a central manager is killed
    ElectionIds \* bound: election ids are reused after so many elections of a central manager

ASSUME NodesAssumption == Nodes \subseteq Nat \ {0} /\ IsFiniteSet(Nodes)
ASSUME CMsAssumption ==
    CMs \subseteq Int /\ IsFiniteSet(CMs) /\ Cardinality(CMs) = 2 /\ \A c \in CMs : c < 0
ASSUME BoundsAssumption ==
    /\ \A w \in Workloads : w \in Seq([Nodes -> {"none", "read", "write"}])
    /\ MaxKills \in Nat /\ ElectionIds \in Nat \ {0}

VARIABLES
    cm,     \* cm[c]: the fields of a CentralManager and what its goroutines share
    node,   \* node[n]: the fields of a Node, its page and where its client is
    out,    \* out[p]: what goroutine p has still to do
    pend,   \* pend[c]: requests on their way to c's RequestHandler
    rounds, round, \* the client program, and its round: the next starts when it is over
    kills,  \* how often Kill was called
    latest, \* history: the value of the last ClientWrite that returned
    struck, \* history: Kill was called while an election was going on
    panic   \* which panic was raised, "none" before the first

workVars == <<rounds, round, kills, latest, struck>>
vars == <<cm, node, out, pend, workVars, panic>>

NoId == <<0, 0>>    \* InvalidNodeId or "": no node, request or election
Absent == <<0, 0>>  \* the data of InvalidPage()
Blank == <<0, 1>>   \* "", the data of a page before its first write

Listener(x) == <<"listen", x>>
Handler(c) == <<"handle", c>>
Elector(c) == <<"elect", c>>
Client(n) == <<"client", n>>
Goroutines == {Listener(x) : x \in Nodes \cup CMs} \cup {Handler(c) : c \in CMs}
              \cup {Elector(c) : c \in CMs} \cup {Client(n) : n \in Nodes}

Other(c) == CHOOSE d \in CMs : d # c
Records(c) == [owner |-> cm[c].owner, copies |-> cm[c].copies]
Msg(type, to, id, body) == [type |-> type, to |-> to, id |-> id, body |-> body]
Local(type, id) == Msg(type, {}, id, NoId)

\* The request id of n's operation of this round; the value a ClientWrite writes is its id.
ReqId(n) == <<n, round>>
Requestor(id) == id[1]
IsRead(n) == rounds[round][n] = "read"
Busy(n) == node[n].pc \in {"ask", "page", "ack"}  \* its client holds the pageLock
Running == panic = "none"

\* What a CentralManager loses in a crash is what NewCentralManager and Reboot set.
FreshCM ==
    [alive |-> TRUE, state |-> "BACKUP", owner |-> 0, copies |-> {}, req |-> "IDLE", id |-> NoId,
     invalCount |-> 0, invalExpected |-> 0, ongoing |-> FALSE, refused |-> FALSE,
     electionId |-> NoId, counter |-> 0]

FreshNode ==
    [cmId |-> 0, access |-> "INVALID", data |-> Absent, state |-> "IDLE", id |-> NoId,
     inbox |-> <<>>, ack |-> FALSE, pc |-> "idle"]

Init ==
    /\ cm = [c \in CMs |-> FreshCM]
    /\ node = [n \in Nodes |-> FreshNode]
    /\ out = [p \in Goroutines |-> <<>>]
    /\ pend = [c \in CMs |-> {}]
    /\ rounds \in Workloads /\ round = 0
    /\ kills = 0 /\ latest = Blank /\ struck = FALSE /\ panic = "none"

\* The types of messages and of local steps, and who receives them, with which id and body.
ToNodes == {"RF", "WF", "IV", "RP", "WP", "WI", "RC_ACK", "WC_ACK", "ELWIN"}
ToCMs == {"RQ", "WQ", "RC", "WC", "IC", "RQ_RECV", "WQ_RECV", "RC_RECV", "WC_RECV", "UPDATE",
          "EL", "ELECT_ME", "ELECT_NO"}
LocalSteps == {"await", "invalidate", "serveRQ", "serveWQ", "idle", "clear"}

RequestIds == Nodes \X Nat
CMElectionIds == CMs \X (0..(ElectionIds - 1))
Data == RequestIds \cup {Absent, Blank}

ReceiversOf(type) ==
    IF type \in ToNodes THEN Nodes \cup {0} ELSE IF type \in ToCMs THEN CMs \cup {0} ELSE {}

IdsOf(type) ==
    CASE type \in {"UPDATE", "EL", "ELWIN", "clear"} -> {NoId}
      [] type \in {"ELECT_ME", "ELECT_NO"} -> CMElectionIds
      [] OTHER -> RequestIds

BodiesOf(type) ==
    CASE type \in {"RQ", "WQ", "RC", "WC", "IC"} -> Nodes
      [] type \in {"RF", "WF", "IV"} -> Nodes \cup {0}
      [] type \in {"RP", "WP", "WI"} -> Data
      [] type \in {"RC_ACK", "WC_ACK", "ELECT_ME", "ELECT_NO", "ELWIN"} -> CMs
      [] type \in {"UPDATE", "RQ_RECV", "WQ_RECV", "RC_RECV", "WC_RECV"} ->
            [owner : Nodes \cup {0}, copies : SUBSET Nodes]
      [] type = "EL" -> {0}
      [] OTHER -> {NoId}

Messages(type) ==
    [type : {type}, to : SUBSET ReceiversOf(type), id : IdsOf(type), body : BodiesOf(type)]

IsMessage(m) == m.type \in ToNodes \cup ToCMs \cup LocalSteps /\ m \in Messages(m.type)

CMType ==
    [alive : BOOLEAN, state : {"BACKUP", "PRIMARY"}, owner : Nodes \cup {0}, copies : SUBSET Nodes,
     req : {"IDLE", "RQ", "WQ"}, id : RequestIds \cup {NoId},
     invalCount : Nat, invalExpected : 0..Cardinality(Nodes),
     ongoing : BOOLEAN, refused : BOOLEAN, electionId : CMElectionIds \cup {NoId},
     counter : 0..(ElectionIds - 1)]

NodeType ==
    [cmId : CMs \cup {0}, access : {"INVALID", "READONLY", "READWRITE"}, data : Data,
     state : {"IDLE", "RQ", "WQ"}, id : RequestIds \cup {NoId},
     inbox : Seq(Messages("RP") \cup Messages("WP") \cup Messages("WI")),
     ack : BOOLEAN, pc : {"idle", "ready", "ask", "page", "ack"}]

TypeOK ==
    /\ cm \in [CMs -> CMType]
    /\ \A c \in CMs :
        /\ cm[c].req = "IDLE" <=> cm[c].id = NoId
        /\ cm[c].invalCount <= cm[c].invalExpected
    /\ node \in [Nodes -> NodeType]
    /\ \A n \in Nodes : Len(node[n].inbox) <= 1
    /\ \A p \in Goroutines : \A i \in DOMAIN out[p] : IsMessage(out[p][i])
    /\ pend \in [CMs -> SUBSET (Messages("RQ") \cup Messages("WQ"))]
    /\ rounds \in Workloads /\ round \in 0..Len(rounds) /\ kills \in 0..MaxKills

-----------------------------------------------------------------------------
(* Sending to a manager *)

ElectionStart == Msg("EL", CMs, NoId, 0)

\* sendToManager: without a manager StartElection asks both managers for an election and
\* waits until an ELWIN has been received; a message to nobody yet is such a wait.
ToManager(n, type, id) ==
    IF node[n].cmId # 0
    THEN <<Msg(type, {node[n].cmId}, id, n)>>
    ELSE <<ElectionStart, Msg(type, {}, id, n)>>

ManagerTypes == {"RQ", "WQ", "RC", "WC", "IC"}

\* What follows a message of a node: an update of the backup, a local step, or an answer.
Recv == [RQ |-> "RQ_RECV", WQ |-> "WQ_RECV", RC |-> "RC_RECV", WC |-> "WC_RECV"]
Serve == [RQ |-> "serveRQ", WQ |-> "serveWQ"]
Ack == [RC |-> "RC_ACK", WC |-> "WC_ACK"]

-----------------------------------------------------------------------------
(* What a listener does with a message m.  `rest' is `out' without it. *)

Fail(text, rest) ==
    panic' = text /\ out' = rest /\ UNCHANGED <<cm, node, pend>>

Keep(rest) == out' = rest /\ UNCHANGED <<cm, node, pend, panic>>

\* Reply with ms, in the receiver's own goroutine.
Reply(x, ms, rest) == out' = [rest EXCEPT ![Listener(x)] = ms]

Unlocked(n) == ~Busy(n)

Grant(id, c) ==
    IF cm[c].owner = 0
    THEN Msg("WI", {Requestor(cm[c].id)}, id, Blank)
    ELSE Msg("WF", {cm[c].owner}, id, Requestor(cm[c].id))

\* A second page for a request would block the listener on the page channel for good.  This
\* is counted as a panic.
PutPage(n, m, rest) ==
    IF node[n].inbox # <<>>
    THEN Fail("SecondPage", rest)
    ELSE /\ node' = [node EXCEPT ![n].inbox = <<m>>]
         /\ out' = rest
         /\ UNCHANGED <<cm, pend, panic>>

NodeTakesPage(n, m, rest) ==
    /\ m.type \in {"RP", "WP", "WI"}
    /\ IF node[n].state = "IDLE" THEN Fail("PageWhenIdle", rest) ELSE PutPage(n, m, rest)

\* What others see of a page: NewPage keeps the data and not that the page was invalid.
Sent(data) == IF data = Absent THEN Blank ELSE data

\* WF to the writer itself: its own page, without a lock.
NodeServesItself(n, m, rest) ==
    m.type = "WF" /\ m.body = n /\ PutPage(n, Msg("WP", {}, m.id, node[n].data), rest)

\* IV to the writer itself needs no lock either; everything else waits for the pageLock.
NodeServes(n, m, rest) ==
    \/ /\ m.type \in {"RF", "WF", "IV"} /\ m.body # n /\ ~Unlocked(n)
       /\ Reply(n, <<Msg(m.type, {}, m.id, m.body)>>, rest)
       /\ UNCHANGED node
    \/ /\ m.type = "RF" /\ m.body # n /\ Unlocked(n)
       /\ node' = [node EXCEPT ![n].access = "READONLY"]
       /\ Reply(n, <<Msg("RP", {m.body}, m.id, Sent(node[n].data))>>, rest)
    \/ /\ m.type = "WF" /\ m.body # n /\ Unlocked(n)
       /\ node' = [node EXCEPT ![n].access = "INVALID"]
       /\ Reply(n, <<Msg("WP", {m.body}, m.id, Sent(node[n].data))>>, rest)
    \/ /\ m.type = "IV" /\ (m.body = n \/ Unlocked(n))
       /\ node' = [node EXCEPT ![n].access = "INVALID"]
       /\ Reply(n, ToManager(n, "IC", m.id), rest)

Unexpected == [RC_ACK |-> "UnexpectedRC_ACK", WC_ACK |-> "UnexpectedWC_ACK"]

NodeTakesAck(n, m, rest) ==
    /\ m.type \in {"RC_ACK", "WC_ACK"}
    /\ IF node[n].state # (IF m.type = "RC_ACK" THEN "RQ" ELSE "WQ")
       THEN Fail(Unexpected[m.type], rest)
       ELSE IF node[n].id # m.id
       THEN Fail("AckOfOtherRequest", rest)
       ELSE /\ node' = [node EXCEPT ![n].id = NoId, ![n].state = "IDLE", ![n].ack = TRUE]
            /\ out' = rest
            /\ UNCHANGED <<cm, pend, panic>>

NodeTakesElwin(n, m, rest) ==
    /\ m.type = "ELWIN"
    /\ node' = [node EXCEPT ![n].cmId = m.body]
    /\ out' = rest
    /\ UNCHANGED <<cm, pend, panic>>

\* The assertion that a page to be forwarded is valid, made before waiting for the pageLock.
InvalidForward(n, m) ==
    (m.type = "RF" \/ (m.type = "WF" /\ m.body # n)) /\ node[n].access = "INVALID"

NodeReceive(n, m, rest) ==
    \/ NodeTakesPage(n, m, rest)
    \/ InvalidForward(n, m) /\ Fail("ForwardForInvalidPage", rest)
    \/ NodeServesItself(n, m, rest)
    \/ ~InvalidForward(n, m) /\ NodeServes(n, m, rest) /\ UNCHANGED <<cm, pend, panic>>
    \/ NodeTakesAck(n, m, rest)
    \/ NodeTakesElwin(n, m, rest)

(* Messages from nodes to a live central manager *)

Primary(c) == cm[c].state = "PRIMARY"

RecvAsBackup(c, m, rest) ==
    m.type \in ManagerTypes /\ ~Primary(c) /\ Fail("RequestAsBackup", rest)

RecvRequest(c, m, rest) ==
    /\ m.type \in {"RQ", "WQ"} /\ Primary(c)
    /\ pend' = [pend EXCEPT ![c] = @ \cup {m}]
    /\ out' = rest
    /\ UNCHANGED <<cm, node, panic>>

\* Mutant: one IC is enough.
AfterFirst(c, count) == count >= 1

AllInvalidated(c, count) == count = cm[c].invalExpected

recvInvalConfirm(c, m, rest) ==
    LET count == cm[c].invalCount + 1 IN
    /\ m.type = "IC" /\ Primary(c)
    /\ IF count > cm[c].invalExpected
       THEN Fail("TooManyICs", rest)
       ELSE /\ cm' = [cm EXCEPT ![c].invalCount = count]
            /\ Reply(c, IF AllInvalidated(c, count) THEN <<Grant(m.id, c)>> ELSE <<>>, rest)
            /\ UNCHANGED <<node, pend, panic>>

\* Mutant: the records as they were when the confirmation came.
RecordsBefore(c) == Records(c)

\* What the backup is told of them.
ConfirmedRecords(c) == Records(c)'

Confirms(c, m) ==
    cm[c].req = (IF m.type = "RC" THEN "RQ" ELSE "WQ") /\ cm[c].id = m.id

\* A confirmation, once the RequestHandler has released the recordLock.  (With these bounds
\* none ever arrives before, so that the listener never waits for it with the message taken.)
\* If it is for the request being served: the write's new owner, the backup is told, the node
\* is told, the request ends.
RecvConfirm(c, m, rest) ==
    /\ m.type \in {"RC", "WC"} /\ Primary(c)
    /\ out[Handler(c)] = <<>>
    /\ cm' = IF Confirms(c, m) /\ m.type = "WC"
             THEN [cm EXCEPT ![c].owner = m.body, ![c].copies = {}]
             ELSE cm
    /\ Reply(c, IF Confirms(c, m)
                THEN <<Msg(Recv[m.type], {Other(c)}, m.id, ConfirmedRecords(c)),
                       Msg(Ack[m.type], {m.body}, m.id, c), Local("idle", m.id)>>
                ELSE <<>>, rest)
    /\ UNCHANGED <<node, pend, panic>>

(* Elections *)

Victory(c) == <<Msg("ELWIN", Nodes, NoId, c), Local("clear", NoId)>>

startElection(c, rest) ==
    \/ /\ Primary(c)
       /\ out' = [rest EXCEPT ![Elector(c)] = @ \o Victory(c)]
       /\ UNCHANGED cm
    \/ /\ ~Primary(c) /\ cm[c].ongoing
       /\ out' = rest
       /\ UNCHANGED cm
    \/ LET id == <<c, cm[c].counter>> IN
       /\ ~Primary(c) /\ ~cm[c].ongoing
       /\ cm' = [cm EXCEPT ![c].ongoing = TRUE, ![c].refused = FALSE, ![c].electionId = id,
                           ![c].counter = (@ + 1) % ElectionIds]
       /\ out' = [rest EXCEPT ![Elector(c)] = Append(@, Msg("ELECT_ME", {Other(c)}, id, c))]

RecvElectionStart(c, m, rest) ==
    m.type = "EL" /\ startElection(c, rest) /\ UNCHANGED <<node, pend, panic>>

\* Mutant: a primary lets a higher manager win.
HigherRefuses(c, m) == c > m.body

Refuses(c, m) == Primary(c) \/ c > m.body

RecvElectMe(c, m, rest) ==
    /\ m.type = "ELECT_ME"
    /\ Reply(c, IF Refuses(c, m)
                THEN <<Msg("UPDATE", {m.body}, NoId, Records(c)), Msg("ELECT_NO", {m.body}, m.id, c)>>
                ELSE <<>>, rest)
    /\ UNCHANGED <<cm, node, pend, panic>>

RecvElectNo(c, m, rest) ==
    /\ m.type = "ELECT_NO"
    /\ IF ~cm[c].ongoing \/ cm[c].electionId # m.id
       THEN Fail("ElectNoOutOfElection", rest)
       ELSE /\ cm' = [cm EXCEPT ![c].refused = TRUE]
            /\ out' = rest
            /\ UNCHANGED <<node, pend, panic>>

(* Messages of the primary to its backup *)

CMUpdates == {"UPDATE", "RQ_RECV", "WQ_RECV", "RC_RECV", "WC_RECV"}

\* Mutant: the owner is not copied.
CopiesOnly(r, body) == [r EXCEPT !.copies = body.copies]

WithRecords(r, body) == [r EXCEPT !.owner = body.owner, !.copies = body.copies]

\* A request of which the backup's state cannot be right, as its panics have it.
Impossible(c, m) ==
    \/ m.type \in {"RQ_RECV", "WQ_RECV"} /\ cm[c].req # "IDLE"
    \/ m.type = "RC_RECV" /\ (cm[c].req = "WQ" \/ (cm[c].req = "RQ" /\ cm[c].id # m.id))
    \/ m.type = "WC_RECV" /\ (cm[c].req = "RQ" \/ (cm[c].req = "WQ" /\ cm[c].id # m.id))

RecvUpdate(c, m, rest) ==
    LET r == WithRecords(cm[c], m.body)
        s == CASE m.type = "UPDATE" -> r
               [] m.type = "RQ_RECV" -> [r EXCEPT !.req = "RQ", !.id = m.id]
               [] m.type = "WQ_RECV" -> [r EXCEPT !.req = "WQ", !.id = m.id]
               [] OTHER -> [r EXCEPT !.req = "IDLE", !.id = NoId]
    IN  /\ m.type \in CMUpdates
        /\ IF Primary(c) THEN Fail("UpdateAsPrimary", rest)
           ELSE IF Impossible(c, m) THEN Fail("ImpossibleUpdate", rest)
           ELSE cm' = [cm EXCEPT ![c] = s] /\ out' = rest /\ UNCHANGED <<node, pend, panic>>

\* A killed manager drops what it receives.
CMReceive(c, m, rest) ==
    IF ~cm[c].alive THEN Keep(rest)
    ELSE \/ RecvAsBackup(c, m, rest)
         \/ RecvRequest(c, m, rest)
         \/ recvInvalConfirm(c, m, rest)
         \/ RecvConfirm(c, m, rest)
         \/ RecvElectionStart(c, m, rest)
         \/ RecvElectMe(c, m, rest)
         \/ RecvElectNo(c, m, rest)
         \/ RecvUpdate(c, m, rest)

Deliver(p, x) ==
    /\ out[p] # <<>> /\ x \in Head(out[p]).to
    /\ out[Listener(x)] = <<>>
    /\ LET m == Head(out[p])
           left == m.to \ {x}
           rest == [out EXCEPT ![p] = IF left = {} THEN Tail(@)
                                      ELSE <<[m EXCEPT !.to = left]>> \o Tail(@)]
       IN  IF x \in Nodes THEN NodeReceive(x, m, rest) ELSE CMReceive(x, m, rest)
    /\ UNCHANGED workVars

-----------------------------------------------------------------------------
(* Local steps *)

Doing(p, types) == out[p] # <<>> /\ Head(out[p]).to = {} /\ Head(out[p]).type \in types
Done(p) == [out EXCEPT ![p] = Tail(@)]

\* StartElection's loop ends once an ELWIN was received.
ManagerKnown(n) ==
    \E p \in {Client(n), Listener(n)} :
        /\ Doing(p, ManagerTypes \cup {"await"})
        /\ node[n].cmId # 0
        /\ out' = IF Head(out[p]).type = "await" THEN Done(p)
                  ELSE [out EXCEPT ![p][1].to = {node[n].cmId}]
        /\ UNCHANGED <<cm, node, pend, panic>>

\* RequestWrite invalidates its own page once the WQ is sent.
InvalidateOwn(n) ==
    /\ Doing(Client(n), {"invalidate"})
    /\ node' = [node EXCEPT ![n].access = "INVALID"]
    /\ out' = Done(Client(n))
    /\ UNCHANGED <<cm, pend, panic>>

\* Listen goes on with the message it has taken: the pageLock is free.
NodeResumes(n) ==
    LET p == Listener(n) IN
    /\ Doing(p, {"RF", "WF", "IV"}) /\ Unlocked(n) /\ NodeServes(n, Head(out[p]), Done(p))
    /\ UNCHANGED <<cm, pend, panic>>

\* Mutant: the id of the request is kept.
StateOnly(c) == [cm EXCEPT ![c].req = "IDLE"]

RequestOver(c) == [cm EXCEPT ![c].req = "IDLE", ![c].id = NoId]

RequestEnds(c) ==
    LET p == Listener(c) IN
    /\ Doing(p, {"idle"})
    /\ cm' = RequestOver(c)
    /\ out' = Done(p)
    /\ UNCHANGED <<node, pend, panic>>

ClearElection(c) ==
    /\ Doing(Elector(c), {"clear"})
    /\ cm' = [cm EXCEPT ![c].ongoing = FALSE, ![c].refused = FALSE, ![c].electionId = NoId]
    /\ out' = Done(Elector(c))
    /\ UNCHANGED <<node, pend, panic>>

ElectionLost(c) ==
    /\ cm[c].refused /\ out[Elector(c)] = <<>>
    /\ cm' = [cm EXCEPT ![c].ongoing = FALSE, ![c].refused = FALSE, ![c].electionId = NoId]
    /\ UNCHANGED <<node, out, pend, panic>>

\* Mutant: serve any request at any time.
ServesAll(c, m) == TRUE

\* Mutant: drop retransmissions, too.
ServesWhenIdle(c, m) == cm[c].req = "IDLE"

\* A request, or the retransmission of the one being served.
Serves(c, m) == cm[c].req = "IDLE" \/ (cm[c].req = m.type /\ cm[c].id = m.id)

\* The listener holds the recordLock while it confirms.
Confirming(c) == \E i \in DOMAIN out[Listener(c)] : out[Listener(c)][i].type = "idle"

\* RequestHandler takes the next request: it drops all but the one being served, records it
\* and tells the backup.
HandleRequest(c) ==
    \E m \in pend[c] :
        /\ out[Handler(c)] = <<>>
        /\ ~Confirming(c)
        /\ pend' = [pend EXCEPT ![c] = @ \ {m}]
        /\ IF Serves(c, m)
           THEN /\ cm' = [cm EXCEPT ![c].req = m.type, ![c].id = m.id]
                /\ out' = [out EXCEPT ![Handler(c)] =
                              <<Msg(Recv[m.type], {Other(c)}, m.id, Records(c)),
                                Local(Serve[m.type], m.id)>>]
           ELSE UNCHANGED <<cm, out>>
        /\ UNCHANGED <<node, panic>>

\* The rest of recvReadRequest, after the backup has been told.
ServeRead(c) ==
    LET p == Handler(c)
        id == Head(out[p]).id
    IN  /\ Doing(p, {"serveRQ"})
        /\ IF cm[c].owner \in {0, Requestor(id)}
           THEN Fail("ReaderIsOwner", Done(p))
           ELSE /\ cm' = [cm EXCEPT ![c].copies = @ \cup {Requestor(id)}]
                /\ out' = [out EXCEPT ![p] = <<Msg("RF", {cm[c].owner}, id, Requestor(id))>>]
                /\ UNCHANGED <<node, pend, panic>>

\* The rest of recvWriteRequest.
ServeWrite(c) ==
    LET p == Handler(c)
        id == Head(out[p]).id
    IN  /\ Doing(p, {"serveWQ"})
        /\ IF cm[c].copies = {}
           THEN out' = [out EXCEPT ![p] = <<Grant(id, c)>>] /\ UNCHANGED <<cm, node, pend, panic>>
           ELSE IF cm[c].owner \in cm[c].copies
           THEN Fail("OwnerHasCopy", Done(p))
           ELSE /\ cm' = [cm EXCEPT ![c].invalCount = 0,
                                    ![c].invalExpected = Cardinality(cm[c].copies)]
                /\ out' = [out EXCEPT ![p] = <<Msg("IV", cm[c].copies, id, Requestor(id))>>]
                /\ UNCHANGED <<node, pend, panic>>

-----------------------------------------------------------------------------
(* The client *)

ClientDone(n, data) ==
    /\ node' = [node EXCEPT ![n].pc = "idle", ![n].data = data]
    /\ latest' = IF IsRead(n) THEN latest ELSE data
    /\ UNCHANGED <<cm, out, pend, rounds, round, kills, struck, panic>>

\* The listener holds the pageLock while it sends a page or an IC.
ListenerLocks(n) ==
    \E i \in DOMAIN out[Listener(n)] : out[Listener(n)][i].type \in {"RP", "WP", "IC"}

\* RequestRead and RequestWrite, first and again after an election: a hit, or a request.
RequestPage(n) ==
    /\ node[n].pc \in {"ready", "ask"} /\ out[Client(n)] = <<>>
    /\ node[n].pc = "ready" => ~ListenerLocks(n)
    /\ \/ /\ IsRead(n) /\ node[n].access # "INVALID"
          /\ ClientDone(n, node[n].data)
       \/ /\ ~IsRead(n) /\ node[n].access = "READWRITE"
          /\ ClientDone(n, ReqId(n))
       \/ /\ IsRead(n) /\ node[n].access = "INVALID"
          /\ node' = [node EXCEPT ![n].pc = "page", ![n].inbox = <<>>, ![n].ack = FALSE,
                                  ![n].state = "RQ", ![n].id = ReqId(n)]
          /\ out' = [out EXCEPT ![Client(n)] = ToManager(n, "RQ", ReqId(n))]
          /\ UNCHANGED <<cm, pend, workVars, panic>>
       \/ /\ ~IsRead(n) /\ node[n].access # "READWRITE"
          /\ node' = [node EXCEPT ![n].pc = "page", ![n].inbox = <<>>, ![n].ack = FALSE,
                                  ![n].state = "WQ", ![n].id = ReqId(n)]
          /\ out' = [out EXCEPT ![Client(n)] =
                        Append(ToManager(n, "WQ", ReqId(n)), Local("invalidate", ReqId(n)))]
          /\ UNCHANGED <<cm, pend, workVars, panic>>

\* The page arrives, is stored, and is confirmed.
TakePage(n) ==
    LET m == node[n].inbox[1]
        stored == [node EXCEPT ![n].pc = "ack", ![n].inbox = <<>>, ![n].data = m.body,
                               ![n].access = IF IsRead(n) THEN "READONLY" ELSE "READWRITE"]
    IN  /\ node[n].pc = "page" /\ out[Client(n)] = <<>> /\ node[n].inbox # <<>>
        /\ IF m.type \notin (IF IsRead(n) THEN {"RP"} ELSE {"WP", "WI"}) \/ m.body = Absent
           THEN Fail("WrongPage", out)
           ELSE /\ node' = stored
                /\ out' = [out EXCEPT ![Client(n)] =
                              ToManager(n, IF IsRead(n) THEN "RC" ELSE "WC", ReqId(n))]
                /\ UNCHANGED <<cm, pend, panic>>
        /\ UNCHANGED workVars

ClientReturns(n) ==
    /\ node[n].pc = "ack" /\ node[n].ack /\ out[Client(n)] = <<>>
    /\ ClientDone(n, IF IsRead(n) THEN node[n].data ELSE ReqId(n))

-----------------------------------------------------------------------------
(* Timers, crashes and the client program *)

\* One step of a goroutine that no timer and no caller has to start.
Work ==
    \/ \E p \in Goroutines : out[p] # <<>> /\ \E x \in Head(out[p]).to \ {0} : Deliver(p, x)
    \/ /\ \/ \E n \in Nodes : ManagerKnown(n) \/ InvalidateOwn(n) \/ NodeResumes(n)
          \/ \E c \in CMs : \/ RequestEnds(c) \/ ClearElection(c) \/ ElectionLost(c)
                            \/ HandleRequest(c) \/ ServeRead(c) \/ ServeWrite(c)
       /\ UNCHANGED workVars
    \/ \E n \in Nodes : RequestPage(n) \/ TakePage(n) \/ ClientReturns(n)

\* A listener takes a message when it has done with the last one; a live primary's takes a
\* confirmation only while its RequestHandler does not hold the recordLock.
CanReceive(x, m) ==
    /\ out[Listener(x)] = <<>>
    /\ x \in CMs /\ m.type \in {"RC", "WC"} /\ cm[x].alive /\ Primary(x) => out[Handler(x)] = <<>>

\* A local step that waits for a manager, or for the pageLock.
Waits(p, m) ==
    \/ m.type \in ManagerTypes \cup {"await"} /\ node[p[2]].cmId = 0
    \/ m.type \in {"RF", "WF", "IV"} /\ ~Unlocked(p[2])

CanGoOn(p) ==
    LET m == Head(out[p]) IN
    out[p] # <<>> /\ IF m.to = {} THEN ~Waits(p, m) ELSE \E x \in m.to \ {0} : CanReceive(x, m)

ClientCanGoOn(n) ==
    /\ out[Client(n)] = <<>>
    /\ \/ node[n].pc = "ask"
       \/ node[n].pc = "ready" /\ ~ListenerLocks(n)
       \/ node[n].pc = "page" /\ node[n].inbox # <<>>
       \/ node[n].pc = "ack" /\ node[n].ack

ManagerCanGoOn(c) ==
    \/ cm[c].refused /\ out[Elector(c)] = <<>>
    \/ pend[c] # {} /\ out[Handler(c)] = <<>> /\ ~Confirming(c)

\* No goroutine can go on: Work is not enabled.
Quiet ==
    /\ \A p \in Goroutines : ~CanGoOn(p)
    /\ \A n \in Nodes : ~ClientCanGoOn(n)
    /\ \A c \in CMs : ~ManagerCanGoOn(c)

\* The timer of RequestRead or RequestWrite: the request is made again after an election.
PageTimeout(n) ==
    /\ node[n].pc = "page" /\ out[Client(n)] = <<>> /\ Quiet
    /\ node' = [node EXCEPT ![n].pc = "ask", ![n].cmId = 0,
                            ![n].state = IF IsRead(n) THEN @ ELSE "IDLE"]
    /\ out' = [out EXCEPT ![Client(n)] = <<ElectionStart, Local("await", ReqId(n))>>]
    /\ UNCHANGED <<cm, pend, workVars, panic>>

\* The timer of the confirmation; that of a read resets the request state.
ConfirmTimeout(n) ==
    /\ node[n].pc = "ack" /\ out[Client(n)] = <<>> /\ ~node[n].ack /\ Quiet
    /\ node' = [node EXCEPT ![n].cmId = 0, ![n].state = IF IsRead(n) THEN "IDLE" ELSE @]
    /\ out' = [out EXCEPT ![Client(n)] =
                  <<ElectionStart, Msg(IF IsRead(n) THEN "RC" ELSE "WC", {}, ReqId(n), n)>>]
    /\ UNCHANGED <<cm, pend, workVars, panic>>

\* No ELECT_NO in time: the manager, dead or not, is the new primary.
ElectionTimeout(c) ==
    /\ cm[c].ongoing /\ ~Primary(c) /\ out[Elector(c)] = <<>> /\ Quiet
    /\ cm' = [cm EXCEPT ![c].state = "PRIMARY"]
    /\ out' = [out EXCEPT ![Elector(c)] = Victory(c)]
    /\ UNCHANGED <<node, pend, workVars, panic>>

NextRound ==
    /\ \A n \in Nodes : node[n].pc = "idle"
    /\ round < Len(rounds)
    /\ round' = round + 1
    /\ node' = [n \in Nodes |->
                  [node[n] EXCEPT !.pc = IF rounds[round'][n] = "none" THEN "idle" ELSE "ready"]]
    /\ UNCHANGED <<cm, out, pend, rounds, kills, latest, struck, panic>>

ElectionGoingOn ==
    \/ \E c \in CMs : cm[c].ongoing
    \/ \E p \in Goroutines : \E i \in DOMAIN out[p] : out[p][i].type \in {"EL", "ELECT_ME", "ELECT_NO"}

Kill(c) ==
    /\ kills < MaxKills /\ cm[c].alive
    /\ kills' = kills + 1 /\ struck' = (struck \/ ElectionGoingOn)
    /\ cm' = [cm EXCEPT ![c].alive = FALSE]
    /\ UNCHANGED <<node, out, pend, rounds, round, latest, panic>>

\* Reboot, once all that was going on at the crash has come to rest, the other manager has
\* been elected and no node counts on this one ("at least one CM is alive at a time",
\* Design.md; a manager that comes back before the nodes have noticed is a new backup to
\* which they send requests).
Reboot(c) ==
    /\ ~cm[c].alive /\ cm[Other(c)].alive /\ Primary(Other(c))
    /\ \A n \in Nodes : node[n].cmId # c
    /\ Quiet /\ ~cm[c].ongoing
    /\ pend[c] = {} /\ \A p \in {Listener(c), Handler(c), Elector(c)} : out[p] = <<>>
    /\ LET id == <<c, 0>> IN
       /\ cm' = [cm EXCEPT ![c] = [FreshCM EXCEPT !.ongoing = TRUE, !.electionId = id,
                                                  !.counter = 1 % ElectionIds]]
       /\ out' = [out EXCEPT ![Elector(c)] = <<Msg("ELECT_ME", {Other(c)}, id, c)>>]
    /\ UNCHANGED <<node, pend, workVars, panic>>

Timeout(n) == PageTimeout(n) \/ ConfirmTimeout(n)

Step == Running /\ (Work \/ NextRound)

Next ==
    \/ Step
    \/ Running /\ ((\E n \in Nodes : Timeout(n)) \/ \E c \in CMs : ElectionTimeout(c) \/ Kill(c) \/ Reboot(c))

\* Goroutines that can run do, and the program goes on; no timer is put off forever by
\* others that expire before it; nobody need ever kill or reboot a manager.
Fairness ==
    /\ WF_vars(Step)
    /\ \A n \in Nodes : SF_vars(Running /\ Timeout(n))
    /\ \A c \in CMs : SF_vars(Running /\ ElectionTimeout(c))

Spec == Init /\ [][Next]_vars
FairSpec == Spec /\ Fairness

-----------------------------------------------------------------------------
(* Properties *)

\* With no message on its way and no election going on.
AtRest == (\A p \in Goroutines : out[p] = <<>>) /\ (\A c \in CMs : pend[c] = {} /\ ~cm[c].ongoing)

ProgramEnds == round = Len(rounds) /\ \A n \in Nodes : node[n].pc = "idle"

\* Whatever the timeouts and one crash do, no panic of Node.go or Manager.go is reached but
\* the one of NoUnexpectedAck: requests, confirmations, pages and updates of the backup only
\* reach somebody whose state expects them.
NoOtherPanic == panic \in {"none", "UnexpectedRC_ACK"}

\* "panic: unexpected RC_ACK" (Node.go): an RC_ACK reaches only a node that waits for it.
NoUnexpectedAck == panic # "UnexpectedRC_ACK"

\* After timeouts, a crash, a reboot and the elections they cause, at most one of the
\* managers that are up takes requests as the primary.
OneLivePrimary == ~ \E c, d \in CMs : c # d /\ Primary(c) /\ Primary(d) /\ cm[c].alive /\ cm[d].alive

\* Every readable copy, outside the writes in progress, holds the last value written, also
\* when the manager that granted it has crashed and the other one has taken over.
CopiesAreLatest ==
    \A n \in Nodes :
        node[n].access = "INVALID" \/ (Busy(n) /\ ~IsRead(n)) \/ node[n].data = latest

\* At rest, the backup of a live primary has its records, but for the reader being served,
\* and is idle when the primary is: it can take over without losing an owner or a copy.
BackupHasRecords ==
    \A c \in CMs : LET d == Other(c) IN
        AtRest /\ Primary(c) /\ cm[c].alive /\ cm[d].alive =>
            /\ cm[d].owner = cm[c].owner
            /\ cm[d].copies \subseteq cm[c].copies
            /\ cm[c].copies \ cm[d].copies \subseteq IF cm[c].req = "RQ" THEN {Requestor(cm[c].id)} ELSE {}
            /\ cm[c].req = "IDLE" => cm[d].req = "IDLE"

Rights == INSTANCE PageAccess WITH
    Pages <- {"page"},
    access <- [n \in Nodes |-> [p \in {"page"} |-> node[n].access]]

\* The nodes' rights to the page change as those of an Ivy memory may, through timeouts,
\* retransmissions and a change of the manager: a node gets one only when no other node has
\* a right that excludes it.
AccessIsGranted == Rights!Spec

\* The client program ends: every read and write returns, through a crash of the primary
\* and its election, unless a panic stops the program or the crash came during an election.
OperationsReturn == <>(ProgramEnds \/ ~Running \/ struck)

\* "This blocks until the election is done" (Node.go): elections end, also when a manager is
\* killed in the middle of one.  They do not, and no run checks this; see the README.
ElectionsEnd == <>(ProgramEnds \/ ~Running)
=============================================================================
