---------------------------- MODULE ClientServer ----------------------------
(***************************************************************************)
(* The client-server broadcast with vector clocks of hw1/q1/part3.  Every  *)
(* client owns an unbuffered channel to the server, emptied by a forwarder *)
(* goroutine that passes one message at a time to the server's RecvChan,   *)
(* and one from the server.  The server relays a message to the other      *)
(* clients, drops it at random, or drops it as a causality violation.      *)
(*                                                                         *)
(* A client's Send is random, too: one message, or two with the later one  *)
(* first, which simulates a message that overtakes another.                *)
(***************************************************************************)
EXTENDS Integers, Sequences, FiniteSets, SequencesExt

CONSTANTS
    Clients, \* the client identifiers
    MaxMsgs  \* bound: MaxMsgs[c] is how many messages client c sends

Server == -1
Ids == Clients \cup {Server}

ASSUME ClientsAssumption == Clients \subseteq Nat /\ IsFiniteSet(Clients)
ASSUME BoundsAssumption == MaxMsgs \in [Clients -> Nat]

VARIABLES
    clock,      \* clock[p]: the ClockVal of a client or of the server
    sending,    \* sending[c]: what c's Send has not sent yet, in order
    forwarder,  \* forwarder[c]: the messages, at most one, that c's forwarder holds
    relay,      \* what the server relays: [to, msg], `to' the clients still to be sent to
    offered,    \* the clients, at most one, that the server is blocked on
    state,      \* state[p]: a client is "run" or "closed" (its SendChan), its forwarder
                \* then ends; the server is "run", "quitting" or "quit"
    forwards,   \* the clients whose forwarder still runs (clientWg)
    recvd,      \* recvd[c]: RecvdMsgs
    sentAt,     \* history: sentAt[c][k] is the clock with which c stamped its k-th message
    accepted    \* history: accepted[c] is the number of the last of c's messages accepted

clientVars == <<sending, forwarder, recvd, sentAt>>
serverVars == <<relay, offered, accepted>>
vars == <<clock, clientVars, serverVars, state, forwards>>

ClockVal == [Ids -> Nat]
NewClockVal == [p \in Ids |-> 0]
Increment(v, p) == [v EXCEPT ![p] = @ + 1]
MaxClockValue(v, w) == [p \in Ids |-> IF v[p] > w[p] THEN v[p] ELSE w[p]]

\* 1 if v is strictly later than w, -1 if it is strictly earlier, 0 if neither.  The code
\* looks at the entries in any order and returns 0 at the first that contradicts.
Compare(v, w) ==
    LET above == \E p \in Ids : v[p] > w[p]
        below == \E p \in Ids : v[p] < w[p]
    IN  IF above /\ ~below THEN 1 ELSE IF below /\ ~above THEN -1 ELSE 0

\* Mutant: everybody counts for the server.
ReceivedByServer(v, ts, p) == Increment(MaxClockValue(v, ts), Server)

\* The clock v of p when it has received a message stamped ts.
Received(v, ts, p) == Increment(MaxClockValue(v, ts), p)

Message(c, k, ts) == [src |-> c, number |-> k, ts |-> ts]
Nothing == [to |-> {}, msg |-> Message(Server, 0, NewClockVal)]

Init ==
    /\ clock = [p \in Ids |-> NewClockVal]
    /\ sending = [c \in Clients |-> <<>>]
    /\ forwarder = [c \in Clients |-> <<>>]
    /\ relay = Nothing /\ offered = {}
    /\ state = [p \in Ids |-> "run"]
    /\ forwards = Clients
    /\ recvd = [c \in Clients |-> <<>>]
    /\ sentAt = [c \in Clients |-> <<>>]
    /\ accepted = [c \in Clients |-> 0]

IsMessage(m) == m.src \in Clients /\ m.number \in 1..MaxMsgs[m.src] /\ m.ts \in ClockVal

TypeOK ==
    /\ clock \in [Ids -> ClockVal]
    /\ \A c \in Clients :
        /\ Len(sending[c]) <= 2 /\ Len(forwarder[c]) <= 1
        /\ \A m \in ToSet(sending[c] \o forwarder[c] \o recvd[c]) : IsMessage(m)
        /\ sentAt[c] \in Seq(ClockVal) /\ Len(sentAt[c]) <= MaxMsgs[c]
        /\ accepted[c] \in 0..Len(sentAt[c])
        /\ state[c] \in {"run", "closed"}
    /\ offered \subseteq relay.to /\ relay.to \subseteq Clients /\ Cardinality(offered) <= 1
    /\ relay.to # {} => IsMessage(relay.msg)
    /\ state[Server] \in {"run", "quitting", "quit"}
    /\ forwards \subseteq Clients

-----------------------------------------------------------------------------
(* Clients *)

\* Run is at its select, and not in a Send.
Selecting(c) == state[c] = "run" /\ sending[c] = <<>>

\* The ticker: one message.
Send(c) ==
    LET v == Increment(clock[c], c)
        k == Len(sentAt[c]) + 1
    IN  /\ Selecting(c) /\ k <= MaxMsgs[c]
        /\ clock' = [clock EXCEPT ![c] = v]
        /\ sentAt' = [sentAt EXCEPT ![c] = Append(@, v)]
        /\ sending' = [sending EXCEPT ![c] = <<Message(c, k, v)>>]
        /\ UNCHANGED <<forwarder, recvd, serverVars, state, forwards>>

\* The ticker, with a simulated causality violation: two messages, the later one first.
SendTwo(c) ==
    LET v1 == Increment(clock[c], c)
        v2 == Increment(v1, c)
        k == Len(sentAt[c]) + 1
    IN  /\ Selecting(c) /\ k + 1 <= MaxMsgs[c]
        /\ clock' = [clock EXCEPT ![c] = v2]
        /\ sentAt' = [sentAt EXCEPT ![c] = @ \o <<v1, v2>>]
        /\ sending' = [sending EXCEPT ![c] = <<Message(c, k + 1, v2), Message(c, k, v1)>>]
        /\ UNCHANGED <<forwarder, recvd, serverVars, state, forwards>>

\* Mutant: the forwarder holds any number of messages.
ForwarderRuns(c) == c \in forwards

\* Mutant: the forwarder has no loop.
ForwarderOnce(c) == c \in forwards /\ forwarder[c] = <<>> /\ accepted[c] = 0

ForwarderFree(c) == c \in forwards /\ forwarder[c] = <<>>

\* The forwarder takes a message from the client's channel.
Forward(c) ==
    /\ sending[c] # <<>> /\ ForwarderFree(c)
    /\ forwarder' = [forwarder EXCEPT ![c] = Append(@, Head(sending[c]))]
    /\ sending' = [sending EXCEPT ![c] = Tail(@)]
    /\ UNCHANGED <<clock, recvd, sentAt, serverVars, state, forwards>>

\* Handle: the message the server is blocked on.  Compare is at most 1, so the client never
\* drops one.
ClientDrops(c, m) == Compare(clock[c], m.ts) > 1

RelayLeft(c) == IF relay.to = {c} THEN Nothing ELSE [relay EXCEPT !.to = @ \ {c}]

ClientHandle(c) ==
    /\ c \in offered /\ Selecting(c)
    /\ IF ClientDrops(c, relay.msg) THEN UNCHANGED <<clock, recvd>>
       ELSE /\ clock' = [clock EXCEPT ![c] = Received(@, relay.msg.ts, c)]
            /\ recvd' = [recvd EXCEPT ![c] = Append(@, relay.msg)]
    /\ offered' = {}
    /\ relay' = RelayLeft(c)
    /\ UNCHANGED <<sending, forwarder, sentAt, accepted, state, forwards>>

-----------------------------------------------------------------------------
(* The server *)

ServerSelects == state[Server] = "run" /\ relay.to = {}

\* Mutant: the server drops nothing.
ServerNeverDrops(m) == FALSE

\* Mutant: it drops what is not later than its own clock.
ServerDropsUnlessLater(m) == Compare(clock[Server], m.ts) # -1

\* The clock of the message is strictly earlier than the server's.
ServerDrops(m) == Compare(clock[Server], m.ts) = 1

ServerHandle(c) ==
    /\ ServerSelects /\ forwarder[c] # <<>>
    /\ forwarder' = [forwarder EXCEPT ![c] = <<>>]
    /\ LET m == forwarder[c][1] IN
        \/ /\ ServerDrops(m)
           /\ UNCHANGED <<clock, accepted, relay>>
        \/ /\ ~ServerDrops(m)
           /\ clock' = [clock EXCEPT ![Server] = Received(@, m.ts, Server)]
           /\ accepted' = [accepted EXCEPT ![c] = m.number]
           /\ \/ UNCHANGED relay  \* the random drop
              \/ relay' = IF Clients = {c} THEN Nothing ELSE [to |-> Clients \ {c}, msg |-> m]
    /\ UNCHANGED <<sending, recvd, sentAt, offered, state, forwards>>

\* Send to the next client, in the order of a map: stamp the message, then block.
ServerSend(c) ==
    /\ c \in relay.to /\ offered = {}
    /\ offered' = {c}
    /\ clock' = [clock EXCEPT ![Server] = Increment(@, Server)]
    /\ relay' = [relay EXCEPT !.msg.ts = clock'[Server]]
    /\ UNCHANGED <<clientVars, accepted, state, forwards>>

-----------------------------------------------------------------------------
(* Shutdown *)

\* main's quit message is taken: the server closes the clients' channels and waits.
QuitReceived ==
    /\ ServerSelects
    /\ state' = [state EXCEPT ![Server] = "quitting"]
    /\ UNCHANGED <<clock, clientVars, serverVars, forwards>>

ClientReturns(c) ==
    /\ state[Server] # "run" /\ Selecting(c)
    /\ state' = [state EXCEPT ![c] = "closed"]
    /\ UNCHANGED <<clock, clientVars, serverVars, forwards>>

ForwarderReturns(c) ==
    /\ c \in forwards /\ state[c] = "closed" /\ forwarder[c] = <<>>
    /\ forwards' = forwards \ {c}
    /\ UNCHANGED <<clock, clientVars, serverVars, state>>

ServerReturns ==
    /\ state[Server] = "quitting" /\ forwards = {}
    /\ state' = [state EXCEPT ![Server] = "quit"]
    /\ UNCHANGED <<clock, clientVars, serverVars, forwards>>

Next ==
    \/ \E c \in Clients : \/ Send(c) \/ SendTwo(c) \/ Forward(c) \/ ClientHandle(c)
                          \/ ServerHandle(c) \/ ServerSend(c)
                          \/ ClientReturns(c) \/ ForwarderReturns(c)
    \/ QuitReceived
    \/ ServerReturns

\* Goroutines that can run do; nobody need send, and the server need not be told to quit.
Fairness ==
    /\ \A c \in Clients : /\ WF_vars(Forward(c)) /\ WF_vars(ClientHandle(c))
                          /\ WF_vars(ServerHandle(c)) /\ WF_vars(ClientReturns(c))
                          /\ WF_vars(ForwarderReturns(c))
    /\ WF_vars(\E c \in Clients : ServerSend(c))
    /\ WF_vars(ServerReturns)

Spec == Init /\ [][Next]_vars
FairSpec == Spec /\ Fairness

-----------------------------------------------------------------------------
(* Properties *)

\* The clock with which its sender stamped a message, before the server stamped it again.
Origin(m) == sentAt[m.src][m.number]

\* No client receives a message after one that its sender could have reacted to: the order
\* of reception never contradicts the order of the senders' vector clocks.
CausalDelivery ==
    \A c \in Clients : \A i, j \in DOMAIN recvd[c] :
        i < j => Compare(Origin(recvd[c][j]), Origin(recvd[c][i])) # -1

\* Nobody knows more of a clock than its owner.
NoClockIsAhead == \A p, q \in Ids : clock[p][q] <= clock[q][q]

\* The server's comparison of clocks finds the overtaken messages, and only these: it drops
\* a message if and only if a later one of the same client was accepted before.
DropsTheOvertaken ==
    [][\A c \in Clients :
        forwarder[c] # <<>> /\ forwarder'[c] = <<>> =>
            (accepted'[c] = accepted[c] <=> forwarder[c][1].number < accepted[c])]_vars

\* The server gets stuck in a broadcast only on a client that is sending a message while its
\* forwarder holds one that the server has not taken.
Stuck(c) == c \in offered /\ sending[c] # <<>> /\ forwarder[c] # <<>>

BroadcastEnds == relay.to # {} ~> (relay.to = {} \/ \E c \in Clients : Stuck(c))

\* "To safely exit, press ENTER" (README.md): a server that is told to quit does.  It may
\* not, and no run checks this; see the README.
ServerQuits == state[Server] = "quitting" ~> state[Server] = "quit"
=============================================================================
