------------------------------ MODULE IvyBasic ------------------------------
(***************************************************************************)
(* The basic Ivy protocol (hw3/IvyBasic): nodes cache pages, a central     *)
(* manager (CM) serves one request at a time and keeps, per page, its      *)
(* owner and its copy set.                                                 *)
(*                                                                         *)
(* Goroutines.  For every node n and page p, the client goroutine that is  *)
(* inside ClientRead or ClientWrite (`cpc'); it holds pageLock of p at n   *)
(* exactly while cpc[n][p] # "idle".  For every node n, its Listen         *)
(* goroutine (`lpc').  At the CM, the sequential RequestHandler (`hpc');   *)
(* the CM's Listen goroutine is always ready to receive, so it has no pc.  *)
(* Go channels here are unbuffered: a send and its receive are one step,   *)
(* and a send to a node waits until that node's Listen is idle.            *)
(*                                                                         *)
(* Data.  The value of a page is the version number of the write that      *)
(* produced it, in the order of the assignments to page.Data; version 0 is *)
(* the empty string of a new page.                                         *)
(***************************************************************************)
EXTENDS Integers, FiniteSets

CONSTANTS
    Nodes,    \* the node identifiers
    Pages,    \* the page identifiers
    NoNode,   \* InvalidNodeId
    NoPage,   \* InvalidPageId
    MaxOps    \* bound: operations a node's clients start in one behaviour

ASSUME NodesAssumption == IsFiniteSet(Nodes) /\ NoNode \notin Nodes
ASSUME PagesAssumption == NoPage \notin Pages
ASSUME MaxOpsAssumption == MaxOps \in Nat

VARIABLES
    access,         \* access[n][p]: CachedPage.access
    data,           \* data[n][p]: CachedPage.page.Data
    incoming,       \* incoming[n]: incomingPageMsg of node n
    cpc, cop,       \* client goroutine of n on p: its place and its operation
    lpc, lmsg,      \* Listen goroutine of n: its place and the message it handles
    requests,       \* RQs and WQs in goroutines blocked on requestChan
    confirmations,  \* confirmations[n]: the type of n's last RC, WC or IC
    hpc, req,       \* RequestHandler: its place and the request it serves
    uninvalidated,  \* members of the copy set its IV loop has yet to reach
    owner, copySet, \* pageRecords
    panic,          \* which panic stopped the program, "none" while it runs
    started,        \* operations started by each node (bound)
    latest,         \* latest[p]: version of the last write to p by any client
    floor           \* floor[n][p]: latest[p] when n's current operation began

nodeVars   == <<access, data, incoming>>
clientVars == <<cpc, cop, started, floor>>
listenVars == <<lpc, lmsg>>
cmVars     == <<requests, confirmations, hpc, req, uninvalidated, owner, copySet>>
vars       == <<nodeVars, clientVars, listenVars, cmVars, panic, latest>>

Invalid   == "INVALID"
ReadOnly  == "READONLY"
ReadWrite == "READWRITE"
Access    == {Invalid, ReadOnly, ReadWrite}

Torn == -1   \* a string read while another goroutine assigns it

Request == [kind : {"read", "write"}, node : Nodes, page : Pages]
PageMsg == [type : {"RP", "WP", "WI"}, page : Pages, data : Int]
Forward == [type : {"RF", "WF", "IV"}, node : Nodes, page : Pages, data : Int]

NoPageMsg == [type |-> "INVALID", page |-> NoPage, data |-> 0]
NoForward == [type |-> "INVALID", node |-> NoNode, page |-> NoPage, data |-> 0]
NoRequest == [kind |-> "INVALID", node |-> NoNode, page |-> NoPage]

\* The panics of this code that the protocol could reach.
Panic == {"OwnerReads", "NoOwner", "ForwardForInvalidPage", "WriteInitForOtherPage",
          "NotReadConfirm", "TooManyInvalidateConfirms"}

TypeOK ==
    /\ access \in [Nodes -> [Pages -> Access]]
    /\ data \in [Nodes -> [Pages -> Int]]
    /\ incoming \in [Nodes -> PageMsg \cup {NoPageMsg}]
    /\ cpc \in [Nodes -> [Pages -> {"idle", "request", "invalidate", "wait", "confirm", "finish"}]]
    /\ cop \in [Nodes -> [Pages -> {"read", "write"}]]
    /\ lpc \in [Nodes -> {"idle", "lock", "apply", "reply"}]
    /\ lmsg \in [Nodes -> Forward \cup {NoForward}]
    /\ \A n \in Nodes : lpc[n] # "idle" => lmsg[n] \in Forward
    /\ requests \in SUBSET Request
    /\ confirmations \in [Nodes -> {"none", "RC", "WC", "IC"}]
    /\ hpc \in {"idle", "invalidate", "waitIC", "forward", "waitRC", "waitWC"}
    /\ req \in Request \cup {NoRequest}
    /\ hpc # "idle" => req \in Request
    /\ uninvalidated \in SUBSET Nodes
    /\ owner \in [Pages -> Nodes \cup {NoNode}]
    /\ copySet \in [Pages -> SUBSET Nodes]
    /\ panic \in Panic \cup {"none"}
    /\ started \in [Nodes -> 0..MaxOps]
    /\ latest \in [Pages -> Nat]
    /\ floor \in [Nodes -> [Pages -> Nat]]

Init ==
    /\ access = [n \in Nodes |-> [p \in Pages |-> Invalid]]
    /\ data = [n \in Nodes |-> [p \in Pages |-> 0]]
    /\ incoming = [n \in Nodes |-> NoPageMsg]
    /\ cpc = [n \in Nodes |-> [p \in Pages |-> "idle"]]
    /\ cop = [n \in Nodes |-> [p \in Pages |-> "read"]]
    /\ lpc = [n \in Nodes |-> "idle"]
    /\ lmsg = [n \in Nodes |-> NoForward]
    /\ requests = {}
    /\ confirmations = [n \in Nodes |-> "none"]
    /\ hpc = "idle"
    /\ req = NoRequest
    /\ uninvalidated = {}
    /\ owner = [p \in Pages |-> NoNode]
    /\ copySet = [p \in Pages |-> {}]
    /\ panic = "none"
    /\ started = [n \in Nodes |-> 0]
    /\ latest = [p \in Pages |-> 0]
    /\ floor = [n \in Nodes |-> [p \in Pages |-> 0]]

-----------------------------------------------------------------------------
(***************************************************************************)
(* Clients.                                                                *)
(***************************************************************************)

\* Mutant: reads hit on READONLY copies only.
ReadHitsReadOnly(n, p, kind) ==
    access[n][p] = IF kind = "read" THEN ReadOnly ELSE ReadWrite

\* getCachedPage: a read hits on any valid copy, a write only on READWRITE.
CacheHit(n, p, kind) ==
    IF kind = "read" THEN access[n][p] # Invalid ELSE access[n][p] = ReadWrite

\* Take pageLock and look the page up; on a miss, reset incomingPageMsg.
Begin(n, p, kind) ==
    /\ cpc[n][p] = "idle"
    /\ started[n] < MaxOps
    /\ started' = [started EXCEPT ![n] = @ + 1]
    /\ cop' = [cop EXCEPT ![n][p] = kind]
    /\ floor' = [floor EXCEPT ![n][p] = latest[p]]
    /\ cpc' = [cpc EXCEPT ![n][p] = IF CacheHit(n, p, kind) THEN "finish" ELSE "request"]
    /\ incoming' = [incoming EXCEPT ![n] = IF CacheHit(n, p, kind) THEN @ ELSE NoPageMsg]
    /\ UNCHANGED <<access, data, listenVars, cmVars, panic, latest>>

ClientRead(n, p)  == Begin(n, p, "read")
ClientWrite(n, p) == Begin(n, p, "write")

\* Send RQ or WQ; the CM's Listen starts a goroutine that offers it to the handler.
SendRequest(n, p) ==
    /\ cpc[n][p] = "request"
    /\ requests' = requests \cup {[kind |-> cop[n][p], node |-> n, page |-> p]}
    /\ cpc' = [cpc EXCEPT ![n][p] = IF cop[n][p] = "write" THEN "invalidate" ELSE "wait"]
    /\ UNCHANGED <<nodeVars, cop, started, floor, listenVars, confirmations, hpc, req,
                   uninvalidated, owner, copySet, panic, latest>>

\* Step 1.5 of RequestWrite: the writer invalidates its own copy after sending WQ.
InvalidateOwn(n, p) ==
    /\ cpc[n][p] = "invalidate"
    /\ access' = [access EXCEPT ![n][p] = Invalid]
    /\ cpc' = [cpc EXCEPT ![n][p] = "wait"]
    /\ UNCHANGED <<data, incoming, cop, started, floor, listenVars, cmVars, panic, latest>>

\* The page the operation waits for is in incomingPageMsg: store it.
StorePage(n, p) ==
    LET msg == incoming[n] IN
    /\ cpc[n][p] = "wait"
    /\ msg.page = p
    /\ IF cop[n][p] = "read" THEN msg.type = "RP" ELSE msg.type \in {"WP", "WI"}
    /\ access' = [access EXCEPT ![n][p] = IF cop[n][p] = "read" THEN ReadOnly ELSE ReadWrite]
    /\ data' = [data EXCEPT ![n][p] = msg.data]
    /\ cpc' = [cpc EXCEPT ![n][p] = "confirm"]
    /\ UNCHANGED <<incoming, cop, started, floor, listenVars, cmVars, panic, latest>>

\* A write that waits for one page panics on the WI of another.
WriteInitForOtherPage(n, p) ==
    /\ cpc[n][p] = "wait"
    /\ cop[n][p] = "write"
    /\ incoming[n].type = "WI"
    /\ incoming[n].page # p
    /\ panic' = "WriteInitForOtherPage"
    /\ UNCHANGED <<nodeVars, clientVars, listenVars, cmVars, latest>>

\* Mutant: every operation confirms with an RC.
ConfirmAsRead(n, p) ==
    /\ cpc[n][p] = "confirm"
    /\ confirmations' = [confirmations EXCEPT ![n] = "RC"]
    /\ cpc' = [cpc EXCEPT ![n][p] = "finish"]
    /\ UNCHANGED <<nodeVars, cop, started, floor, listenVars, requests, hpc, req,
                   uninvalidated, owner, copySet, panic, latest>>

\* Send RC or WC; the CM's Listen files it under the sender.
SendConfirm(n, p) ==
    /\ cpc[n][p] = "confirm"
    /\ confirmations' = [confirmations EXCEPT ![n] = IF cop[n][p] = "read" THEN "RC" ELSE "WC"]
    /\ cpc' = [cpc EXCEPT ![n][p] = "finish"]
    /\ UNCHANGED <<nodeVars, cop, started, floor, listenVars, requests, hpc, req,
                   uninvalidated, owner, copySet, panic, latest>>

\* The rest of ClientRead: read page.Data, release pageLock.
FinishRead(n, p) ==
    /\ cpc[n][p] = "finish"
    /\ cop[n][p] = "read"
    /\ cpc' = [cpc EXCEPT ![n][p] = "idle"]
    /\ UNCHANGED <<nodeVars, cop, started, floor, listenVars, cmVars, panic, latest>>

\* The rest of ClientWrite: assign page.Data, release pageLock.
FinishWrite(n, p) ==
    /\ cpc[n][p] = "finish"
    /\ cop[n][p] = "write"
    /\ latest' = [latest EXCEPT ![p] = @ + 1]
    /\ data' = [data EXCEPT ![n][p] = latest[p] + 1]
    /\ cpc' = [cpc EXCEPT ![n][p] = "idle"]
    /\ UNCHANGED <<access, incoming, cop, started, floor, listenVars, cmVars, panic>>

-----------------------------------------------------------------------------
(***************************************************************************)
(* The Listen goroutine of a node: recvReadForward, recvWriteForward and   *)
(* recvInvalidate.                                                         *)
(***************************************************************************)

\* Lock() then Unlock(): wait until no client holds the page, and keep nothing.
PassPageLock(n) ==
    /\ lpc[n] = "lock"
    /\ cpc[n][lmsg[n].page] = "idle"
    /\ lpc' = [lpc EXCEPT ![n] = "apply"]
    /\ UNCHANGED <<nodeVars, clientVars, lmsg, cmVars, panic, latest>>

\* What a read of page.Data may return: a client past its lookup may be assigning it.
ReadableData(n, p) ==
    {data[n][p]} \cup {v \in {Torn} : cpc[n][p] = "finish" /\ cop[n][p] = "write"}

\* Mutant: a WF leaves the old owner a READONLY copy.
KeepReadOnly(n) ==
    LET p == lmsg[n].page IN
    /\ lpc[n] = "apply"
    /\ access' = [access EXCEPT ![n][p] = IF lmsg[n].type = "IV" THEN Invalid ELSE ReadOnly]
    /\ \E v \in ReadableData(n, p) : lmsg' = [lmsg EXCEPT ![n].data = v]
    /\ lpc' = [lpc EXCEPT ![n] = "reply"]
    /\ UNCHANGED <<data, incoming, clientVars, cmVars, panic, latest>>

\* Change the access and read the data to send.
ApplyForward(n) ==
    LET p == lmsg[n].page IN
    /\ lpc[n] = "apply"
    /\ access' = [access EXCEPT ![n][p] = IF lmsg[n].type = "RF" THEN ReadOnly ELSE Invalid]
    /\ \E v \in ReadableData(n, p) : lmsg' = [lmsg EXCEPT ![n].data = v]
    /\ lpc' = [lpc EXCEPT ![n] = "reply"]
    /\ UNCHANGED <<data, incoming, clientVars, cmVars, panic, latest>>

\* Send RP or WP to the requester, once its Listen can receive.
SendPage(n) ==
    LET msg == lmsg[n] IN
    /\ lpc[n] = "reply"
    /\ msg.type \in {"RF", "WF"}
    /\ lpc[msg.node] = "idle"
    /\ incoming' = [incoming EXCEPT ![msg.node] =
           [type |-> IF msg.type = "RF" THEN "RP" ELSE "WP", page |-> msg.page, data |-> msg.data]]
    /\ lpc' = [lpc EXCEPT ![n] = "idle"]
    /\ lmsg' = [lmsg EXCEPT ![n] = NoForward]
    /\ UNCHANGED <<access, data, clientVars, cmVars, panic, latest>>

\* Send IC to the CM.
SendInvalidateConfirm(n) ==
    /\ lpc[n] = "reply"
    /\ lmsg[n].type = "IV"
    /\ confirmations' = [confirmations EXCEPT ![n] = "IC"]
    /\ lpc' = [lpc EXCEPT ![n] = "idle"]
    /\ lmsg' = [lmsg EXCEPT ![n] = NoForward]
    /\ UNCHANGED <<nodeVars, clientVars, requests, hpc, req, uninvalidated, owner,
                   copySet, panic, latest>>

-----------------------------------------------------------------------------
(***************************************************************************)
(* The CM's RequestHandler.                                                *)
(***************************************************************************)

NoConfirmations == [n \in Nodes |-> "none"]

\* recvReadRequest up to its send: reset confirmations, extend the copy set.
RecvReadRequest(r) ==
    /\ hpc = "idle"
    /\ r.kind = "read"
    /\ requests' = requests \ {r}
    /\ req' = r
    /\ confirmations' = NoConfirmations
    /\ IF r.node = owner[r.page]
       THEN panic' = "OwnerReads" /\ UNCHANGED <<hpc, copySet>>
       ELSE /\ copySet' = [copySet EXCEPT ![r.page] = @ \cup {r.node}]
            /\ IF owner[r.page] = NoNode
               THEN panic' = "NoOwner" /\ UNCHANGED hpc
               ELSE hpc' = "forward" /\ UNCHANGED panic
    /\ UNCHANGED <<nodeVars, clientVars, listenVars, uninvalidated, owner, latest>>

\* recvWriteRequest up to its loop over the copy set.
RecvWriteRequest(r) ==
    /\ hpc = "idle"
    /\ r.kind = "write"
    /\ requests' = requests \ {r}
    /\ req' = r
    /\ confirmations' = NoConfirmations
    /\ uninvalidated' = copySet[r.page]
    /\ hpc' = "invalidate"
    /\ UNCHANGED <<nodeVars, clientVars, listenVars, owner, copySet, panic, latest>>

\* The handler's message reaches the idle Listen of m; an RF or WF for an invalid page panics.
Deliver(m, type) ==
    /\ lpc[m] = "idle"
    /\ lmsg' = [lmsg EXCEPT ![m] =
           [type |-> type, node |-> req.node, page |-> req.page, data |-> 0]]
    /\ IF type # "IV" /\ access[m][req.page] = Invalid
       THEN panic' = "ForwardForInvalidPage" /\ UNCHANGED lpc
       ELSE /\ lpc' = [lpc EXCEPT ![m] = IF type = "IV" /\ m = req.node THEN "reply" ELSE "lock"]
            /\ UNCHANGED panic

\* One iteration of the loop that sends IV to the copy set.
SendInvalidate(m) ==
    /\ hpc = "invalidate"
    /\ m \in uninvalidated
    /\ Deliver(m, "IV")
    /\ uninvalidated' = uninvalidated \ {m}
    /\ UNCHANGED <<nodeVars, clientVars, requests, confirmations, hpc, req, owner, copySet, latest>>

\* The loop is over: start counting ICs.
AllInvalidatesSent ==
    /\ hpc = "invalidate"
    /\ uninvalidated = {}
    /\ hpc' = "waitIC"
    /\ UNCHANGED <<nodeVars, clientVars, listenVars, requests, confirmations, req,
                   uninvalidated, owner, copySet, panic, latest>>

Invalidated == {n \in Nodes : confirmations[n] = "IC"}

\* Mutant: forward the request without waiting for the ICs.
ForwardAtOnce ==
    /\ hpc = "waitIC"
    /\ hpc' = "forward"
    /\ UNCHANGED <<nodeVars, clientVars, listenVars, requests, confirmations, req,
                   uninvalidated, owner, copySet, panic, latest>>

\* Enough ICs have arrived. Without copies there is no loop that could panic.
AllInvalidatesConfirmed ==
    LET received == Cardinality(Invalidated)
        expected == Cardinality(copySet[req.page])
    IN  /\ hpc = "waitIC"
        /\ received >= expected
        /\ IF received > expected /\ expected > 0
           THEN panic' = "TooManyInvalidateConfirms" /\ UNCHANGED hpc
           ELSE hpc' = "forward" /\ UNCHANGED panic
        /\ UNCHANGED <<nodeVars, clientVars, listenVars, requests, confirmations, req,
                       uninvalidated, owner, copySet, latest>>

\* RF to the owner.
SendReadForward ==
    /\ hpc = "forward"
    /\ req.kind = "read"
    /\ owner[req.page] # NoNode
    /\ Deliver(owner[req.page], "RF")
    /\ hpc' = "waitRC"
    /\ UNCHANGED <<nodeVars, clientVars, requests, confirmations, req, uninvalidated, owner,
                   copySet, latest>>

\* WF to the owner.
SendWriteForward ==
    /\ hpc = "forward"
    /\ req.kind = "write"
    /\ owner[req.page] # NoNode
    /\ Deliver(owner[req.page], "WF")
    /\ hpc' = "waitWC"
    /\ UNCHANGED <<nodeVars, clientVars, requests, confirmations, req, uninvalidated, owner,
                   copySet, latest>>

\* Mutant: the WI does not name its page.
WriteInitWithoutPage ==
    /\ hpc = "forward"
    /\ req.kind = "write"
    /\ owner[req.page] = NoNode
    /\ lpc[req.node] = "idle"
    /\ incoming' = [incoming EXCEPT ![req.node] = [type |-> "WI", page |-> NoPage, data |-> 0]]
    /\ hpc' = "waitWC"
    /\ UNCHANGED <<access, data, clientVars, listenVars, requests, confirmations, req,
                   uninvalidated, owner, copySet, panic, latest>>

\* WI to the writer of a page that has no owner.
SendWriteInit ==
    /\ hpc = "forward"
    /\ req.kind = "write"
    /\ owner[req.page] = NoNode
    /\ lpc[req.node] = "idle"
    /\ incoming' = [incoming EXCEPT ![req.node] = [type |-> "WI", page |-> req.page, data |-> 0]]
    /\ hpc' = "waitWC"
    /\ UNCHANGED <<access, data, clientVars, listenVars, requests, confirmations, req,
                   uninvalidated, owner, copySet, panic, latest>>

\* A confirmation of the reader ends the request, if it is an RC.
ReadConfirmed ==
    /\ hpc = "waitRC"
    /\ confirmations[req.node] # "none"
    /\ IF confirmations[req.node] = "RC"
       THEN hpc' = "idle" /\ UNCHANGED panic
       ELSE panic' = "NotReadConfirm" /\ UNCHANGED hpc
    /\ UNCHANGED <<nodeVars, clientVars, listenVars, requests, confirmations, req,
                   uninvalidated, owner, copySet, latest>>

\* Mutant: the record keeps its old owner.
ForgetNewOwner ==
    /\ hpc = "waitWC"
    /\ confirmations[req.node] = "WC"
    /\ hpc' = "idle"
    /\ UNCHANGED <<nodeVars, clientVars, listenVars, requests, confirmations, req,
                   uninvalidated, owner, copySet, panic, latest>>

\* The writer's WC makes it the owner. The copy set is kept.
WriteConfirmed ==
    /\ hpc = "waitWC"
    /\ confirmations[req.node] = "WC"
    /\ owner' = [owner EXCEPT ![req.page] = req.node]
    /\ hpc' = "idle"
    /\ UNCHANGED <<nodeVars, clientVars, listenVars, requests, confirmations, req,
                   uninvalidated, copySet, panic, latest>>

-----------------------------------------------------------------------------
ClientStart(n, p) == ClientRead(n, p) \/ ClientWrite(n, p)

ClientStep(n, p) ==
    \/ SendRequest(n, p)
    \/ InvalidateOwn(n, p)
    \/ StorePage(n, p)
    \/ WriteInitForOtherPage(n, p)
    \/ SendConfirm(n, p)
    \/ FinishRead(n, p)
    \/ FinishWrite(n, p)

ListenStep(n) ==
    \/ PassPageLock(n)
    \/ ApplyForward(n)
    \/ SendPage(n)
    \/ SendInvalidateConfirm(n)

HandlerStep ==
    \/ \E r \in requests : RecvReadRequest(r) \/ RecvWriteRequest(r)
    \/ \E m \in Nodes : SendInvalidate(m)
    \/ AllInvalidatesSent
    \/ AllInvalidatesConfirmed
    \/ SendReadForward
    \/ SendWriteForward
    \/ SendWriteInit
    \/ ReadConfirmed
    \/ WriteConfirmed

\* The goroutines of an operation that has started.
Step ==
    \/ \E n \in Nodes, p \in Pages : ClientStep(n, p)
    \/ \E n \in Nodes : ListenStep(n)
    \/ HandlerStep

\* A panic in any goroutine ends the process.
Running == panic = "none"

Next == Running /\ (Step \/ \E n \in Nodes, p \in Pages : ClientStart(n, p))

Spec == Init /\ [][Next]_vars

\* The Go scheduler runs every goroutine that can take a step.
Fairness ==
    /\ \A n \in Nodes, p \in Pages : WF_vars(Running /\ ClientStep(n, p))
    /\ \A n \in Nodes : WF_vars(Running /\ ListenStep(n))
    /\ WF_vars(Running /\ HandlerStep)

-----------------------------------------------------------------------------
(***************************************************************************)
(* Properties that hold for clients that run concurrently on every node.   *)
(***************************************************************************)

\* While a node may write a page, no other node has a valid copy of it, whatever
\* invalidations, forwards and local writes are under way (Node.go, access).
SingleWriter ==
    \A p \in Pages : \A m, n \in Nodes :
        m # n /\ access[m][p] = ReadWrite => access[n][p] = Invalid

\* The CM can reach every valid copy: its node is in the copy set, is the owner, or is
\* the writer whose WC the CM waits for. A copy outside would survive invalidation.
CopiesTracked ==
    \A n \in Nodes, p \in Pages :
        access[n][p] # Invalid =>
            \/ n \in copySet[p]
            \/ n = owner[p]
            \/ hpc = "waitWC" /\ req.node = n /\ req.page = p

\* The handler's own assertions hold: an owner never asks to read its page, nothing but
\* an RC answers the CM while it waits for one, and no IC comes from outside the copy set.
HandlerAssertions ==
    panic \notin {"OwnerReads", "NotReadConfirm", "TooManyInvalidateConfirms"}

\* When the CM hands a page to a new owner, that node still has the READWRITE copy and
\* no other node has any: nothing overtook the WC (Manager.go, recvWriteRequest step 5).
OwnerIsExclusive ==
    [][\A p \in Pages : owner'[p] # owner[p] =>
          \A n \in Nodes : access'[n][p] = IF n = owner'[p] THEN ReadWrite ELSE Invalid]_vars

\* Every change of access is one the abstract specification of page access allows.
PageAccessSpec == INSTANCE PageAccess
ImplementsPageAccess == PageAccessSpec!Spec

(***************************************************************************)
(* Properties that need a workload (module IvyBasicWorkloads) or that the  *)
(* code breaks.                                                            *)
(***************************************************************************)

\* An operation reads a version at least as new as the last write that had been
\* assigned when the operation began, and never a torn string.
ReadsFresh ==
    \A n \in Nodes, p \in Pages :
        cpc[n][p] = "finish" /\ cop[n][p] = "read" => data[n][p] >= floor[n][p]

\* No goroutine panics.
NoPanic == panic = "none"

\* A forward finds a valid page at the owner (the assertions of recvReadForward and
\* recvWriteForward).
OwnerHasPage == panic # "ForwardForInvalidPage"

\* A Listen goroutine never waits for a pageLock whose holder waits for the CM, which
\* waits for this Listen goroutine.
ListenNeverWaitsForRequester ==
    \A n \in Nodes :
        lpc[n] = "lock" => cpc[n][lmsg[n].page] \notin {"invalidate", "wait"}
=============================================================================
