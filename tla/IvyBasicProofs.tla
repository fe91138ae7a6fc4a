--------------------------- MODULE IvyBasicProofs ---------------------------
(***************************************************************************)
(* The proofs about IvyBasic, for every set of nodes and pages and every   *)
(* number of operations:                                                   *)
(*   - it is type-correct, and IInv is inductive; its safety properties    *)
(*     and the assertions of its RequestHandler follow;                    *)
(*   - the client programs of its tests read the latest data and never     *)
(*     panic.                                                              *)
(* One lemma per action; in each, one step per conjunct of the invariant   *)
(* that the action can disturb.                                            *)
(***************************************************************************)
EXTENDS IvyBasicInvariant, IvyBasicWorkloads, FiniteSetTheorems, TLAPS

-----------------------------------------------------------------------------
(***************************************************************************)
(* Type correctness.                                                       *)
(***************************************************************************)

\* The initial state is well typed.
LEMMA TypeInit == Init => TypeOK
  BY MaxOpsAssumption DEF Init, TypeOK, Access, NoPageMsg, NoForward, NoRequest

\* The steps of a client keep the state well typed.
LEMMA TypeClient ==
  ASSUME TypeOK, NEW n \in Nodes, NEW p \in Pages, ClientStart(n, p) \/ ClientStep(n, p)
  PROVE  TypeOK'
<1> USE DEF TypeOK, vars, nodeVars, clientVars, listenVars, cmVars
<1>1. CASE ClientStart(n, p)
  <2>1. PICK kind \in {"read", "write"} : Begin(n, p, kind)
    BY <1>1 DEF ClientStart, ClientRead, ClientWrite
  <2>2. started' \in [Nodes -> 0..MaxOps]
    <3>1. started \in [Nodes -> 0..MaxOps] /\ started[n] < MaxOps
      BY <2>1 DEF Begin
    <3>2. started' = [started EXCEPT ![n] = @ + 1]
      BY <2>1 DEF Begin
    <3> HIDE DEF TypeOK
    <3> QED
      BY <3>1, <3>2, MaxOpsAssumption
  <2>3. incoming' \in [Nodes -> PageMsg \cup {NoPageMsg}]
    BY <2>1 DEF Begin
  <2>4. cpc' \in [Nodes -> [Pages -> {"idle", "request", "invalidate", "wait", "confirm", "finish"}]]
    BY <2>1 DEF Begin
  <2>5. floor' \in [Nodes -> [Pages -> Nat]]
    BY <2>1 DEF Begin
  <2>6. cop' \in [Nodes -> [Pages -> {"read", "write"}]]
    BY <2>1 DEF Begin
  <2>7. UNCHANGED <<access, data, listenVars, cmVars, panic, latest>>
    BY <2>1 DEF Begin
  <2> QED
    BY <2>2, <2>3, <2>4, <2>5, <2>6, <2>7
<1>2. CASE SendRequest(n, p)
  BY <1>2 DEF SendRequest, Request
<1>3. CASE InvalidateOwn(n, p)
  BY <1>3 DEF InvalidateOwn, Access
<1>4. CASE StorePage(n, p)
  BY <1>4 DEF StorePage, Access, PageMsg, NoPageMsg
<1>5. CASE WriteInitForOtherPage(n, p)
  BY <1>5 DEF WriteInitForOtherPage, Panic
<1>6. CASE SendConfirm(n, p)
  BY <1>6 DEF SendConfirm
<1>7. CASE FinishRead(n, p)
  BY <1>7 DEF FinishRead
<1>8. CASE FinishWrite(n, p)
  BY <1>8 DEF FinishWrite
<1> QED
  BY <1>1, <1>2, <1>3, <1>4, <1>5, <1>6, <1>7, <1>8 DEF ClientStep

\* The steps of a node's Listen goroutine keep the state well typed.
LEMMA TypeListen ==
  ASSUME TypeOK, NEW n \in Nodes, ListenStep(n)
  PROVE  TypeOK'
<1> USE DEF TypeOK, vars, nodeVars, clientVars, listenVars, cmVars
<1>1. CASE PassPageLock(n)
  BY <1>1 DEF PassPageLock
<1>2. CASE ApplyForward(n)
  <2>1. lmsg[n] \in Forward /\ lmsg[n].page \in Pages
    BY <1>2 DEF ApplyForward, Forward
  <2>2. access' \in [Nodes -> [Pages -> Access]]
    BY <1>2, <2>1 DEF ApplyForward, Access
  <2>3. PICK v \in ReadableData(n, lmsg[n].page) : lmsg' = [lmsg EXCEPT ![n].data = v]
    BY <1>2 DEF ApplyForward
  <2>4. v \in Int
    BY <2>1, <2>3 DEF ReadableData, Torn
  <2>5. [lmsg[n] EXCEPT !.data = v] \in Forward
    BY <2>1, <2>4 DEF Forward
  <2>6. lmsg' = [lmsg EXCEPT ![n] = [lmsg[n] EXCEPT !.data = v]]
    BY <2>3
  <2>7. /\ lmsg' \in [Nodes -> Forward \cup {NoForward}]
        /\ \A m \in Nodes : lpc'[m] # "idle" => lmsg'[m] \in Forward
    BY <1>2, <2>5, <2>6 DEF ApplyForward
  <2>8. lpc' \in [Nodes -> {"idle", "lock", "apply", "reply"}]
    BY <1>2 DEF ApplyForward
  <2> QED
    BY <1>2, <2>2, <2>7, <2>8 DEF ApplyForward
<1>3. CASE SendPage(n)
  BY <1>3 DEF SendPage, PageMsg, Forward
<1>4. CASE SendInvalidateConfirm(n)
  BY <1>4 DEF SendInvalidateConfirm
<1> QED
  BY <1>1, <1>2, <1>3, <1>4 DEF ListenStep

\* A message of the handler leaves every Listen goroutine well typed.
LEMMA TypeDeliver ==
  ASSUME TypeOK, hpc # "idle", NEW m \in Nodes, NEW type \in {"RF", "WF", "IV"},
         Deliver(m, type)
  PROVE  /\ lpc' \in [Nodes -> {"idle", "lock", "apply", "reply"}]
         /\ lmsg' \in [Nodes -> Forward \cup {NoForward}]
         /\ \A n \in Nodes : lpc'[n] # "idle" => lmsg'[n] \in Forward
         /\ panic' \in Panic \cup {"none"}
<1> DEFINE msg == [type |-> type, node |-> req.node, page |-> req.page, data |-> 0]
<1>1. msg \in Forward
  BY DEF TypeOK, Request, Forward
<1>2. lmsg' = [lmsg EXCEPT ![m] = msg]
  BY DEF Deliver
<1>3. /\ panic' \in {panic, "ForwardForInvalidPage"}
      /\ \/ lpc' = lpc /\ lpc[m] = "idle"
         \/ lpc' = [lpc EXCEPT ![m] = "reply"]
         \/ lpc' = [lpc EXCEPT ![m] = "lock"]
  BY DEF Deliver
<1> HIDE DEF msg
<1>4. lpc \in [Nodes -> {"idle", "lock", "apply", "reply"}]
      /\ lmsg \in [Nodes -> Forward \cup {NoForward}]
      /\ \A n \in Nodes : lpc[n] # "idle" => lmsg[n] \in Forward
  BY DEF TypeOK
<1>5. lpc' \in [Nodes -> {"idle", "lock", "apply", "reply"}]
  BY <1>3, <1>4
<1>6. lmsg' \in [Nodes -> Forward \cup {NoForward}]
  BY <1>1, <1>2, <1>4
<1>7. \A n \in Nodes : lpc'[n] # "idle" => lmsg'[n] \in Forward
  BY <1>1, <1>2, <1>3, <1>4
<1>8. panic' \in Panic \cup {"none"}
  BY <1>3 DEF TypeOK, Panic
<1> QED
  BY <1>5, <1>6, <1>7, <1>8

\* The steps of the RequestHandler keep the state well typed.
LEMMA TypeHandler ==
  ASSUME TypeOK, HandlerStep
  PROVE  TypeOK'
<1> USE DEF TypeOK, vars, nodeVars, clientVars, listenVars, cmVars
<1>1. CASE \E r \in requests : RecvReadRequest(r)
  <2> PICK r \in requests : RecvReadRequest(r)
    BY <1>1
  <2>1. r \in Request /\ r.node \in Nodes /\ r.page \in Pages
    BY DEF Request
  <2>2. requests' \in SUBSET Request /\ req' = r
    BY DEF RecvReadRequest
  <2>3. confirmations' \in [Nodes -> {"none", "RC", "WC", "IC"}]
    BY DEF RecvReadRequest, NoConfirmations
  <2>4. panic' \in Panic \cup {"none"} /\ hpc' \in {"idle", "forward"}
    BY <2>1 DEF RecvReadRequest, Panic
  <2>5. copySet' \in [Pages -> SUBSET Nodes]
    <3>1. copySet \in [Pages -> SUBSET Nodes]
      OBVIOUS
    <3>2. copySet' = copySet \/ copySet' = [copySet EXCEPT ![r.page] = @ \cup {r.node}]
      BY DEF RecvReadRequest
    <3> HIDE DEF TypeOK
    <3> QED
      BY <2>1, <3>1, <3>2
  <2>6. UNCHANGED <<nodeVars, clientVars, listenVars, uninvalidated, owner, latest>>
    BY DEF RecvReadRequest
  <2> QED
    BY <2>1, <2>2, <2>3, <2>4, <2>5, <2>6
<1>2. CASE \E r \in requests : RecvWriteRequest(r)
  BY <1>2 DEF RecvWriteRequest, NoConfirmations, Request
<1>3. CASE \E m \in Nodes : SendInvalidate(m)
  BY <1>3, TypeDeliver DEF SendInvalidate
<1>4. CASE AllInvalidatesSent
  BY <1>4 DEF AllInvalidatesSent
<1>5. CASE AllInvalidatesConfirmed
  BY <1>5 DEF AllInvalidatesConfirmed, Panic
<1>6. CASE SendReadForward
  <2>1. owner[req.page] \in Nodes
    BY <1>6 DEF SendReadForward, Request
  <2> QED
    BY <1>6, <2>1, TypeDeliver DEF SendReadForward
<1>7. CASE SendWriteForward
  <2>1. owner[req.page] \in Nodes
    BY <1>7 DEF SendWriteForward, Request
  <2> QED
    BY <1>7, <2>1, TypeDeliver DEF SendWriteForward
<1>8. CASE SendWriteInit
  BY <1>8 DEF SendWriteInit, Request, PageMsg
<1>9. CASE ReadConfirmed
  BY <1>9 DEF ReadConfirmed, Panic
<1>10. CASE WriteConfirmed
  BY <1>10 DEF WriteConfirmed, Request
<1> QED
  BY <1>1, <1>2, <1>3, <1>4, <1>5, <1>6, <1>7, <1>8, <1>9, <1>10 DEF HandlerStep

\* Every step keeps the state well typed.
LEMMA TypeNext ==
  ASSUME TypeOK, [Next]_vars
  PROVE  TypeOK'
<1>1. CASE UNCHANGED vars
  BY <1>1 DEF TypeOK, vars, nodeVars, clientVars, listenVars, cmVars
<1>2. CASE Next
  BY <1>2, TypeClient, TypeListen, TypeHandler DEF Next, Step
<1> QED
  BY <1>1, <1>2

\* Every variable of the model keeps its type, for every set of nodes and pages.
THEOREM TypeCorrect == Spec => []TypeOK
  BY TypeInit, TypeNext, PTL DEF Spec

-----------------------------------------------------------------------------
(***************************************************************************)
(* What the invariant says of the places of the handler.                   *)
(***************************************************************************)

\* A page is under way only while the handler waits for its confirmation.
LEMMA SentPages ==
  ASSUME TypeOK, Protocol, NEW i \in Nodes, NEW j \in Pages, PageSent(i, j)
  PROVE  /\ Serving(i, j) /\ ListenersIdle
         /\ hpc = "waitRC" => NoWriter(j) /\ i \in copySet[j] /\ confirmations[i] = "none"
         /\ hpc = "waitWC" => OthersInvalid(i, j) /\ confirmations[i] # "WC"
         /\ \/ hpc = "waitRC" /\ incoming[i].type = "RP"
            \/ hpc = "waitWC" /\ incoming[i].type \in {"WP", "WI"}
<1>1. incoming[i] \in PageMsg
  BY PagesAssumption DEF TypeOK, PageSent, NoPageMsg
<1>2. incoming[i].type \in {"RP", "WP", "WI"}
  BY <1>1 DEF PageMsg
<1>3. Serving(i, j) /\ ListenersIdle
  BY DEF Protocol, PageInFlight
<1>4. CASE incoming[i].type = "RP"
  BY <1>3, <1>4 DEF Protocol, ReadPageInFlight
<1>5. CASE incoming[i].type \in {"WP", "WI"}
  BY <1>3, <1>5 DEF Protocol, WritePageInFlight
<1> QED
  BY <1>2, <1>4, <1>5

\* While the handler is at any other place, and while a Listen goroutine is busy, no page
\* is under way and none is stored without being confirmed.
LEMMA NothingSent ==
  ASSUME TypeOK, Protocol, hpc \notin {"waitRC", "waitWC"} \/ ~ListenersIdle
  PROVE  /\ \A i \in Nodes, j \in Pages : ~PageSent(i, j)
         /\ \A i \in Nodes, j \in Pages : cpc[i][j] # "confirm"
<1>1. \A i \in Nodes, j \in Pages : ~PageSent(i, j)
  BY SentPages
<1>2. ASSUME NEW i \in Nodes, NEW j \in Pages, cpc[i][j] = "confirm" PROVE FALSE
  <2>1. cop[i][j] \in {"read", "write"}
    BY DEF TypeOK
  <2> QED
    BY <1>2, <2>1 DEF Protocol, PageStored
<1> QED
  BY <1>1, <1>2

\* While the handler is idle or about to forward, no Listen goroutine is busy.
LEMMA NobodyListens ==
  ASSUME TypeOK, Protocol, hpc \in {"idle", "forward"}
  PROVE  ListenersIdle
<1> SUFFICES ASSUME NEW m \in Nodes, lpc[m] # "idle" PROVE FALSE
  BY DEF ListenersIdle
<1>1. lmsg[m].type \in {"RF", "WF", "IV"}
  BY DEF TypeOK, Forward
<1> QED
  BY <1>1 DEF Protocol, ListenerServes, Serving

\* A step that changes none of these variables keeps the invariant.
LEMMA ProtocolUnchanged ==
  ASSUME Protocol, UNCHANGED <<access, incoming, cpc, cop, listenVars, confirmations, hpc, req,
                               uninvalidated, owner, copySet>>
  PROVE  Protocol'
  BY DEF Protocol, SingleWriter, CopiesTracked, WriterIsOwner, PageInFlight, ReadPageInFlight,
         WritePageInFlight, PageStored, PageConfirmed, ListenerServes, HandlerPhase, PageSent,
         Serving, ListenersIdle, OthersInvalid, NoWriter, Invalidated, listenVars

-----------------------------------------------------------------------------
(***************************************************************************)
(* The steps of a client.                                                  *)
(***************************************************************************)

\* Taking pageLock and looking the page up keeps Protocol.
LEMMA StepBegin ==
  ASSUME TypeOK, Protocol, NEW n \in Nodes, NEW p \in Pages, NEW kind \in {"read", "write"},
         Begin(n, p, kind)
  PROVE  Protocol'
<1> USE DEF Protocol, vars, nodeVars, clientVars, listenVars, cmVars, Invalid, ReadWrite
<1>1. \A i \in Nodes, j \in Pages :
        PageSent(i, j)' => PageSent(i, j) /\ incoming'[i] = incoming[i]
  BY PagesAssumption DEF PageSent, Begin, TypeOK, NoPageMsg
<1>2. UNCHANGED <<access, listenVars, cmVars>>
  BY DEF Begin
<1>3. SingleWriter' /\ CopiesTracked' /\ WriterIsOwner'
  BY <1>2 DEF SingleWriter, CopiesTracked, WriterIsOwner, Serving
<1>4. PageInFlight'
  BY <1>1, <1>2 DEF PageInFlight, Serving, ListenersIdle
<1>5. ReadPageInFlight'
  BY <1>1, <1>2 DEF ReadPageInFlight, NoWriter
<1>6. WritePageInFlight'
  BY <1>1, <1>2 DEF WritePageInFlight, OthersInvalid
<1>7. PageStored'
  BY DEF PageStored, Serving, ListenersIdle, OthersInvalid, Begin, TypeOK
<1>8. PageConfirmed'
  BY DEF PageConfirmed, ListenersIdle, OthersInvalid, Begin, CacheHit, TypeOK, Request
<1>9. ListenerServes'
  BY <1>2 DEF ListenerServes, Serving
<1>10. HandlerPhase'
  BY <1>2 DEF HandlerPhase, Invalidated
<1> QED
  BY <1>3, <1>4, <1>5, <1>6, <1>7, <1>8, <1>9, <1>10

\* A client's RQ or WQ keeps Protocol.
LEMMA StepSendRequest ==
  ASSUME TypeOK, Protocol, NEW n \in Nodes, NEW p \in Pages, SendRequest(n, p)
  PROVE  Protocol'
<1> USE DEF Protocol, vars, nodeVars, clientVars, listenVars, cmVars, Invalid, ReadOnly, ReadWrite
<1>1. \A i \in Nodes, j \in Pages :
        PageSent(i, j)' => PageSent(i, j) /\ incoming'[i] = incoming[i]
  BY DEF PageSent, SendRequest, TypeOK
<1>2. UNCHANGED <<access, incoming, listenVars, confirmations, hpc, req, uninvalidated, owner, copySet>>
  BY DEF SendRequest
<1>3. SingleWriter' /\ CopiesTracked' /\ WriterIsOwner'
  BY <1>2 DEF SingleWriter, CopiesTracked, WriterIsOwner, Serving
<1>4. PageInFlight'
  BY <1>1, <1>2 DEF PageInFlight, Serving, ListenersIdle
<1>5. ReadPageInFlight'
  BY <1>1, <1>2 DEF ReadPageInFlight, NoWriter
<1>6. WritePageInFlight'
  BY <1>1, <1>2 DEF WritePageInFlight, OthersInvalid
<1>7. PageStored'
  BY DEF PageStored, Serving, ListenersIdle, OthersInvalid, SendRequest, TypeOK
<1>8. PageConfirmed'
  BY DEF PageConfirmed, ListenersIdle, OthersInvalid, SendRequest, TypeOK
<1>9. ListenerServes'
  BY <1>2 DEF ListenerServes, Serving
<1>10. HandlerPhase'
  BY <1>2 DEF HandlerPhase, Invalidated
<1> QED
  BY <1>3, <1>4, <1>5, <1>6, <1>7, <1>8, <1>9, <1>10

\* The writer's invalidation of its own copy keeps Protocol.
LEMMA StepInvalidateOwn ==
  ASSUME TypeOK, Protocol, NEW n \in Nodes, NEW p \in Pages, InvalidateOwn(n, p)
  PROVE  Protocol'
<1> USE DEF Protocol, vars, nodeVars, clientVars, listenVars, cmVars, Invalid, ReadOnly, ReadWrite
<1>1. \A i \in Nodes, j \in Pages :
        PageSent(i, j)' => PageSent(i, j) /\ incoming'[i] = incoming[i]
  BY DEF PageSent, InvalidateOwn, TypeOK
<1>2. /\ UNCHANGED <<incoming, listenVars, cmVars>>
      /\ access' = [access EXCEPT ![n][p] = Invalid]
  BY DEF InvalidateOwn
<1>3. SingleWriter' /\ CopiesTracked' /\ WriterIsOwner'
  BY <1>2 DEF SingleWriter, CopiesTracked, WriterIsOwner, Serving, TypeOK
<1>4. PageInFlight'
  BY <1>1, <1>2 DEF PageInFlight, Serving, ListenersIdle
<1>5. ReadPageInFlight'
  BY <1>1, <1>2 DEF ReadPageInFlight, NoWriter, TypeOK
<1>6. WritePageInFlight'
  BY <1>1, <1>2 DEF WritePageInFlight, OthersInvalid, TypeOK
<1>7. PageStored'
  BY DEF PageStored, Serving, ListenersIdle, OthersInvalid, InvalidateOwn, TypeOK
<1>8. PageConfirmed'
  BY DEF PageConfirmed, ListenersIdle, OthersInvalid, InvalidateOwn, TypeOK
<1>9. ListenerServes'
  BY <1>2 DEF ListenerServes, Serving, TypeOK
<1>10. HandlerPhase'
  BY <1>2 DEF HandlerPhase, Invalidated, TypeOK
<1> QED
  BY <1>3, <1>4, <1>5, <1>6, <1>7, <1>8, <1>9, <1>10

\* Storing the page that arrived keeps Protocol: it was sent to this node only.
LEMMA StepStorePage ==
  ASSUME TypeOK, Protocol, NEW n \in Nodes, NEW p \in Pages, StorePage(n, p)
  PROVE  Protocol'
<1> USE DEF Protocol, vars, nodeVars, clientVars, listenVars, cmVars, Invalid, ReadOnly, ReadWrite
<1>1. PageSent(n, p)
  BY DEF PageSent, StorePage
<1>2. /\ Serving(n, p) /\ ListenersIdle
      /\ \/ /\ cop[n][p] = "read" /\ access' = [access EXCEPT ![n][p] = ReadOnly]
            /\ hpc = "waitRC" /\ NoWriter(p) /\ n \in copySet[p] /\ confirmations[n] = "none"
         \/ /\ cop[n][p] = "write" /\ access' = [access EXCEPT ![n][p] = ReadWrite]
            /\ hpc = "waitWC" /\ OthersInvalid(n, p) /\ confirmations[n] # "WC"
  BY <1>1, SentPages DEF StorePage, TypeOK
<1>3. /\ UNCHANGED <<incoming, cop, listenVars, cmVars>>
      /\ cpc' = [cpc EXCEPT ![n][p] = "confirm"]
  BY DEF StorePage
<1>4. /\ \A i \in Nodes, j \in Pages : ~(i = n /\ j = p) => access'[i][j] = access[i][j]
      /\ access'[n][p] = IF cop[n][p] = "read" THEN ReadOnly ELSE ReadWrite
  BY <1>2 DEF TypeOK
<1>5. SingleWriter' /\ CopiesTracked' /\ WriterIsOwner'
  <2>1. SingleWriter'
    BY <1>2, <1>4 DEF SingleWriter, NoWriter, OthersInvalid
  <2>2. CopiesTracked'
    BY <1>2, <1>3, <1>4 DEF CopiesTracked, Serving
  <2>3. WriterIsOwner'
    BY <1>2, <1>3, <1>4 DEF WriterIsOwner, Serving
  <2> QED
    BY <2>1, <2>2, <2>3
<1>6. \A i \in Nodes, j \in Pages : ~PageSent(i, j)'
  <2>1. SUFFICES ASSUME NEW i \in Nodes, NEW j \in Pages, PageSent(i, j)' PROVE FALSE
    OBVIOUS
  <2>2. PageSent(i, j) /\ ~(i = n /\ j = p)
    BY <1>3, <2>1 DEF PageSent, TypeOK
  <2>3. Serving(i, j)
    BY <2>2, SentPages
  <2> QED
    BY <1>2, <2>2, <2>3 DEF Serving
<1>7. PageInFlight' /\ ReadPageInFlight' /\ WritePageInFlight'
  BY <1>6 DEF PageInFlight, ReadPageInFlight, WritePageInFlight
<1>8. PageStored'
  <2>1. \A i \in Nodes, j \in Pages : cpc'[i][j] = "confirm" => i = n /\ j = p
    BY <1>2, <1>3 DEF PageStored, Serving, TypeOK
  <2> QED
    BY <1>2, <1>3, <2>1 DEF PageStored, Serving, ListenersIdle, OthersInvalid, TypeOK
<1>9. PageConfirmed'
  BY <1>2, <1>3 DEF PageConfirmed, Serving, TypeOK
<1>10. ListenerServes'
  BY <1>2, <1>3 DEF ListenerServes, ListenersIdle
<1>11. HandlerPhase'
  BY <1>2, <1>3 DEF HandlerPhase, Serving, Invalidated, TypeOK
<1> QED
  BY <1>5, <1>7, <1>8, <1>9, <1>10, <1>11

\* The panic of RequestWrite changes nothing Protocol speaks of.
LEMMA StepWriteInitForOtherPage ==
  ASSUME TypeOK, Protocol, NEW n \in Nodes, NEW p \in Pages, WriteInitForOtherPage(n, p)
  PROVE  Protocol'
<1> USE DEF Protocol, vars, nodeVars, clientVars, listenVars, cmVars, Invalid, ReadOnly, ReadWrite
<1>1. UNCHANGED <<access, incoming, cpc, cop, listenVars, cmVars>>
  BY DEF WriteInitForOtherPage
<1> QED
  BY <1>1, ProtocolUnchanged

\* A client's RC or WC keeps Protocol: the handler waits for it.
LEMMA StepSendConfirm ==
  ASSUME TypeOK, Protocol, NEW n \in Nodes, NEW p \in Pages, SendConfirm(n, p)
  PROVE  Protocol'
<1> USE DEF Protocol, vars, nodeVars, clientVars, listenVars, cmVars, Invalid, ReadOnly, ReadWrite
<1>1. /\ cpc[n][p] = "confirm" /\ cpc' = [cpc EXCEPT ![n][p] = "finish"]
      /\ confirmations' = [confirmations EXCEPT ![n] = IF cop[n][p] = "read" THEN "RC" ELSE "WC"]
      /\ UNCHANGED <<access, incoming, cop, listenVars, hpc, req, uninvalidated, owner, copySet>>
  BY DEF SendConfirm
<1>2. /\ Serving(n, p) /\ ListenersIdle
      /\ \/ cop[n][p] = "read" /\ hpc = "waitRC"
         \/ /\ cop[n][p] = "write" /\ hpc = "waitWC"
            /\ access[n][p] = ReadWrite /\ OthersInvalid(n, p)
  BY <1>1 DEF PageStored, TypeOK
<1>3. SingleWriter' /\ CopiesTracked' /\ WriterIsOwner'
  BY <1>1 DEF SingleWriter, CopiesTracked, WriterIsOwner, Serving
<1>4. \A i \in Nodes, j \in Pages : ~PageSent(i, j)'
  <2>1. SUFFICES ASSUME NEW i \in Nodes, NEW j \in Pages, PageSent(i, j)' PROVE FALSE
    OBVIOUS
  <2>2. PageSent(i, j) /\ ~(i = n /\ j = p)
    BY <1>1, <2>1 DEF PageSent, TypeOK
  <2>3. Serving(i, j)
    BY <2>2, SentPages
  <2> QED
    BY <1>2, <2>2, <2>3 DEF Serving
<1>5. PageInFlight' /\ ReadPageInFlight' /\ WritePageInFlight'
  BY <1>4 DEF PageInFlight, ReadPageInFlight, WritePageInFlight
<1>6. PageStored'
  <2>1. \A i \in Nodes, j \in Pages : cpc'[i][j] # "confirm"
    BY <1>1, <1>2 DEF PageStored, Serving, TypeOK
  <2> QED
    BY <2>1 DEF PageStored
<1>7. PageConfirmed'
  BY <1>1, <1>2 DEF PageConfirmed, Serving, ListenersIdle, OthersInvalid, TypeOK
<1>8. ListenerServes'
  BY <1>1, <1>2 DEF ListenerServes, ListenersIdle
<1>9. HandlerPhase'
  BY <1>1, <1>2 DEF HandlerPhase, Serving, Invalidated, TypeOK
<1> QED
  BY <1>3, <1>5, <1>6, <1>7, <1>8, <1>9

\* The end of ClientRead keeps Protocol.
LEMMA StepFinishRead ==
  ASSUME TypeOK, Protocol, NEW n \in Nodes, NEW p \in Pages, FinishRead(n, p)
  PROVE  Protocol'
<1> USE DEF Protocol, vars, nodeVars, clientVars, listenVars, cmVars, Invalid, ReadOnly, ReadWrite
<1>1. \A i \in Nodes, j \in Pages :
        PageSent(i, j)' => PageSent(i, j) /\ incoming'[i] = incoming[i]
  BY DEF PageSent, FinishRead, TypeOK
<1>2. UNCHANGED <<access, incoming, listenVars, cmVars>>
  BY DEF FinishRead
<1>3. SingleWriter' /\ CopiesTracked' /\ WriterIsOwner'
  BY <1>2 DEF SingleWriter, CopiesTracked, WriterIsOwner, Serving
<1>4. PageInFlight'
  BY <1>1, <1>2 DEF PageInFlight, Serving, ListenersIdle
<1>5. ReadPageInFlight'
  BY <1>1, <1>2 DEF ReadPageInFlight, NoWriter
<1>6. WritePageInFlight'
  BY <1>1, <1>2 DEF WritePageInFlight, OthersInvalid
<1>7. PageStored'
  BY DEF PageStored, Serving, ListenersIdle, OthersInvalid, FinishRead, TypeOK
<1>8. PageConfirmed'
  BY DEF PageConfirmed, ListenersIdle, OthersInvalid, FinishRead, TypeOK
<1>9. ListenerServes'
  BY <1>2 DEF ListenerServes, Serving
<1>10. HandlerPhase'
  BY <1>2 DEF HandlerPhase, Invalidated
<1> QED
  BY <1>3, <1>4, <1>5, <1>6, <1>7, <1>8, <1>9, <1>10

\* The end of ClientWrite keeps Protocol: it changes data, never access.
LEMMA StepFinishWrite ==
  ASSUME TypeOK, Protocol, NEW n \in Nodes, NEW p \in Pages, FinishWrite(n, p)
  PROVE  Protocol'
<1> USE DEF Protocol, vars, nodeVars, clientVars, listenVars, cmVars, Invalid, ReadOnly, ReadWrite
<1>1. \A i \in Nodes, j \in Pages :
        PageSent(i, j)' => PageSent(i, j) /\ incoming'[i] = incoming[i]
  BY DEF PageSent, FinishWrite, TypeOK
<1>2. UNCHANGED <<access, incoming, listenVars, cmVars>>
  BY DEF FinishWrite
<1>3. SingleWriter' /\ CopiesTracked' /\ WriterIsOwner'
  BY <1>2 DEF SingleWriter, CopiesTracked, WriterIsOwner, Serving
<1>4. PageInFlight'
  BY <1>1, <1>2 DEF PageInFlight, Serving, ListenersIdle
<1>5. ReadPageInFlight'
  BY <1>1, <1>2 DEF ReadPageInFlight, NoWriter
<1>6. WritePageInFlight'
  BY <1>1, <1>2 DEF WritePageInFlight, OthersInvalid
<1>7. PageStored'
  BY DEF PageStored, Serving, ListenersIdle, OthersInvalid, FinishWrite, TypeOK
<1>8. PageConfirmed'
  BY DEF PageConfirmed, ListenersIdle, OthersInvalid, FinishWrite, TypeOK
<1>9. ListenerServes'
  BY <1>2 DEF ListenerServes, Serving
<1>10. HandlerPhase'
  BY <1>2 DEF HandlerPhase, Invalidated
<1> QED
  BY <1>3, <1>4, <1>5, <1>6, <1>7, <1>8, <1>9, <1>10
-----------------------------------------------------------------------------
(***************************************************************************)
(* The steps of a Listen goroutine.                                        *)
(***************************************************************************)

\* A Listen goroutine's Lock() and Unlock() of pageLock keep Protocol.
LEMMA StepPassPageLock ==
  ASSUME TypeOK, Protocol, NEW n \in Nodes, PassPageLock(n)
  PROVE  Protocol'
<1> USE DEF Protocol, vars, nodeVars, clientVars, listenVars, cmVars, Invalid, ReadOnly, ReadWrite
<1>1. /\ UNCHANGED <<access, incoming, cpc, cop, lmsg, cmVars>>
      /\ lpc[n] = "lock" /\ lpc' = [lpc EXCEPT ![n] = "apply"]
  BY DEF PassPageLock
<1>2. ~ListenersIdle
  BY <1>1 DEF ListenersIdle
<1>3. SingleWriter' /\ CopiesTracked' /\ WriterIsOwner'
  BY <1>1 DEF SingleWriter, CopiesTracked, WriterIsOwner, Serving
<1>4. PageInFlight' /\ ReadPageInFlight' /\ WritePageInFlight' /\ PageStored'
  BY <1>1, <1>2, NothingSent DEF PageInFlight, ReadPageInFlight, WritePageInFlight, PageStored, PageSent
<1>5. PageConfirmed'
  BY <1>1, <1>2 DEF PageConfirmed
<1>6. ListenerServes'
  BY <1>1 DEF ListenerServes, Serving, TypeOK
<1>7. HandlerPhase'
  BY <1>1 DEF HandlerPhase, Invalidated
<1> QED
  BY <1>3, <1>4, <1>5, <1>6, <1>7

\* Giving up the copy for an RF, WF or IV keeps Protocol.
LEMMA StepApplyForward ==
  ASSUME TypeOK, Protocol, NEW n \in Nodes, ApplyForward(n)
  PROVE  Protocol'
<1> USE DEF Protocol, vars, nodeVars, clientVars, listenVars, cmVars, Invalid, ReadOnly, ReadWrite
<1> DEFINE p == lmsg[n].page
<1>1. /\ UNCHANGED <<incoming, cpc, cop, cmVars>>
      /\ lpc[n] = "apply" /\ lpc' = [lpc EXCEPT ![n] = "reply"]
  BY DEF ApplyForward
<1>2. ~ListenersIdle
  BY <1>1 DEF ListenersIdle
<1>3. /\ lmsg[n].type \in {"RF", "WF", "IV"} /\ p \in Pages
      /\ req.page = p
  BY <1>1 DEF TypeOK, Forward, ListenerServes, Serving
<1>4. \A m \in Nodes : /\ lmsg'[m].type = lmsg[m].type
                         /\ lmsg'[m].node = lmsg[m].node
                         /\ lmsg'[m].page = lmsg[m].page
  <2>1. PICK v \in ReadableData(n, lmsg[n].page) : lmsg' = [lmsg EXCEPT ![n].data = v]
    BY DEF ApplyForward
  <2>2. lmsg[n] \in Forward
    BY <1>1 DEF TypeOK
  <2>3. lmsg' = [lmsg EXCEPT ![n] = [lmsg[n] EXCEPT !.data = v]]
    BY <2>1
  <2> QED
    BY <2>2, <2>3 DEF TypeOK, Forward
<1>5. /\ \A i \in Nodes, j \in Pages : ~(i = n /\ j = p) => access'[i][j] = access[i][j]
      /\ access'[n][p] = IF lmsg[n].type = "RF" THEN ReadOnly ELSE Invalid
  BY <1>3 DEF ApplyForward, TypeOK
<1>6. lmsg[n].type = "RF" => hpc = "waitRC" /\ n = owner[p]
  BY <1>1, <1>3 DEF ListenerServes
<1> HIDE DEF p
<1>7. SingleWriter'
  BY <1>5, <1>6 DEF SingleWriter, WriterIsOwner
<1>8. CopiesTracked' /\ WriterIsOwner'
  BY <1>1, <1>5, <1>6 DEF CopiesTracked, WriterIsOwner, Serving
<1>9. PageInFlight' /\ ReadPageInFlight' /\ WritePageInFlight' /\ PageStored'
  BY <1>1, <1>2, NothingSent DEF PageInFlight, ReadPageInFlight, WritePageInFlight, PageStored, PageSent
<1>10. PageConfirmed'
  BY <1>1, <1>2 DEF PageConfirmed, ListenersIdle, TypeOK
<1>11. ListenerServes'
  <2>1. lpc'[n] = "reply" /\ \A m \in Nodes : m # n => lpc'[m] = lpc[m]
    BY <1>1 DEF TypeOK
  <2>2. req.page \in Pages /\ \A m \in Nodes : m # n => access'[m][req.page] = access[m][req.page]
    BY <1>3, <1>5
  <2>3. ASSUME NEW m \in Nodes, m # n, lpc'[m] # "idle"
        PROVE  lpc[m] # "idle" /\ access'[m][req.page] = access[m][req.page]
    BY <2>1, <2>2, <2>3
  <2> QED
    BY <1>1, <1>3, <1>4, <1>5, <2>1, <2>3 DEF ListenerServes, Serving
<1>12. HandlerPhase'
  <2>1. ASSUME NEW m \in Nodes, hpc # "waitRC", access[m][req.page] = Invalid
        PROVE  access'[m][req.page] = Invalid
    BY <1>3, <1>5, <1>6, <2>1
  <2>2. UNCHANGED <<confirmations, hpc, req, uninvalidated, owner, copySet>>
    BY <1>1
  <2> QED
    BY <2>1, <2>2 DEF HandlerPhase, Invalidated
<1> QED
  BY <1>7, <1>8, <1>9, <1>10, <1>11, <1>12

\* The RP or WP of the owner keeps Protocol: every other copy is given up.
LEMMA StepSendPage ==
  ASSUME TypeOK, Protocol, NEW n \in Nodes, SendPage(n)
  PROVE  Protocol'
<1> USE DEF Protocol, vars, nodeVars, clientVars, listenVars, cmVars, Invalid, ReadOnly, ReadWrite
<1> DEFINE d == lmsg[n].node  p == lmsg[n].page
<1>1. /\ UNCHANGED <<access, cpc, cop, cmVars>>
      /\ lpc[n] = "reply" /\ lpc' = [lpc EXCEPT ![n] = "idle"]
      /\ lmsg' = [lmsg EXCEPT ![n] = NoForward]
      /\ lmsg[n].type \in {"RF", "WF"}
  BY DEF SendPage
<1>2. /\ ~ListenersIdle
      /\ d \in Nodes /\ p \in Pages /\ Serving(d, p)
      /\ n = owner[p]
      /\ \/ /\ lmsg[n].type = "RF" /\ hpc = "waitRC"
            /\ confirmations[d] = "none" /\ access[n][p] # ReadWrite
         \/ /\ lmsg[n].type = "WF" /\ hpc = "waitWC"
            /\ confirmations[d] # "WC" /\ (n # d => access[n][p] = Invalid)
  BY <1>1 DEF ListenersIdle, ListenerServes, Serving, TypeOK, Forward
<1>3. /\ \A i \in Nodes : i # d => incoming'[i] = incoming[i]
      /\ incoming'[d].type = (IF lmsg[n].type = "RF" THEN "RP" ELSE "WP")
      /\ incoming'[d].page = p
  BY <1>2 DEF SendPage, TypeOK
<1> HIDE DEF d, p
<1>4. ListenersIdle'
  <2>1. \A m \in Nodes : lpc[m] # "idle" => m = n
    BY <1>2 DEF ListenerServes, Serving, TypeOK, Forward
  <2> QED
    BY <1>1, <2>1 DEF ListenersIdle, TypeOK
<1>5. \A i \in Nodes, j \in Pages : PageSent(i, j)' => i = d /\ j = p
  <2> SUFFICES ASSUME NEW i \in Nodes, NEW j \in Pages, PageSent(i, j)', ~(i = d /\ j = p)
               PROVE  FALSE
    OBVIOUS
  <2>1. i # d
    BY <1>3 DEF PageSent
  <2> QED
    BY <1>1, <1>2, <1>3, <2>1, NothingSent DEF PageSent
<1>6. SingleWriter' /\ CopiesTracked' /\ WriterIsOwner'
  BY <1>1 DEF SingleWriter, CopiesTracked, WriterIsOwner, Serving
<1>7. PageInFlight'
  BY <1>1, <1>2, <1>4, <1>5 DEF PageInFlight, Serving
<1>8. ReadPageInFlight'
  <2>1. lmsg[n].type = "RF" => NoWriter(p)
    BY <1>2 DEF WriterIsOwner, NoWriter
  <2>2. lmsg[n].type = "RF" => d \in copySet[p]
    BY <1>2 DEF HandlerPhase, Serving
  <2> QED
    BY <1>1, <1>2, <1>3, <1>5, <2>1, <2>2 DEF ReadPageInFlight, NoWriter
<1>9. WritePageInFlight'
  <2>1. lmsg[n].type = "WF" => OthersInvalid(d, p)
    BY <1>2 DEF HandlerPhase, Serving, OthersInvalid
  <2> QED
    BY <1>1, <1>2, <1>3, <1>5, <2>1 DEF WritePageInFlight, OthersInvalid
<1>10. PageStored' /\ PageConfirmed'
  BY <1>1, <1>2, NothingSent DEF PageStored, PageConfirmed
<1>11. ListenerServes'
  BY <1>4 DEF ListenerServes, ListenersIdle
<1>12. HandlerPhase'
  BY <1>1 DEF HandlerPhase, Invalidated
<1> QED
  BY <1>6, <1>7, <1>8, <1>9, <1>10, <1>11, <1>12

\* An IC keeps Protocol: its sender has given up its copy.
LEMMA StepSendInvalidateConfirm ==
  ASSUME TypeOK, Protocol, NEW n \in Nodes, SendInvalidateConfirm(n)
  PROVE  Protocol'
<1> USE DEF Protocol, vars, nodeVars, clientVars, listenVars, cmVars, Invalid, ReadOnly, ReadWrite
<1>1. /\ UNCHANGED <<access, incoming, cpc, cop, hpc, req, uninvalidated, owner, copySet>>
      /\ lpc[n] = "reply" /\ lpc' = [lpc EXCEPT ![n] = "idle"]
      /\ lmsg[n].type = "IV" /\ lmsg' = [lmsg EXCEPT ![n] = NoForward]
      /\ confirmations' = [confirmations EXCEPT ![n] = "IC"]
  BY DEF SendInvalidateConfirm
<1>2. /\ ~ListenersIdle
      /\ hpc \in {"invalidate", "waitIC"}
      /\ n \in copySet[req.page] \ uninvalidated
      /\ n # req.node => access[n][req.page] = Invalid
  BY <1>1 DEF ListenersIdle, ListenerServes
<1>3. SingleWriter' /\ CopiesTracked' /\ WriterIsOwner'
  BY <1>1 DEF SingleWriter, CopiesTracked, WriterIsOwner, Serving
<1>4. PageInFlight' /\ ReadPageInFlight' /\ WritePageInFlight' /\ PageStored'
  BY <1>1, <1>2, NothingSent DEF PageInFlight, ReadPageInFlight, WritePageInFlight, PageStored, PageSent
<1>5. PageConfirmed'
  BY <1>1, <1>2 DEF PageConfirmed
<1>6. ListenerServes'
  <2>1. \A m \in Nodes : m # n => lpc'[m] = lpc[m] /\ lmsg'[m] = lmsg[m]
                                    /\ confirmations'[m] = confirmations[m]
    BY <1>1 DEF TypeOK
  <2>2. lpc'[n] = "idle"
    BY <1>1 DEF TypeOK
  <2> QED
    BY <1>1, <1>2, <2>1, <2>2 DEF ListenerServes, Serving
<1>7. HandlerPhase'
  BY <1>1, <1>2 DEF HandlerPhase, Invalidated, TypeOK
<1> QED
  BY <1>3, <1>4, <1>5, <1>6, <1>7

-----------------------------------------------------------------------------
(***************************************************************************)
(* The steps of the RequestHandler.                                        *)
(***************************************************************************)

\* Taking a read request keeps Protocol: nothing is under way.
LEMMA StepRecvReadRequest ==
  ASSUME TypeOK, Protocol, NEW r \in requests, RecvReadRequest(r)
  PROVE  Protocol'
<1> USE DEF Protocol, vars, nodeVars, clientVars, listenVars, cmVars, Invalid, ReadOnly, ReadWrite
<1>1. /\ UNCHANGED <<access, incoming, cpc, cop, listenVars, uninvalidated, owner>>
      /\ hpc = "idle" /\ req' = r /\ r.kind = "read" /\ confirmations' = NoConfirmations
      /\ r \in Request /\ r.node \in Nodes /\ r.page \in Pages
  BY DEF RecvReadRequest, TypeOK, Request
<1>2. \/ hpc' = "idle" /\ copySet' = copySet
      \/ copySet' = [copySet EXCEPT ![r.page] = @ \cup {r.node}] /\ hpc' \in {"idle", "forward"}
  BY <1>1 DEF RecvReadRequest
<1>3. /\ \A p \in Pages : copySet[p] \subseteq copySet'[p]
      /\ hpc' = "forward" => r.node \in copySet'[r.page]
      /\ hpc' \in {"idle", "forward"}
  <2>1. copySet \in [Pages -> SUBSET Nodes]
    BY DEF TypeOK
  <2> QED
    BY <1>1, <1>2, <2>1
<1>4. ListenersIdle
  BY <1>1, NobodyListens
<1>5. SingleWriter' /\ CopiesTracked' /\ WriterIsOwner'
  BY <1>1, <1>3 DEF SingleWriter, CopiesTracked, WriterIsOwner, Serving
<1>6. PageInFlight' /\ ReadPageInFlight' /\ WritePageInFlight' /\ PageStored'
  BY <1>1, NothingSent DEF PageInFlight, ReadPageInFlight, WritePageInFlight, PageStored, PageSent
<1>7. PageConfirmed'
  BY <1>3 DEF PageConfirmed
<1>8. ListenerServes'
  BY <1>1, <1>4 DEF ListenerServes, ListenersIdle
<1>9. HandlerPhase'
  BY <1>1, <1>3 DEF HandlerPhase, NoConfirmations
<1> QED
  BY <1>5, <1>6, <1>7, <1>8, <1>9

\* Taking a write request keeps Protocol: nothing is under way.
LEMMA StepRecvWriteRequest ==
  ASSUME TypeOK, Protocol, NEW r \in requests, RecvWriteRequest(r)
  PROVE  Protocol'
<1> USE DEF Protocol, vars, nodeVars, clientVars, listenVars, cmVars, Invalid, ReadOnly, ReadWrite
<1>1. /\ UNCHANGED <<access, incoming, cpc, cop, listenVars, owner, copySet>>
      /\ hpc = "idle" /\ req' = r /\ r.kind = "write" /\ confirmations' = NoConfirmations
      /\ uninvalidated' = copySet[r.page] /\ hpc' = "invalidate"
  BY DEF RecvWriteRequest
<1>2. ListenersIdle
  BY <1>1, NobodyListens
<1>3. SingleWriter' /\ CopiesTracked' /\ WriterIsOwner'
  BY <1>1 DEF SingleWriter, CopiesTracked, WriterIsOwner, Serving
<1>4. PageInFlight' /\ ReadPageInFlight' /\ WritePageInFlight' /\ PageStored'
  BY <1>1, NothingSent DEF PageInFlight, ReadPageInFlight, WritePageInFlight, PageStored, PageSent
<1>5. PageConfirmed'
  BY <1>1 DEF PageConfirmed
<1>6. ListenerServes'
  BY <1>1, <1>2 DEF ListenerServes, ListenersIdle
<1>7. Invalidated' = {}
  BY <1>1 DEF Invalidated, NoConfirmations
<1>8. HandlerPhase'
  BY <1>1, <1>7 DEF HandlerPhase, NoConfirmations
<1> QED
  BY <1>3, <1>4, <1>5, <1>6, <1>8

\* An IV to a member of the copy set keeps Protocol.
LEMMA StepSendInvalidate ==
  ASSUME TypeOK, Protocol, NEW m \in Nodes, SendInvalidate(m)
  PROVE  Protocol'
<1> USE DEF Protocol, vars, nodeVars, clientVars, listenVars, cmVars, Invalid, ReadOnly, ReadWrite
<1>1. /\ UNCHANGED <<access, incoming, cpc, cop, confirmations, hpc, req, owner, copySet>>
      /\ hpc = "invalidate" /\ lpc[m] = "idle"
      /\ m \in uninvalidated /\ uninvalidated' = uninvalidated \ {m}
      /\ lmsg' = [lmsg EXCEPT ![m] =
                    [type |-> "IV", node |-> req.node, page |-> req.page, data |-> 0]]
      /\ lpc' = [lpc EXCEPT ![m] = IF m = req.node THEN "reply" ELSE "lock"]
  BY DEF SendInvalidate, Deliver
<1>2. SingleWriter' /\ CopiesTracked' /\ WriterIsOwner'
  BY <1>1 DEF SingleWriter, CopiesTracked, WriterIsOwner, Serving
<1>3. PageInFlight' /\ ReadPageInFlight' /\ WritePageInFlight' /\ PageStored'
  BY <1>1, NothingSent DEF PageInFlight, ReadPageInFlight, WritePageInFlight, PageStored, PageSent
<1>4. PageConfirmed'
  BY <1>1 DEF PageConfirmed
<1>5. ListenerServes'
  <2>1. /\ lmsg'[m].type = "IV" /\ lmsg'[m].node = req.node /\ lmsg'[m].page = req.page
        /\ lpc'[m] = "reply" => m = req.node
        /\ \A i \in Nodes : i # m => lpc'[i] = lpc[i] /\ lmsg'[i] = lmsg[i]
    BY <1>1 DEF TypeOK
  <2>2. m \in copySet[req.page] /\ confirmations[m] = "none"
    BY <1>1 DEF HandlerPhase, Invalidated
  <2> QED
    BY <1>1, <2>1, <2>2 DEF ListenerServes, Serving
<1>6. HandlerPhase'
  BY <1>1 DEF HandlerPhase, Invalidated
<1> QED
  BY <1>2, <1>3, <1>4, <1>5, <1>6

\* The end of the loop over the copy set keeps Protocol.
LEMMA StepAllInvalidatesSent ==
  ASSUME TypeOK, Protocol, AllInvalidatesSent
  PROVE  Protocol'
<1> USE DEF Protocol, vars, nodeVars, clientVars, listenVars, cmVars, Invalid, ReadOnly, ReadWrite
<1>1. /\ UNCHANGED <<access, incoming, cpc, cop, listenVars, confirmations, req, uninvalidated,
                    owner, copySet>>
      /\ hpc = "invalidate" /\ hpc' = "waitIC" /\ uninvalidated = {}
  BY DEF AllInvalidatesSent
<1>2. SingleWriter' /\ CopiesTracked' /\ WriterIsOwner'
  BY <1>1 DEF SingleWriter, CopiesTracked, WriterIsOwner, Serving
<1>3. PageInFlight' /\ ReadPageInFlight' /\ WritePageInFlight' /\ PageStored'
  BY <1>1, NothingSent DEF PageInFlight, ReadPageInFlight, WritePageInFlight, PageStored, PageSent
<1>4. PageConfirmed'
  BY <1>1 DEF PageConfirmed
<1>5. ListenerServes'
  BY <1>1 DEF ListenerServes, Serving
<1>6. HandlerPhase'
  BY <1>1 DEF HandlerPhase, Invalidated
<1> QED
  BY <1>2, <1>3, <1>4, <1>5, <1>6

\* When the handler has counted enough ICs, every member of the copy set has sent one.
LEMMA AllConfirmed ==
  ASSUME TypeOK, Protocol, hpc = "waitIC",
         Cardinality(Invalidated) >= Cardinality(copySet[req.page])
  PROVE  Invalidated = copySet[req.page]
<1>1. Invalidated \subseteq copySet[req.page]
  BY DEF Protocol, HandlerPhase
<1>2. req.page \in Pages /\ copySet[req.page] \subseteq Nodes
  BY DEF TypeOK, Request
<1>3. IsFiniteSet(copySet[req.page])
  BY <1>2, NodesAssumption, FS_Subset
<1>4. Cardinality(Invalidated) <= Cardinality(copySet[req.page])
  BY <1>1, <1>3, FS_Subset
<1>5. IsFiniteSet(Invalidated)
  BY <1>1, <1>3, FS_Subset
<1>6. Cardinality(Invalidated) \in Nat /\ Cardinality(copySet[req.page]) \in Nat
  BY <1>3, <1>5, FS_CardinalityType
<1>7. Cardinality(Invalidated) = Cardinality(copySet[req.page])
  BY <1>4, <1>6
<1> QED
  BY <1>1, <1>3, <1>7, FS_Subset

\* Going on to the forward keeps Protocol: all copies but the owner's are gone.
LEMMA StepAllInvalidatesConfirmed ==
  ASSUME TypeOK, Protocol, AllInvalidatesConfirmed
  PROVE  Protocol'
<1> USE DEF Protocol, vars, nodeVars, clientVars, listenVars, cmVars, Invalid, ReadOnly, ReadWrite
<1>1. /\ UNCHANGED <<access, incoming, cpc, cop, listenVars, confirmations, req, uninvalidated,
                    owner, copySet>>
      /\ hpc = "waitIC" /\ hpc' \in {"waitIC", "forward"}
      /\ Cardinality(Invalidated) >= Cardinality(copySet[req.page])
  BY DEF AllInvalidatesConfirmed
<1>2. CASE hpc' = "waitIC"
  <2>1. UNCHANGED <<access, incoming, cpc, cop, listenVars, confirmations, hpc, req,
                    uninvalidated, owner, copySet>>
    BY <1>1, <1>2
  <2> QED
    BY <2>1, ProtocolUnchanged
<1>3. CASE hpc' = "forward"
  <2>1. Invalidated = copySet[req.page]
    BY <1>1, AllConfirmed
  <2>2. SingleWriter' /\ CopiesTracked' /\ WriterIsOwner'
    BY <1>1, <1>3 DEF SingleWriter, CopiesTracked, WriterIsOwner, Serving
  <2>3. PageInFlight' /\ ReadPageInFlight' /\ WritePageInFlight' /\ PageStored'
    BY <1>1, NothingSent DEF PageInFlight, ReadPageInFlight, WritePageInFlight, PageStored, PageSent
  <2>4. PageConfirmed'
    BY <1>3 DEF PageConfirmed
  <2>5. ListenersIdle
    <3> SUFFICES ASSUME NEW m \in Nodes, lpc[m] # "idle" PROVE FALSE
      BY DEF ListenersIdle
    <3>1. lmsg[m].type \in {"RF", "WF", "IV"}
      BY DEF TypeOK, Forward
    <3>2. m \in copySet[req.page] /\ confirmations[m] = "none"
      BY <1>1, <3>1 DEF ListenerServes
    <3> QED
      BY <2>1, <3>2 DEF Invalidated
  <2>6. ListenerServes'
    BY <1>1, <2>5 DEF ListenerServes, ListenersIdle
  <2>7. \A m \in Nodes : m # req.node /\ m # owner[req.page] => access[m][req.page] = Invalid
    <3> SUFFICES ASSUME NEW m \in Nodes, m # req.node, m # owner[req.page],
                        access[m][req.page] # Invalid
                 PROVE  FALSE
      OBVIOUS
    <3>1. req.page \in Pages
      BY <1>1 DEF TypeOK, Request
    <3>2. m \in Invalidated
      BY <1>1, <2>1, <3>1 DEF CopiesTracked
    <3> QED
      BY <1>1, <3>2 DEF HandlerPhase
  <2>8. HandlerPhase'
    BY <1>1, <1>3, <2>7 DEF HandlerPhase
  <2> QED
    BY <2>2, <2>3, <2>4, <2>6, <2>8
<1> QED
  BY <1>1, <1>2, <1>3

\* The RF to the owner keeps Protocol.
LEMMA StepSendReadForward ==
  ASSUME TypeOK, Protocol, SendReadForward
  PROVE  Protocol'
<1> USE DEF Protocol, vars, nodeVars, clientVars, listenVars, cmVars, Invalid, ReadOnly, ReadWrite
<1> DEFINE m == owner[req.page]
<1>1. /\ UNCHANGED <<access, incoming, cpc, cop, confirmations, req, uninvalidated, owner, copySet>>
      /\ hpc = "forward" /\ hpc' = "waitRC" /\ req.kind = "read"
      /\ lmsg' = [lmsg EXCEPT ![m] =
                    [type |-> "RF", node |-> req.node, page |-> req.page, data |-> 0]]
      /\ lpc' = lpc \/ lpc' = [lpc EXCEPT ![m] = "lock"]
  BY DEF SendReadForward, Deliver
<1>2. ListenersIdle
  BY <1>1, NobodyListens
<1>3. req.node \in Nodes /\ confirmations[req.node] = "none"
  BY <1>1 DEF HandlerPhase, TypeOK, Request
<1>4. SingleWriter' /\ CopiesTracked' /\ WriterIsOwner'
  BY <1>1 DEF SingleWriter, CopiesTracked, WriterIsOwner, Serving
<1>5. PageInFlight' /\ ReadPageInFlight' /\ WritePageInFlight' /\ PageStored'
  BY <1>1, NothingSent DEF PageInFlight, ReadPageInFlight, WritePageInFlight, PageStored, PageSent
<1>6. PageConfirmed'
  BY <1>1, <1>3 DEF PageConfirmed
<1>7. ListenerServes'
  <2>1. \A i \in Nodes : lpc'[i] # "idle" => i = m /\ lpc'[i] = "lock"
    BY <1>1, <1>2 DEF ListenersIdle, TypeOK
  <2>2. m \in Nodes => /\ lmsg'[m].type = "RF"
                       /\ lmsg'[m].node = req.node /\ lmsg'[m].page = req.page
    BY <1>1 DEF TypeOK
  <2> QED
    BY <1>1, <1>3, <2>1, <2>2 DEF ListenerServes, Serving
<1>8. HandlerPhase'
  BY <1>1 DEF HandlerPhase, Invalidated
<1> QED
  BY <1>4, <1>5, <1>6, <1>7, <1>8

\* The WF to the owner keeps Protocol.
LEMMA StepSendWriteForward ==
  ASSUME TypeOK, Protocol, SendWriteForward
  PROVE  Protocol'
<1> USE DEF Protocol, vars, nodeVars, clientVars, listenVars, cmVars, Invalid, ReadOnly, ReadWrite
<1> DEFINE m == owner[req.page]
<1>1. /\ UNCHANGED <<access, incoming, cpc, cop, confirmations, req, uninvalidated, owner, copySet>>
      /\ hpc = "forward" /\ hpc' = "waitWC" /\ req.kind = "write"
      /\ lmsg' = [lmsg EXCEPT ![m] =
                    [type |-> "WF", node |-> req.node, page |-> req.page, data |-> 0]]
      /\ lpc' = lpc \/ lpc' = [lpc EXCEPT ![m] = "lock"]
  BY DEF SendWriteForward, Deliver
<1>2. ListenersIdle
  BY <1>1, NobodyListens
<1>3. req.node \in Nodes /\ confirmations[req.node] # "WC"
  BY <1>1 DEF HandlerPhase, TypeOK, Request
<1>4. SingleWriter' /\ CopiesTracked' /\ WriterIsOwner'
  BY <1>1 DEF SingleWriter, CopiesTracked, WriterIsOwner, Serving
<1>5. PageInFlight' /\ ReadPageInFlight' /\ WritePageInFlight' /\ PageStored'
  BY <1>1, NothingSent DEF PageInFlight, ReadPageInFlight, WritePageInFlight, PageStored, PageSent
<1>6. PageConfirmed'
  BY <1>1, <1>3 DEF PageConfirmed
<1>7. ListenerServes'
  <2>1. \A i \in Nodes : lpc'[i] # "idle" => i = m /\ lpc'[i] = "lock"
    BY <1>1, <1>2 DEF ListenersIdle, TypeOK
  <2>2. m \in Nodes => /\ lmsg'[m].type = "WF"
                       /\ lmsg'[m].node = req.node /\ lmsg'[m].page = req.page
    BY <1>1 DEF TypeOK
  <2> QED
    BY <1>1, <1>3, <2>1, <2>2 DEF ListenerServes, Serving
<1>8. HandlerPhase'
  BY <1>1 DEF HandlerPhase, Invalidated
<1> QED
  BY <1>4, <1>5, <1>6, <1>7, <1>8

\* The WI to the first writer keeps Protocol: a page without an owner has no copies.
LEMMA StepSendWriteInit ==
  ASSUME TypeOK, Protocol, SendWriteInit
  PROVE  Protocol'
<1> USE DEF Protocol, vars, nodeVars, clientVars, listenVars, cmVars, Invalid, ReadOnly, ReadWrite
<1> DEFINE d == req.node  p == req.page
<1>1. /\ UNCHANGED <<access, cpc, cop, listenVars, confirmations, req, uninvalidated, owner,
                    copySet>>
      /\ hpc = "forward" /\ hpc' = "waitWC" /\ req.kind = "write" /\ owner[p] = NoNode
      /\ d \in Nodes /\ p \in Pages
  BY DEF SendWriteInit, TypeOK, Request
<1>2. /\ \A i \in Nodes : i # d => incoming'[i] = incoming[i]
      /\ incoming'[d].type = "WI"
      /\ incoming'[d].page = p
  BY <1>1 DEF SendWriteInit, TypeOK
<1>3. ListenersIdle
  BY <1>1, NobodyListens
<1>4. confirmations[d] # "WC" /\ OthersInvalid(d, p)
  BY <1>1, NodesAssumption DEF HandlerPhase, OthersInvalid
<1> HIDE DEF d, p
<1>5. \A i \in Nodes, j \in Pages : PageSent(i, j)' => i = d /\ j = p
  <2> SUFFICES ASSUME NEW i \in Nodes, NEW j \in Pages, PageSent(i, j)', ~(i = d /\ j = p)
               PROVE  FALSE
    OBVIOUS
  <2>1. i # d
    BY <1>2 DEF PageSent
  <2> QED
    BY <1>1, <1>2, <2>1, NothingSent DEF PageSent
<1>6. SingleWriter' /\ CopiesTracked' /\ WriterIsOwner'
  BY <1>1 DEF SingleWriter, CopiesTracked, WriterIsOwner, Serving
<1>7. PageInFlight'
  BY <1>1, <1>3, <1>5 DEF PageInFlight, Serving, ListenersIdle, d, p
<1>8. ReadPageInFlight' /\ WritePageInFlight'
  BY <1>1, <1>2, <1>4, <1>5 DEF ReadPageInFlight, WritePageInFlight, OthersInvalid
<1>9. PageStored'
  BY <1>1, NothingSent DEF PageStored
<1>10. PageConfirmed'
  BY <1>1, <1>4 DEF PageConfirmed, d
<1>11. ListenerServes'
  BY <1>1, <1>3 DEF ListenerServes, ListenersIdle
<1>12. HandlerPhase'
  BY <1>1 DEF HandlerPhase
<1> QED
  BY <1>6, <1>7, <1>8, <1>9, <1>10, <1>11, <1>12

\* Once the handler has the confirmation it waits for, nothing is under way.
LEMMA Settled ==
  ASSUME TypeOK, Protocol,
         \/ hpc = "waitRC" /\ confirmations[req.node] = "RC"
         \/ hpc = "waitWC" /\ confirmations[req.node] = "WC"
  PROVE  /\ ListenersIdle
         /\ \A i \in Nodes, j \in Pages : ~PageSent(i, j)
         /\ \A i \in Nodes, j \in Pages : cpc[i][j] # "confirm"
<1>1. ListenersIdle
  BY DEF Protocol, PageConfirmed
<1>2. ASSUME NEW i \in Nodes, NEW j \in Pages, PageSent(i, j) PROVE FALSE
  BY <1>2, SentPages DEF Serving
<1>3. ASSUME NEW i \in Nodes, NEW j \in Pages, cpc[i][j] = "confirm" PROVE FALSE
  <2>1. cop[i][j] \in {"read", "write"}
    BY DEF TypeOK
  <2> QED
    BY <1>3, <2>1 DEF Protocol, PageStored, Serving
<1> QED
  BY <1>1, <1>2, <1>3

\* The end of a read request keeps Protocol.
LEMMA StepReadConfirmed ==
  ASSUME TypeOK, Protocol, ReadConfirmed
  PROVE  Protocol'
<1> USE DEF Protocol, vars, nodeVars, clientVars, listenVars, cmVars, Invalid, ReadOnly, ReadWrite
<1>1. /\ UNCHANGED <<access, incoming, cpc, cop, listenVars, confirmations, req, uninvalidated,
                    owner, copySet>>
      /\ hpc = "waitRC"
      /\ hpc' = hpc \/ (hpc' = "idle" /\ confirmations[req.node] = "RC")
  BY DEF ReadConfirmed
<1>2. CASE hpc' = hpc
  BY <1>1, <1>2, ProtocolUnchanged
<1>3. CASE hpc' = "idle" /\ confirmations[req.node] = "RC"
  <2>1. SingleWriter' /\ CopiesTracked' /\ WriterIsOwner'
    BY <1>1, <1>3 DEF SingleWriter, CopiesTracked, WriterIsOwner, Serving
  <2>2. PageInFlight' /\ ReadPageInFlight' /\ WritePageInFlight' /\ PageStored'
    BY <1>1, <1>3, Settled DEF PageInFlight, ReadPageInFlight, WritePageInFlight, PageStored, PageSent
  <2>3. PageConfirmed' /\ ListenerServes'
    BY <1>1, <1>3, Settled DEF PageConfirmed, ListenerServes, ListenersIdle
  <2>4. HandlerPhase'
    BY <1>3 DEF HandlerPhase
  <2> QED
    BY <2>1, <2>2, <2>3, <2>4
<1> QED
  BY <1>1, <1>2, <1>3

\* The change of ownership keeps Protocol.
LEMMA StepWriteConfirmed ==
  ASSUME TypeOK, Protocol, WriteConfirmed
  PROVE  Protocol'
<1> USE DEF Protocol, vars, nodeVars, clientVars, listenVars, cmVars, Invalid, ReadOnly, ReadWrite
<1>1. /\ UNCHANGED <<access, incoming, cpc, cop, listenVars, confirmations, req, uninvalidated,
                    copySet>>
      /\ hpc = "waitWC" /\ confirmations[req.node] = "WC" /\ hpc' = "idle"
      /\ owner' = [owner EXCEPT ![req.page] = req.node]
      /\ req.node \in Nodes /\ req.page \in Pages
  BY DEF WriteConfirmed, TypeOK, Request
<1>2. OthersInvalid(req.node, req.page)
  BY <1>1 DEF PageConfirmed
<1>3. owner'[req.page] = req.node /\ \A p \in Pages : p # req.page => owner'[p] = owner[p]
  BY <1>1 DEF TypeOK
<1>4. SingleWriter' /\ CopiesTracked' /\ WriterIsOwner'
  BY <1>1, <1>2, <1>3 DEF SingleWriter, CopiesTracked, WriterIsOwner, Serving, OthersInvalid
<1>5. PageInFlight' /\ ReadPageInFlight' /\ WritePageInFlight' /\ PageStored'
  BY <1>1, Settled DEF PageInFlight, ReadPageInFlight, WritePageInFlight, PageStored, PageSent
<1>6. PageConfirmed' /\ ListenerServes'
  BY <1>1, Settled DEF PageConfirmed, ListenerServes, ListenersIdle
<1>7. HandlerPhase'
  BY <1>1 DEF HandlerPhase
<1> QED
  BY <1>4, <1>5, <1>6, <1>7

-----------------------------------------------------------------------------
(***************************************************************************)
(* The invariant and what follows from it.                                 *)
(***************************************************************************)

\* Protocol holds when all pages are invalid and nothing is under way.
LEMMA InitProtocol == Init => Protocol
<1> SUFFICES ASSUME Init PROVE Protocol
  OBVIOUS
<1> USE DEF Init
<1>1. SingleWriter /\ CopiesTracked /\ WriterIsOwner
  BY DEF SingleWriter, CopiesTracked, WriterIsOwner, Invalid, ReadWrite
<1>2. PageInFlight /\ ReadPageInFlight /\ WritePageInFlight /\ PageStored
  BY DEF PageInFlight, ReadPageInFlight, WritePageInFlight, PageStored, PageSent
<1>3. PageConfirmed /\ ListenerServes /\ HandlerPhase
  BY DEF PageConfirmed, ListenerServes, HandlerPhase
<1> QED
  BY <1>1, <1>2, <1>3 DEF Protocol

\* Every step keeps Protocol.
LEMMA StepProtocol ==
  ASSUME TypeOK, Protocol, [Next]_vars
  PROVE  Protocol'
<1>1. CASE UNCHANGED vars
  BY <1>1, ProtocolUnchanged DEF vars, nodeVars, clientVars, listenVars, cmVars
<1>2. ASSUME NEW n \in Nodes, NEW p \in Pages, ClientStart(n, p) PROVE Protocol'
  BY <1>2, StepBegin DEF ClientStart, ClientRead, ClientWrite
<1>3. ASSUME NEW n \in Nodes, NEW p \in Pages, ClientStep(n, p) PROVE Protocol'
  BY <1>3, StepSendRequest, StepInvalidateOwn, StepStorePage, StepWriteInitForOtherPage,
     StepSendConfirm, StepFinishRead, StepFinishWrite DEF ClientStep
<1>4. ASSUME NEW n \in Nodes, ListenStep(n) PROVE Protocol'
  BY <1>4, StepPassPageLock, StepApplyForward, StepSendPage, StepSendInvalidateConfirm
     DEF ListenStep
<1>5. CASE HandlerStep
  BY <1>5, StepRecvReadRequest, StepRecvWriteRequest, StepSendInvalidate, StepAllInvalidatesSent,
     StepAllInvalidatesConfirmed, StepSendReadForward, StepSendWriteForward, StepSendWriteInit,
     StepReadConfirmed, StepWriteConfirmed DEF HandlerStep
<1> QED
  BY <1>1, <1>2, <1>3, <1>4, <1>5 DEF Next, Step

\* The inductive invariant holds in every reachable state.
THEOREM Invariance == Spec => []IInv
<1>1. Init => IInv
  BY TypeInit, InitProtocol DEF IInv
<1>2. IInv /\ [Next]_vars => IInv'
  BY TypeNext, StepProtocol DEF IInv
<1> QED
  BY <1>1, <1>2, PTL DEF Spec

\* While a node may write a page no other node has a copy of it, however requests,
\* forwards, invalidations and local writes interleave.
THEOREM SingleWriterHolds == Spec => []SingleWriter
<1>1. IInv => SingleWriter
  BY DEF IInv, Protocol
<1> QED
  BY <1>1, Invariance, PTL

\* The CM can reach every valid copy.
THEOREM CopiesTrackedHolds == Spec => []CopiesTracked
<1>1. IInv => CopiesTracked
  BY DEF IInv, Protocol
<1> QED
  BY <1>1, Invariance, PTL

\* No step but WriteConfirmed changes the owner of a page.
LEMMA OwnerSteps ==
  ASSUME Next, owner' # owner
  PROVE  WriteConfirmed
<1>1. ASSUME NEW n \in Nodes, NEW p \in Pages, ClientStart(n, p) \/ ClientStep(n, p)
      PROVE  owner' = owner
  BY <1>1 DEF ClientStart, ClientRead, ClientWrite, Begin, ClientStep, SendRequest, InvalidateOwn,
     StorePage, WriteInitForOtherPage, SendConfirm, FinishRead, FinishWrite, cmVars
<1>2. ASSUME NEW n \in Nodes, ListenStep(n) PROVE owner' = owner
  BY <1>2 DEF ListenStep, PassPageLock, ApplyForward, SendPage, SendInvalidateConfirm, cmVars
<1>3. ASSUME HandlerStep PROVE owner' = owner \/ WriteConfirmed
  BY <1>3 DEF HandlerStep, RecvReadRequest, RecvWriteRequest, SendInvalidate, AllInvalidatesSent,
     AllInvalidatesConfirmed, SendReadForward, SendWriteForward, SendWriteInit, ReadConfirmed
<1> QED
  BY <1>1, <1>2, <1>3 DEF Next, Step

\* Ownership passes only to a node that has the only copy.
THEOREM OwnerIsExclusiveHolds == Spec => OwnerIsExclusive
<1> DEFINE Handover ==
      \A p \in Pages : owner'[p] # owner[p] =>
          \A n \in Nodes : access'[n][p] = IF n = owner'[p] THEN ReadWrite ELSE Invalid
<1>1. ASSUME IInv, [Next]_vars PROVE Handover \/ UNCHANGED vars
  <2>1. CASE owner' = owner
    BY <2>1
  <2>2. CASE WriteConfirmed
    <3>1. /\ owner' = [owner EXCEPT ![req.page] = req.node] /\ access' = access
          /\ hpc = "waitWC" /\ confirmations[req.node] = "WC"
      BY <2>2 DEF WriteConfirmed, nodeVars
    <3>2. /\ access[req.node][req.page] = ReadWrite
          /\ \A m \in Nodes : m # req.node => access[m][req.page] = Invalid
      BY <1>1, <3>1 DEF IInv, Protocol, PageConfirmed, OthersInvalid
    <3>3. owner \in [Pages -> Nodes \cup {NoNode}]
      BY <1>1 DEF IInv, TypeOK
    <3>4. SUFFICES ASSUME NEW p \in Pages, owner'[p] # owner[p]
                   PROVE  p = req.page /\ owner'[p] = req.node
      BY <3>1, <3>2
    <3> QED
      BY <3>1, <3>3, <3>4
  <2>3. CASE UNCHANGED vars
    BY <2>3
  <2> QED
    BY <1>1, <2>1, <2>2, <2>3, OwnerSteps
<1>2. IInv /\ [Next]_vars => [Handover]_vars
  BY <1>1
<1> QED
  BY <1>2, Invariance, PTL DEF Spec, OwnerIsExclusive

-----------------------------------------------------------------------------
(***************************************************************************)
(* IvyBasic implements PageAccess: the initial states agree, and every     *)
(* step is a step of PageAccess or leaves access alone.                    *)
(***************************************************************************)

\* The steps that change access.
LEMMA AccessSteps ==
  ASSUME Next, access' # access
  PROVE  \/ \E n \in Nodes, p \in Pages : InvalidateOwn(n, p) \/ StorePage(n, p)
         \/ \E n \in Nodes : ApplyForward(n)
<1>1. ASSUME NEW n \in Nodes, NEW p \in Pages, ClientStart(n, p) PROVE access' = access
  BY <1>1 DEF ClientStart, ClientRead, ClientWrite, Begin
<1>2. ASSUME NEW n \in Nodes, NEW p \in Pages, ClientStep(n, p)
      PROVE  access' = access \/ InvalidateOwn(n, p) \/ StorePage(n, p)
  BY <1>2 DEF ClientStep, SendRequest, WriteInitForOtherPage, SendConfirm, FinishRead,
     FinishWrite, nodeVars
<1>3. ASSUME NEW n \in Nodes, ListenStep(n) PROVE access' = access \/ ApplyForward(n)
  BY <1>3 DEF ListenStep, PassPageLock, SendPage, SendInvalidateConfirm, nodeVars
<1>4. HandlerStep => access' = access
  BY DEF HandlerStep, RecvReadRequest, RecvWriteRequest, SendInvalidate, AllInvalidatesSent,
     AllInvalidatesConfirmed, SendReadForward, SendWriteForward, SendWriteInit, ReadConfirmed,
     WriteConfirmed, nodeVars
<1> QED
  BY <1>1, <1>2, <1>3, <1>4 DEF Next, Step

\* A step of the protocol is a step of the abstract specification.
LEMMA StepRefines ==
  ASSUME TypeOK, Protocol, Next, access' # access
  PROVE  PageAccessSpec!Next
<1> USE DEF PageAccessSpec!Next, Invalid, ReadOnly, ReadWrite
<1>1. ASSUME NEW n \in Nodes, NEW p \in Pages, InvalidateOwn(n, p) PROVE PageAccessSpec!Next
  BY <1>1 DEF InvalidateOwn, PageAccessSpec!Drop
<1>2. ASSUME NEW n \in Nodes, NEW p \in Pages, StorePage(n, p) PROVE PageAccessSpec!Next
  <2>1. PageSent(n, p)
    BY <1>2 DEF PageSent, StorePage
  <2>2. CASE cop[n][p] = "read"
    <3>1. incoming[n].type = "RP" /\ access' = [access EXCEPT ![n][p] = "READONLY"]
      BY <1>2, <2>2 DEF StorePage
    <3>2. NoWriter(p)
      BY <2>1, <3>1, SentPages
    <3> QED
      BY <3>1, <3>2 DEF NoWriter, PageAccessSpec!Share, PageAccessSpec!Others
  <2>3. CASE cop[n][p] # "read"
    <3>1. /\ incoming[n].type \in {"WP", "WI"}
          /\ access' = [access EXCEPT ![n][p] = "READWRITE"]
      BY <1>2, <2>3 DEF StorePage
    <3>2. OthersInvalid(n, p)
      BY <2>1, <3>1, SentPages
    <3> QED
      BY <3>1, <3>2 DEF OthersInvalid, PageAccessSpec!Own, PageAccessSpec!Others
  <2> QED
    BY <2>2, <2>3
<1>3. ASSUME NEW n \in Nodes, ApplyForward(n) PROVE PageAccessSpec!Next
  <2> DEFINE p == lmsg[n].page
  <2>1. /\ lpc[n] # "idle"
        /\ access' = [access EXCEPT ![n][p] = IF lmsg[n].type = "RF" THEN "READONLY" ELSE "INVALID"]
    BY <1>3 DEF ApplyForward
  <2>2. p \in Pages /\ p = req.page /\ (lmsg[n].type = "RF" => hpc = "waitRC" /\ n = owner[p])
    BY <2>1 DEF TypeOK, Forward, Protocol, ListenerServes, Serving
  <2> HIDE DEF p
  <2>3. CASE lmsg[n].type = "RF"
    <3>1. \A m \in Nodes : m # n => access[m][p] # ReadWrite
      BY <2>2, <2>3 DEF Protocol, WriterIsOwner
    <3>2. PageAccessSpec!Share(n, p)
      BY <2>1, <2>3, <3>1 DEF PageAccessSpec!Share, PageAccessSpec!Others
    <3> QED
      BY <2>2, <3>2
  <2>4. CASE lmsg[n].type # "RF"
    <3>1. PageAccessSpec!Drop(n, p)
      BY <2>1, <2>4 DEF PageAccessSpec!Drop
    <3> QED
      BY <2>2, <3>1
  <2> QED
    BY <2>3, <2>4
<1> QED
  BY <1>1, <1>2, <1>3, AccessSteps

\* The protocol of IvyBasic implements the abstract specification of page access.
THEOREM Refinement == Spec => ImplementsPageAccess
<1>1. Init => PageAccessSpec!Init
  BY DEF Init, PageAccessSpec!Init, Invalid
<1>2. IInv /\ [Next]_vars => [PageAccessSpec!Next]_access
  BY StepRefines DEF IInv, vars, nodeVars
<1> QED
  BY <1>1, <1>2, Invariance, PTL DEF Spec, ImplementsPageAccess, PageAccessSpec!Spec

-----------------------------------------------------------------------------
(***************************************************************************)
(* The assertions of the RequestHandler.  IInv does not say why an owner   *)
(* never asks to read its own page: that takes the bookkeeping of requests *)
(* below, which is inductive together with IInv.                           *)
(***************************************************************************)

\* A write of p is being served.
WriteServed(p) ==
    /\ hpc \in {"invalidate", "waitIC", "forward", "waitWC"}
    /\ req.kind = "write"
    /\ req.page = p

\* The requester in service has confirmed; the handler has yet to see it.
Confirmed ==
    \/ hpc = "waitRC" /\ confirmations[req.node] = "RC"
    \/ hpc = "waitWC" /\ confirmations[req.node] = "WC"

\* An owner loses its page only to its own write or to the write in service.
OwnerLosesPage ==
    \A n \in Nodes, p \in Pages :
        owner[p] = n /\ access[n][p] = Invalid =>
            \/ cop[n][p] = "write" /\ cpc[n][p] \in {"invalidate", "wait"}
            \/ WriteServed(p)

\* A node that waits for a page to read has no copy of it.
ReaderHasNone ==
    \A n \in Nodes, p \in Pages :
        cop[n][p] = "read" /\ cpc[n][p] \in {"request", "wait"} => access[n][p] = Invalid

\* A request that is not served yet is that of an operation that waits, and not the one of
\* an operation in service.
RequestsWait ==
    \A r \in requests :
        /\ cop[r.node][r.page] = r.kind
        /\ cpc[r.node][r.page] \in IF r.kind = "read" THEN {"wait"} ELSE {"invalidate", "wait"}
        /\ Serving(r.node, r.page) => Confirmed

\* Until it confirms, the operation in service waits for its page or holds it.
ServedWaits ==
    hpc # "idle" /\ ~Confirmed =>
        /\ cop[req.node][req.page] = req.kind
        /\ cpc[req.node][req.page] \in {"invalidate", "wait", "confirm"}

\* Only a writer invalidates its own copy.
WriterInvalidates ==
    \A n \in Nodes, p \in Pages : cpc[n][p] = "invalidate" => cop[n][p] = "write"

\* What the assertions need beyond IInv.
Bookkeeping ==
    /\ OwnerLosesPage
    /\ WriterInvalidates
    /\ ReaderHasNone
    /\ RequestsWait
    /\ ServedWaits
    /\ HandlerAssertions

\* Inductive.
AInv == TypeOK /\ Protocol /\ Bookkeeping
-----------------------------------------------------------------------------
(***************************************************************************)
(* The steps.                                                              *)
(***************************************************************************)

\* What the requests' types say of them.
LEMMA RequestType ==
  ASSUME TypeOK, NEW r \in requests
  PROVE  r \in Request /\ r.kind \in {"read", "write"} /\ r.node \in Nodes /\ r.page \in Pages
  BY DEF TypeOK, Request

\* What the type of the request in service says of it.
LEMMA ServedType ==
  ASSUME TypeOK, hpc # "idle"
  PROVE  req.kind \in {"read", "write"} /\ req.node \in Nodes /\ req.page \in Pages
  BY DEF TypeOK, Request

\* A step that changes none of these variables keeps the bookkeeping.
LEMMA BookkeepingUnchanged ==
  ASSUME Bookkeeping, HandlerAssertions',
         UNCHANGED <<access, cpc, cop, requests, confirmations, hpc, req, owner>>
  PROVE  Bookkeeping'
  BY DEF Bookkeeping, OwnerLosesPage, WriterInvalidates, ReaderHasNone, RequestsWait, ServedWaits,
         WriteServed, Confirmed, Serving

\* The start of an operation keeps the bookkeeping.
LEMMA BookBegin ==
  ASSUME TypeOK, Protocol, Bookkeeping, NEW n \in Nodes, NEW p \in Pages,
         NEW kind \in {"read", "write"}, Begin(n, p, kind)
  PROVE  Bookkeeping'
<1> USE DEF Bookkeeping, cmVars, listenVars
<1>1. /\ cpc[n][p] = "idle" /\ cpc'[n][p] \in {"finish", "request"} /\ cop'[n][p] = kind
      /\ cpc'[n][p] = "request" /\ kind = "read" => access[n][p] = Invalid
      /\ \A i \in Nodes, j \in Pages :
           ~(i = n /\ j = p) => cpc'[i][j] = cpc[i][j] /\ cop'[i][j] = cop[i][j]
      /\ UNCHANGED <<access, requests, confirmations, hpc, req, owner, panic>>
  BY DEF Begin, CacheHit, TypeOK
<1>2. OwnerLosesPage'
  BY <1>1 DEF OwnerLosesPage, WriteServed
<1>3. WriterInvalidates' /\ ReaderHasNone'
  BY <1>1 DEF WriterInvalidates, ReaderHasNone
<1>4. RequestsWait'
  BY <1>1, RequestType DEF RequestsWait, Serving, Confirmed
<1>5. ServedWaits'
  BY <1>1, ServedType DEF ServedWaits, Confirmed
<1> QED
  BY <1>1, <1>2, <1>3, <1>4, <1>5 DEF HandlerAssertions

\* A new request is not served yet.
LEMMA BookSendRequest ==
  ASSUME TypeOK, Protocol, Bookkeeping, NEW n \in Nodes, NEW p \in Pages, SendRequest(n, p)
  PROVE  Bookkeeping'
<1> USE DEF Bookkeeping, nodeVars, listenVars
<1> DEFINE new == [kind |-> cop[n][p], node |-> n, page |-> p]
<1>1. /\ cpc[n][p] = "request" /\ cop' = cop
      /\ cpc'[n][p] = IF cop[n][p] = "write" THEN "invalidate" ELSE "wait"
      /\ \A i \in Nodes, j \in Pages : ~(i = n /\ j = p) => cpc'[i][j] = cpc[i][j]
      /\ requests' = requests \cup {new} /\ cop[n][p] \in {"read", "write"}
      /\ UNCHANGED <<access, confirmations, hpc, req, owner, panic>>
  BY DEF SendRequest, TypeOK
<1>2. OwnerLosesPage'
  BY <1>1 DEF OwnerLosesPage, WriteServed
<1>3. WriterInvalidates' /\ ReaderHasNone'
  BY <1>1 DEF WriterInvalidates, ReaderHasNone
<1>4. RequestsWait'
  <2>1. Serving(n, p) => Confirmed
    BY <1>1 DEF ServedWaits, Serving
  <2>2. Confirmed' = Confirmed /\ \A i, j : Serving(i, j)' = Serving(i, j)
    BY <1>1 DEF Confirmed, Serving
  <2>3. ASSUME NEW r \in requests
        PROVE  /\ cop'[r.node][r.page] = r.kind
               /\ cpc'[r.node][r.page] \in IF r.kind = "read" THEN {"wait"} ELSE {"invalidate", "wait"}
               /\ Serving(r.node, r.page)' => Confirmed'
    BY <1>1, <2>2, RequestType DEF RequestsWait
  <2> QED
    BY <1>1, <2>1, <2>2, <2>3 DEF RequestsWait
<1>5. ServedWaits'
  BY <1>1, ServedType DEF ServedWaits, Confirmed
<1> QED
  BY <1>1, <1>2, <1>3, <1>4, <1>5 DEF HandlerAssertions

\* The writer that invalidates its own copy waits for another.
LEMMA BookInvalidateOwn ==
  ASSUME TypeOK, Protocol, Bookkeeping, NEW n \in Nodes, NEW p \in Pages, InvalidateOwn(n, p)
  PROVE  Bookkeeping'
<1> USE DEF Bookkeeping, cmVars, listenVars
<1>1. /\ cpc[n][p] = "invalidate" /\ cop' = cop /\ cpc'[n][p] = "wait"
      /\ \A i \in Nodes, j \in Pages :
           ~(i = n /\ j = p) => cpc'[i][j] = cpc[i][j] /\ access'[i][j] = access[i][j]
      /\ access'[n][p] = Invalid
      /\ UNCHANGED <<requests, confirmations, hpc, req, owner, panic>>
  BY DEF InvalidateOwn, TypeOK
<1>2. OwnerLosesPage'
  BY <1>1 DEF OwnerLosesPage, WriteServed, WriterInvalidates
<1>3. WriterInvalidates' /\ ReaderHasNone'
  BY <1>1 DEF WriterInvalidates, ReaderHasNone
<1>4. RequestsWait'
  BY <1>1, RequestType DEF RequestsWait, Serving, Confirmed
<1>5. ServedWaits'
  BY <1>1, ServedType DEF ServedWaits, Confirmed
<1> QED
  BY <1>1, <1>2, <1>3, <1>4, <1>5 DEF HandlerAssertions

\* A page is stored for the operation in service, which has not confirmed.
LEMMA BookStorePage ==
  ASSUME TypeOK, Protocol, Bookkeeping, NEW n \in Nodes, NEW p \in Pages, StorePage(n, p)
  PROVE  Bookkeeping'
<1> USE DEF Bookkeeping, cmVars, listenVars
<1>1. /\ cpc[n][p] = "wait" /\ cop' = cop /\ cpc'[n][p] = "confirm"
      /\ \A i \in Nodes, j \in Pages :
           ~(i = n /\ j = p) => cpc'[i][j] = cpc[i][j] /\ access'[i][j] = access[i][j]
      /\ access'[n][p] # Invalid
      /\ UNCHANGED <<requests, confirmations, hpc, req, owner, panic>>
  BY DEF StorePage, TypeOK, Invalid, ReadOnly, ReadWrite
<1>2. Serving(n, p) /\ ~Confirmed
  <2>1. PageSent(n, p)
    BY DEF PageSent, StorePage
  <2> QED
    BY <2>1, SentPages DEF Confirmed, Serving
<1>3. OwnerLosesPage'
  BY <1>1 DEF OwnerLosesPage, WriteServed
<1>4. WriterInvalidates' /\ ReaderHasNone'
  BY <1>1 DEF WriterInvalidates, ReaderHasNone
<1>5. RequestsWait'
  BY <1>1, <1>2, RequestType DEF RequestsWait, Serving, Confirmed
<1>6. ServedWaits'
  BY <1>1, ServedType DEF ServedWaits, Confirmed
<1> QED
  BY <1>1, <1>3, <1>4, <1>5, <1>6 DEF HandlerAssertions

\* The operation in service confirms.
LEMMA BookSendConfirm ==
  ASSUME TypeOK, Protocol, Bookkeeping, NEW n \in Nodes, NEW p \in Pages, SendConfirm(n, p)
  PROVE  Bookkeeping'
<1> USE DEF Bookkeeping, nodeVars, listenVars
<1>1. /\ cpc[n][p] = "confirm" /\ cop' = cop /\ cpc'[n][p] = "finish"
      /\ \A i \in Nodes, j \in Pages : ~(i = n /\ j = p) => cpc'[i][j] = cpc[i][j]
      /\ confirmations'[n] = IF cop[n][p] = "read" THEN "RC" ELSE "WC"
      /\ cop[n][p] \in {"read", "write"}
      /\ UNCHANGED <<access, requests, hpc, req, owner, panic>>
  BY DEF SendConfirm, TypeOK
<1>2. Serving(n, p) /\ Confirmed'
  BY <1>1 DEF Protocol, PageStored, Confirmed, Serving
<1>3. OwnerLosesPage'
  BY <1>1 DEF OwnerLosesPage, WriteServed
<1>4. WriterInvalidates' /\ ReaderHasNone'
  BY <1>1 DEF WriterInvalidates, ReaderHasNone
<1>5. RequestsWait'
  BY <1>1, <1>2, RequestType DEF RequestsWait
<1>6. ServedWaits'
  BY <1>2 DEF ServedWaits
<1> QED
  BY <1>1, <1>3, <1>4, <1>5, <1>6 DEF HandlerAssertions

\* The end of an operation, which is not in service or has confirmed.
LEMMA BookFinish ==
  ASSUME TypeOK, Protocol, Bookkeeping, NEW n \in Nodes, NEW p \in Pages,
         FinishRead(n, p) \/ FinishWrite(n, p)
  PROVE  Bookkeeping'
<1> USE DEF Bookkeeping, nodeVars, cmVars, listenVars
<1>1. /\ cpc[n][p] = "finish" /\ cop' = cop /\ cpc'[n][p] = "idle"
      /\ \A i \in Nodes, j \in Pages : ~(i = n /\ j = p) => cpc'[i][j] = cpc[i][j]
      /\ UNCHANGED <<access, requests, confirmations, hpc, req, owner, panic>>
  BY DEF FinishRead, FinishWrite, TypeOK
<1>2. OwnerLosesPage'
  BY <1>1 DEF OwnerLosesPage, WriteServed
<1>3. WriterInvalidates' /\ ReaderHasNone'
  BY <1>1 DEF WriterInvalidates, ReaderHasNone
<1>4. RequestsWait'
  BY <1>1, RequestType DEF RequestsWait, Serving, Confirmed
<1>5. ServedWaits'
  BY <1>1, ServedType DEF ServedWaits, Confirmed
<1> QED
  BY <1>1, <1>2, <1>3, <1>4, <1>5 DEF HandlerAssertions

\* An RF gives the owner a READONLY copy, and the owner does not wait to read; a WF or an IV
\* takes the page away for the write in service.
LEMMA BookApplyForward ==
  ASSUME TypeOK, Protocol, Bookkeeping, NEW n \in Nodes, ApplyForward(n)
  PROVE  Bookkeeping'
<1> USE DEF Bookkeeping, clientVars, cmVars
<1>1. PICK p \in Pages :
        /\ p = lmsg[n].page
        /\ access'[n][p] = IF lmsg[n].type = "RF" THEN ReadOnly ELSE Invalid
        /\ \A i \in Nodes, j \in Pages : ~(i = n /\ j = p) => access'[i][j] = access[i][j]
  <2>1. lpc[n] # "idle" /\ lmsg[n].page \in Pages
    BY DEF ApplyForward, TypeOK, Forward
  <2> QED
    BY <2>1 DEF ApplyForward, TypeOK
<1>2. UNCHANGED <<cpc, cop, requests, confirmations, hpc, req, owner, panic>>
  BY DEF ApplyForward
<1>3. /\ req.page = p
      /\ lmsg[n].type = "RF" => hpc = "waitRC" /\ n = owner[p]
      /\ lmsg[n].type # "RF" => WriteServed(p)
  <2>1. lpc[n] # "idle" /\ lmsg[n].type \in {"RF", "WF", "IV"}
    BY DEF ApplyForward, TypeOK, Forward
  <2> QED
    BY <1>1, <2>1 DEF Protocol, ListenerServes, HandlerPhase, Serving, WriteServed
<1>4. OwnerLosesPage'
  BY <1>1, <1>2, <1>3 DEF OwnerLosesPage, WriteServed, Invalid, ReadOnly
<1>5. WriterInvalidates'
  BY <1>2 DEF WriterInvalidates
<1>6. ReaderHasNone'
  <2>1. lmsg[n].type = "RF" => ~(cop[n][p] = "read" /\ cpc[n][p] \in {"request", "wait"})
    BY <1>1, <1>3 DEF OwnerLosesPage, ReaderHasNone, WriteServed
  <2> QED
    BY <1>1, <1>2, <2>1 DEF ReaderHasNone
<1>7. RequestsWait' /\ ServedWaits'
  BY <1>2 DEF RequestsWait, ServedWaits, Serving, Confirmed
<1> QED
  BY <1>2, <1>4, <1>5, <1>6, <1>7 DEF HandlerAssertions

\* An IC is not the confirmation of a requester.
LEMMA BookSendInvalidateConfirm ==
  ASSUME TypeOK, Protocol, Bookkeeping, NEW n \in Nodes, SendInvalidateConfirm(n)
  PROVE  Bookkeeping'
<1> USE DEF Bookkeeping, nodeVars, clientVars
<1>1. UNCHANGED <<access, cpc, cop, requests, hpc, req, owner, panic>>
  BY DEF SendInvalidateConfirm
<1>2. hpc \in {"invalidate", "waitIC"}
  BY DEF SendInvalidateConfirm, Protocol, ListenerServes
<1>3. ~Confirmed /\ ~Confirmed'
  BY <1>1, <1>2 DEF Confirmed
<1> QED
  BY <1>1, <1>3 DEF OwnerLosesPage, WriterInvalidates, ReaderHasNone, RequestsWait, ServedWaits,
                    WriteServed, Serving, HandlerAssertions

\* The handler takes a request: no other request is of the same operation, and an owner that
\* has lost its page waits to write.
LEMMA BookRecvRequest ==
  ASSUME TypeOK, Protocol, Bookkeeping, NEW r \in requests, RecvReadRequest(r) \/ RecvWriteRequest(r)
  PROVE  Bookkeeping'
<1> USE DEF Bookkeeping, nodeVars, clientVars, listenVars
<1>1. /\ r \in Request /\ r.kind \in {"read", "write"} /\ r.node \in Nodes /\ r.page \in Pages
      /\ cop[r.node][r.page] = r.kind /\ cpc[r.node][r.page] \in {"invalidate", "wait"}
      /\ r.kind = "read" => cpc[r.node][r.page] = "wait"
  BY RequestType DEF RequestsWait
<1>2. /\ UNCHANGED <<access, cpc, cop, owner>> /\ hpc = "idle" /\ req' = r
      /\ requests' = requests \ {r} /\ \A i \in Nodes : confirmations'[i] = "none"
  BY DEF RecvReadRequest, RecvWriteRequest, NoConfirmations
<1>3. HandlerAssertions'
  <2>1. r.kind = "read" => r.node # owner[r.page]
    BY <1>1, <1>2 DEF OwnerLosesPage, ReaderHasNone, WriteServed
  <2> QED
    BY <2>1 DEF RecvReadRequest, RecvWriteRequest, HandlerAssertions
<1>4. OwnerLosesPage'
  BY <1>2 DEF OwnerLosesPage, WriteServed
<1>5. WriterInvalidates' /\ ReaderHasNone'
  BY <1>2 DEF WriterInvalidates, ReaderHasNone
<1>6. RequestsWait'
  <2>1. ASSUME NEW q \in requests, q # r PROVE ~(q.node = r.node /\ q.page = r.page)
    <3>1. q \in Request
      BY RequestType
    <3>2. cop[q.node][q.page] = q.kind
      BY DEF RequestsWait
    <3> QED
      BY <1>1, <2>1, <3>1, <3>2 DEF Request
  <2> QED
    BY <1>2, <2>1 DEF RequestsWait, Serving
<1>7. ServedWaits'
  BY <1>1, <1>2 DEF ServedWaits
<1> QED
  BY <1>3, <1>4, <1>5, <1>6, <1>7

\* No more ICs arrive than the copy set has members: the handler does not panic, and goes on.
LEMMA BookAllInvalidatesConfirmed ==
  ASSUME TypeOK, Protocol, Bookkeeping, AllInvalidatesConfirmed
  PROVE  Bookkeeping'
<1> USE DEF Bookkeeping, nodeVars, clientVars, listenVars
<1>1. hpc = "waitIC" /\ req.kind = "write" /\ req.page \in Pages
      /\ Invalidated \subseteq copySet[req.page]
  BY DEF AllInvalidatesConfirmed, Protocol, HandlerPhase, TypeOK, Request
<1>2. Cardinality(Invalidated) <= Cardinality(copySet[req.page])
      /\ Cardinality(Invalidated) \in Nat /\ Cardinality(copySet[req.page]) \in Nat
  <2>1. IsFiniteSet(copySet[req.page])
    BY <1>1, NodesAssumption, FS_Subset DEF TypeOK
  <2>2. IsFiniteSet(Invalidated)
    BY <1>1, <2>1, FS_Subset
  <2> QED
    BY <1>1, <2>1, <2>2, FS_Subset, FS_CardinalityType
<1>3. hpc' = "forward" /\ UNCHANGED panic
  BY <1>2 DEF AllInvalidatesConfirmed
<1>4. UNCHANGED <<access, cpc, cop, requests, confirmations, req, owner>>
  BY DEF AllInvalidatesConfirmed
<1>5. \A p \in Pages : WriteServed(p) => WriteServed(p)'
  BY <1>1, <1>3, <1>4 DEF WriteServed
<1>6. ~Confirmed /\ ~Confirmed' /\ \A i, j : Serving(i, j)' = Serving(i, j)
  BY <1>1, <1>3, <1>4 DEF Confirmed, Serving
<1> QED
  BY <1>1, <1>3, <1>4, <1>5, <1>6 DEF OwnerLosesPage, WriterInvalidates, ReaderHasNone, RequestsWait,
     ServedWaits, HandlerAssertions

\* The handler goes from one place of a request to the next.
LEMMA BookAdvance ==
  ASSUME TypeOK, Protocol, Bookkeeping,
         AllInvalidatesSent \/ SendReadForward \/ SendWriteForward \/ SendWriteInit
  PROVE  Bookkeeping'
<1> USE DEF Bookkeeping, nodeVars, clientVars, listenVars
<1>1. /\ UNCHANGED <<access, cpc, cop, requests, confirmations, req, owner>>
      /\ \/ hpc = "invalidate" /\ hpc' = "waitIC"
         \/ hpc = "forward" /\ req.kind = "read" /\ hpc' = "waitRC"
         \/ hpc = "forward" /\ req.kind = "write" /\ hpc' = "waitWC"
  BY DEF AllInvalidatesSent, SendReadForward, SendWriteForward, SendWriteInit
<1>2. HandlerAssertions'
  BY DEF AllInvalidatesSent, SendReadForward, SendWriteForward, SendWriteInit, Deliver, HandlerAssertions
<1>3. \A p \in Pages : WriteServed(p) => WriteServed(p)'
  BY <1>1 DEF WriteServed
<1>4. ~Confirmed /\ \A i, j : Serving(i, j)' = Serving(i, j)
  BY <1>1 DEF Confirmed, Serving
<1>5. OwnerLosesPage'
  BY <1>1, <1>3 DEF OwnerLosesPage
<1>6. WriterInvalidates' /\ ReaderHasNone'
  BY <1>1 DEF WriterInvalidates, ReaderHasNone
<1>7. RequestsWait'
  BY <1>1, <1>4 DEF RequestsWait
<1>8. ServedWaits'
  BY <1>1, <1>4 DEF ServedWaits
<1> QED
  BY <1>2, <1>5, <1>6, <1>7, <1>8

\* The handler sees a reader's confirmation, which is an RC.
LEMMA BookReadConfirmed ==
  ASSUME TypeOK, Protocol, Bookkeeping, ReadConfirmed
  PROVE  Bookkeeping'
<1> USE DEF Bookkeeping, nodeVars, clientVars, listenVars
<1>1. confirmations[req.node] = "RC"
  BY DEF ReadConfirmed, Protocol, HandlerPhase, TypeOK, Request
<1>2. /\ UNCHANGED <<access, cpc, cop, requests, confirmations, req, owner, panic>>
      /\ hpc = "waitRC" /\ hpc' = "idle"
  BY <1>1 DEF ReadConfirmed
<1> QED
  BY <1>2 DEF OwnerLosesPage, WriterInvalidates, ReaderHasNone, RequestsWait, ServedWaits,
              WriteServed, Serving, HandlerAssertions

\* The handler sees a writer's confirmation: the new owner has its page.
LEMMA BookWriteConfirmed ==
  ASSUME TypeOK, Protocol, Bookkeeping, WriteConfirmed
  PROVE  Bookkeeping'
<1> USE DEF Bookkeeping, nodeVars, clientVars, listenVars
<1>1. /\ UNCHANGED <<access, cpc, cop, requests, confirmations, req, panic>>
      /\ hpc = "waitWC" /\ hpc' = "idle" /\ req.page \in Pages
      /\ owner'[req.page] = req.node /\ access[req.node][req.page] # Invalid
      /\ \A j \in Pages : j # req.page => owner'[j] = owner[j]
  BY DEF WriteConfirmed, Protocol, PageConfirmed, TypeOK, Request, Invalid, ReadWrite
<1>2. OwnerLosesPage'
  BY <1>1 DEF OwnerLosesPage, WriteServed
<1>3. WriterInvalidates' /\ ReaderHasNone'
  BY <1>1 DEF WriterInvalidates, ReaderHasNone
<1>4. RequestsWait' /\ ServedWaits'
  BY <1>1 DEF RequestsWait, ServedWaits, Serving
<1> QED
  BY <1>1, <1>2, <1>3, <1>4 DEF HandlerAssertions

\* The other steps change nothing that the bookkeeping speaks of.
LEMMA BookOther ==
  ASSUME Bookkeeping,
         \/ \E n \in Nodes, p \in Pages : WriteInitForOtherPage(n, p)
         \/ \E n \in Nodes : PassPageLock(n) \/ SendPage(n)
         \/ \E m \in Nodes : SendInvalidate(m)
  PROVE  Bookkeeping'
<1> USE DEF nodeVars, clientVars, listenVars, cmVars
<1>1. UNCHANGED <<access, cpc, cop, requests, confirmations, hpc, req, owner>>
  BY DEF WriteInitForOtherPage, PassPageLock, SendPage, SendInvalidate
<1>2. HandlerAssertions'
  BY DEF WriteInitForOtherPage, PassPageLock, SendPage, SendInvalidate, Deliver, HandlerAssertions,
         Bookkeeping
<1> QED
  BY <1>1, <1>2, BookkeepingUnchanged

-----------------------------------------------------------------------------
(***************************************************************************)
(* The theorem.                                                            *)
(***************************************************************************)

\* Initially, no operation is under way.
LEMMA InitBookkeeping == Init => Bookkeeping
  BY NodesAssumption DEF Init, Bookkeeping, OwnerLosesPage, WriterInvalidates, ReaderHasNone,
     RequestsWait, ServedWaits, HandlerAssertions

\* Every step keeps the bookkeeping.
LEMMA StepBookkeeping ==
  ASSUME TypeOK, Protocol, Bookkeeping, [Next]_vars
  PROVE  Bookkeeping'
<1>1. ASSUME NEW n \in Nodes, NEW p \in Pages, ClientStart(n, p) \/ ClientStep(n, p)
      PROVE  Bookkeeping'
  BY <1>1, BookBegin, BookSendRequest, BookInvalidateOwn, BookStorePage, BookSendConfirm, BookFinish,
     BookOther DEF ClientStart, ClientRead, ClientWrite, ClientStep
<1>2. ASSUME NEW n \in Nodes, ListenStep(n) PROVE Bookkeeping'
  BY <1>2, BookApplyForward, BookSendInvalidateConfirm, BookOther DEF ListenStep
<1>3. CASE HandlerStep
  BY <1>3, BookRecvRequest, BookAllInvalidatesConfirmed, BookAdvance, BookReadConfirmed,
     BookWriteConfirmed, BookOther DEF HandlerStep
<1>4. CASE UNCHANGED vars
  BY <1>4, BookkeepingUnchanged DEF vars, nodeVars, clientVars, listenVars, cmVars, HandlerAssertions,
     Bookkeeping
<1> QED
  BY <1>1, <1>2, <1>3, <1>4 DEF Next, Step

\* The handler's own assertions hold: no owner asks to read its page, nothing but an RC answers
\* a forwarded read, and no more ICs arrive than the copy set has members.
THEOREM HandlerAssertionsHold == Spec => []HandlerAssertions
<1>1. AInv /\ [Next]_vars => AInv'
  BY StepBookkeeping, StepProtocol, TypeNext DEF AInv
<1>2. Init => AInv
  BY InitBookkeeping, InitProtocol, TypeInit DEF AInv
<1>3. AInv => HandlerAssertions
  BY DEF AInv, Bookkeeping
<1> QED
  BY <1>1, <1>2, <1>3, PTL DEF Spec

-----------------------------------------------------------------------------
(***************************************************************************)
(* The tests' programs.  What they leave out, compared with clients that   *)
(* run concurrently, shows in the invariant: no owner writes its page      *)
(* again, and no owner is in the copy set of its page when a write is      *)
(* served.                                                                 *)
(***************************************************************************)

Active(n, p) == cpc[n][p] # "idle"

\* The operation of n on p has missed and has yet to receive the page.
Awaits(n, p) == cpc[n][p] \in {"request", "invalidate", "wait"}

WriteAwaits(n, p) == cop[n][p] = "write" /\ Awaits(n, p)

-----------------------------------------------------------------------------
(***************************************************************************)
(* The programs.                                                           *)
(***************************************************************************)

\* A node runs one operation at a time; after the first writes, so does the system.
OneOperation ==
    \A n, m \in Nodes, p, q \in Pages :
        Active(n, p) /\ Active(m, q) /\ (n = m \/ round # "writes") => n = m /\ p = q

\* The first round only writes, and touches no copy set; nodes that have not written yet
\* have nothing.
FirstRound ==
    round = "writes" =>
        /\ \A n \in Nodes, p \in Pages : Active(n, p) => cop[n][p] = "write"
        /\ \A p \in Pages : copySet[p] = {}
        /\ \A n \in Nodes, p \in Pages :
             started[n] = 0 => ~Active(n, p) /\ access[n][p] = Invalid /\ owner[p] # n

\* Then there are reads only, until the second write.
ReadRound ==
    round = "reads" => \A n \in Nodes, p \in Pages : Active(n, p) => cop[n][p] = "read"

\* A page is read once it has been written.
ReadsOfWritten ==
    \A n \in Nodes, p \in Pages : Active(n, p) /\ cop[n][p] = "read" => latest[p] > 0

\* The page a node has received is the one its operation waits for.
ReceivesOwnPage ==
    \A n \in Nodes, p \in Pages : Awaits(n, p) => incoming[n].page \in {p, NoPage}

-----------------------------------------------------------------------------
(***************************************************************************)
(* The owner.                                                              *)
(***************************************************************************)

\* A node that waits to write is not the owner, nor about to be recorded as the owner.
WriterIsNew ==
    \A n \in Nodes, p \in Pages :
        WriteAwaits(n, p) => owner[p] # n /\ ~(hpc = "waitWC" /\ Serving(n, p) /\ Confirmed)

\* Until the second write is served, no owner is in the copy set of its page.
OwnerOutside ==
    \A p \in Pages :
        round # "again" \/ (\E n \in Nodes : WriteAwaits(n, p)) => owner[p] \notin copySet[p]

\* No page has been read from its owner while a first write is served or not recorded yet.
FirstWritesAlone ==
    /\ hpc \in {"invalidate", "waitIC", "forward", "waitWC"}
    /\ req.kind = "write"
    /\ \/ round # "again"
       \/ Confirmed /\ \E n \in Nodes, p \in Pages : WriteAwaits(n, p)
    => \A p \in Pages : copySet[p] = {}

\* The owner has its page, until the WF of the write in service takes it.
OwnerHolds ==
    \A p \in Pages :
        owner[p] # NoNode => access[owner[p]][p] # Invalid \/ (hpc = "waitWC" /\ WriteServed(p))

\* A page without owner has not been written, except by the writer about to be recorded.
UnownedUnwritten ==
    \A p \in Pages :
        owner[p] = NoNode => latest[p] = 0 \/ (hpc = "waitWC" /\ req.page = p /\ Confirmed)

-----------------------------------------------------------------------------
(***************************************************************************)
(* The data.                                                               *)
(***************************************************************************)

\* Every copy has the last write.
CopiesLatest ==
    \A n \in Nodes, p \in Pages : access[n][p] # Invalid => data[n][p] = latest[p]

\* A Listen goroutine that serves an RF or WF finds the page valid and no client on it, and
\* sends the last write.
ForwardsLatest ==
    \A m \in Nodes :
        lpc[m] # "idle" /\ lmsg[m].type \in {"RF", "WF"} =>
            /\ lpc[m] \in {"lock", "apply"} => access[m][lmsg[m].page] # Invalid
            /\ lpc[m] \in {"apply", "reply"} => ~Active(m, lmsg[m].page)
            /\ lpc[m] = "reply" => lmsg[m].data = latest[lmsg[m].page]

\* So does a page on its way.
SentLatest ==
    \A n \in Nodes, p \in Pages : PageSent(n, p) => incoming[n].data = latest[p]

\* A read that has its page has the last write.
ReaderHasLatest ==
    \A n \in Nodes, p \in Pages :
        cpc[n][p] \in {"confirm", "finish"} /\ cop[n][p] = "read" => data[n][p] = latest[p]

\* A write that is about to assign the page has the only copy, and none is on its way.
WriteFinishesAlone ==
    \A n \in Nodes, p \in Pages :
        cpc[n][p] = "finish" /\ cop[n][p] = "write" =>
            /\ access[n][p] = ReadWrite /\ OthersInvalid(n, p)
            /\ \A m \in Nodes :
                 /\ ~PageSent(m, p)
                 /\ lpc[m] = "reply" /\ lmsg[m].page = p => lmsg[m].type = "IV"

Programs == OneOperation /\ FirstRound /\ ReadRound /\ ReadsOfWritten /\ ReceivesOwnPage

Ownership == WriterIsNew /\ OwnerOutside /\ FirstWritesAlone /\ OwnerHolds /\ UnownedUnwritten

Coherence ==
    CopiesLatest /\ ForwardsLatest /\ SentLatest /\ ReaderHasLatest /\ WriteFinishesAlone

Workload ==
    /\ round \in {"writes", "reads", "again"}
    /\ Programs
    /\ Ownership
    /\ Coherence
    /\ NoPanic

\* Inductive.
TInv == AInv /\ Workload

-----------------------------------------------------------------------------
(***************************************************************************)
(* What the invariant says of the places of the handler and the listeners. *)
(***************************************************************************)

\* Until the handler waits for a page's confirmation, the operation in service awaits the page.
LEMMA InService ==
  ASSUME AInv, hpc \in {"invalidate", "waitIC", "forward"}
  PROVE  /\ req.node \in Nodes /\ req.page \in Pages /\ req.kind \in {"read", "write"}
         /\ ~Confirmed
         /\ Awaits(req.node, req.page) /\ cop[req.node][req.page] = req.kind
<1>1. req.node \in Nodes /\ req.page \in Pages /\ req.kind \in {"read", "write"} /\ ~Confirmed
  BY ServedType DEF AInv, Confirmed
<1>2. cop[req.node][req.page] = req.kind
      /\ cpc[req.node][req.page] \in {"invalidate", "wait", "confirm"}
  BY <1>1 DEF AInv, Bookkeeping, ServedWaits
<1>3. cpc[req.node][req.page] # "confirm"
  BY <1>1, NothingSent DEF AInv
<1> QED
  BY <1>1, <1>2, <1>3 DEF Awaits

\* So it does while a Listen goroutine is busy.
LEMMA Busy ==
  ASSUME AInv, NEW m \in Nodes, lpc[m] # "idle"
  PROVE  /\ req.node \in Nodes /\ req.page \in Pages
         /\ lmsg[m].node = req.node /\ lmsg[m].page = req.page
         /\ ~Confirmed
         /\ Awaits(req.node, req.page) /\ cop[req.node][req.page] = req.kind
         /\ \/ lmsg[m].type = "RF" /\ hpc = "waitRC" /\ m = owner[req.page] /\ req.kind = "read"
            \/ lmsg[m].type = "WF" /\ hpc = "waitWC" /\ m = owner[req.page] /\ req.kind = "write"
            \/ /\ lmsg[m].type = "IV" /\ hpc \in {"invalidate", "waitIC"}
               /\ m \in copySet[req.page] /\ req.kind = "write"
<1>1. lmsg[m].type \in {"RF", "WF", "IV"}
  BY DEF AInv, TypeOK, Forward
<1>2. Serving(lmsg[m].node, lmsg[m].page) /\ ~ListenersIdle
  BY DEF AInv, Protocol, ListenerServes, ListenersIdle
<1>3. req.node \in Nodes /\ req.page \in Pages /\ hpc # "idle"
      /\ lmsg[m].node = req.node /\ lmsg[m].page = req.page
  BY <1>2, ServedType DEF AInv, Serving
<1>4. \/ lmsg[m].type = "RF" /\ hpc = "waitRC" /\ m = owner[req.page] /\ req.kind = "read"
      \/ lmsg[m].type = "WF" /\ hpc = "waitWC" /\ m = owner[req.page] /\ req.kind = "write"
      \/ /\ lmsg[m].type = "IV" /\ hpc \in {"invalidate", "waitIC"}
         /\ m \in copySet[req.page] /\ req.kind = "write"
  BY <1>1 DEF AInv, Protocol, ListenerServes, HandlerPhase
<1>5. ~Confirmed
  BY <1>2 DEF AInv, Protocol, PageConfirmed, Confirmed
<1>6. cpc[req.node][req.page] # "confirm"
  BY <1>2, <1>3, NothingSent DEF AInv
<1>7. Awaits(req.node, req.page) /\ cop[req.node][req.page] = req.kind
  BY <1>3, <1>5, <1>6 DEF AInv, Bookkeeping, ServedWaits, Awaits
<1> QED
  BY <1>3, <1>4, <1>5, <1>7

\* While no operation is under way, at most a confirmation is left to be seen.
LEMMA Quiet ==
  ASSUME AInv, AllIdle
  PROVE  /\ ListenersIdle
         /\ \A n \in Nodes, p \in Pages : ~PageSent(n, p) /\ ~Active(n, p)
<1>1. \A n \in Nodes, p \in Pages : ~PageSent(n, p) /\ ~Active(n, p) /\ ~Awaits(n, p)
  BY DEF AllIdle, PageSent, Active, Awaits
<1> QED
  BY <1>1, Busy DEF ListenersIdle

\* An owner is a node.
LEMMA OwnerType ==
  ASSUME TypeOK, NEW p \in Pages, owner[p] # NoNode
  PROVE  owner[p] \in Nodes
  BY DEF TypeOK

\* An operation that awaits its page is under way.
LEMMA AwaitsActive ==
  ASSUME NEW n, NEW p, Awaits(n, p)
  PROVE  Active(n, p)
  BY DEF Awaits, Active

\* While a write of p is about to be assigned, no Listen goroutine is about to touch p, and
\* no page is about to be sent for it.
LEMMA FinishedWrite ==
  ASSUME TInv, NEW n \in Nodes, NEW p \in Pages, cpc[n][p] = "finish", cop[n][p] = "write"
  PROVE  /\ \A m \in Nodes : lpc[m] \in {"apply", "reply"} => lmsg[m].page # p
         /\ hpc = "forward" /\ req.page = p => owner[p] = n
<1> USE DEF TInv, Workload, Programs, Ownership, Coherence
<1>1. access[n][p] = ReadWrite /\ OthersInvalid(n, p) /\ Active(n, p)
  BY DEF WriteFinishesAlone, Active
<1>2. ASSUME NEW m \in Nodes, lpc[m] \in {"apply", "reply"}, lmsg[m].page = p PROVE FALSE
  <2>1. /\ req.node \in Nodes /\ req.page = p /\ Awaits(req.node, p) /\ Active(req.node, p)
        /\ \/ lmsg[m].type \in {"RF", "WF"}
           \/ lmsg[m].type = "IV" /\ m \in copySet[p]
    BY <1>2, Busy, AwaitsActive
  <2>2. req.node # n
    BY <2>1 DEF Awaits
  <2>3. CASE lmsg[m].type = "IV"
    <3>1. round = "writes"
      BY <1>1, <2>1, <2>2 DEF OneOperation
    <3> QED
      BY <2>1, <2>3, <3>1 DEF FirstRound
  <2>4. CASE lmsg[m].type \in {"RF", "WF"}
    <3>1. ~Active(m, p) /\ lpc[m] = "apply" /\ access[m][p] # Invalid
      BY <1>2, <2>4 DEF ForwardsLatest, WriteFinishesAlone
    <3> QED
      BY <1>1, <3>1 DEF OthersInvalid
  <2> QED
    BY <2>1, <2>3, <2>4
<1>3. hpc = "forward" => owner[p] = n
  BY <1>1 DEF AInv, Protocol, WriterIsOwner
<1> QED
  BY <1>2, <1>3

-----------------------------------------------------------------------------
(***************************************************************************)
(* The steps of the clients.                                               *)
(***************************************************************************)

\* What the start of an operation changes.
LEMMA Begins ==
  ASSUME TypeOK, NEW n \in Nodes, NEW p \in Pages, NEW kind \in {"read", "write"}, Begin(n, p, kind)
  PROVE  /\ cpc[n][p] = "idle" /\ cop'[n][p] = kind
         /\ cpc'[n][p] = IF CacheHit(n, p, kind) THEN "finish" ELSE "request"
         /\ \A i \in Nodes, j \in Pages :
              ~(i = n /\ j = p) => cpc'[i][j] = cpc[i][j] /\ cop'[i][j] = cop[i][j]
         /\ \A i \in Nodes : i # n => incoming'[i] = incoming[i] /\ started'[i] = started[i]
         /\ incoming'[n] = IF CacheHit(n, p, kind) THEN incoming[n] ELSE NoPageMsg
         /\ started'[n] # 0
         /\ \A i \in Nodes, j \in Pages : PageSent(i, j)' => PageSent(i, j) /\ incoming'[i] = incoming[i]
         /\ UNCHANGED <<access, data, listenVars, cmVars, panic, latest>>
         /\ Confirmed' = Confirmed /\ \A i, j : Serving(i, j)' = Serving(i, j)
         /\ \A j : WriteServed(j)' = WriteServed(j)
<1>1. UNCHANGED <<access, data, listenVars, cmVars, panic, latest>>
  BY DEF Begin
<1>2. /\ cpc[n][p] = "idle" /\ cop'[n][p] = kind
      /\ cpc'[n][p] = IF CacheHit(n, p, kind) THEN "finish" ELSE "request"
      /\ \A i \in Nodes, j \in Pages :
           ~(i = n /\ j = p) => cpc'[i][j] = cpc[i][j] /\ cop'[i][j] = cop[i][j]
      /\ \A i \in Nodes : i # n => incoming'[i] = incoming[i] /\ started'[i] = started[i]
      /\ incoming'[n] = IF CacheHit(n, p, kind) THEN incoming[n] ELSE NoPageMsg
  BY DEF Begin, TypeOK
<1>3. started'[n] # 0
  BY MaxOpsAssumption DEF Begin, TypeOK
<1>4. \A i \in Nodes, j \in Pages : PageSent(i, j)' => PageSent(i, j) /\ incoming'[i] = incoming[i]
  BY <1>2, PagesAssumption DEF PageSent, NoPageMsg
<1>5. Confirmed' = Confirmed /\ (\A i, j : Serving(i, j)' = Serving(i, j))
      /\ \A j : WriteServed(j)' = WriteServed(j)
  BY <1>1 DEF Confirmed, Serving, WriteServed, cmVars
<1> QED
  BY <1>1, <1>2, <1>3, <1>4, <1>5

\* A node's first write: it has no copy yet, and owns nothing.
LEMMA WorkFirstWrite ==
  ASSUME TInv, AInv', NEW n \in Nodes, NEW p \in Pages, round = "writes", round' = round,
         started[n] = 0, ClientWrite(n, p)
  PROVE  Workload'
<1> USE DEF TInv, AInv, Workload, Programs, Ownership, Coherence, listenVars, cmVars
<1>1. /\ \A q \in Pages : ~Active(n, q) /\ access[n][q] = Invalid /\ owner[q] # n
      /\ \A q \in Pages : copySet[q] = {}
  BY DEF FirstRound
<1>2. ~CacheHit(n, p, "write")
  BY <1>1 DEF CacheHit, Invalid, ReadWrite
<1>3. /\ cpc[n][p] = "idle" /\ cop'[n][p] = "write" /\ cpc'[n][p] = "request"
      /\ \A i \in Nodes, j \in Pages :
           ~(i = n /\ j = p) => cpc'[i][j] = cpc[i][j] /\ cop'[i][j] = cop[i][j]
      /\ \A i \in Nodes : i # n => incoming'[i] = incoming[i] /\ started'[i] = started[i]
      /\ incoming'[n] = NoPageMsg /\ started'[n] # 0
      /\ \A i \in Nodes, j \in Pages : PageSent(i, j)' => PageSent(i, j) /\ incoming'[i] = incoming[i]
      /\ UNCHANGED <<access, data, listenVars, cmVars, panic, latest>>
      /\ Confirmed' = Confirmed /\ \A i, j : Serving(i, j)' = Serving(i, j)
      /\ \A j : WriteServed(j)' = WriteServed(j)
  BY <1>2, Begins DEF ClientWrite
<1>4. OneOperation' /\ FirstRound' /\ ReadRound' /\ ReadsOfWritten'
  BY <1>1, <1>3 DEF OneOperation, FirstRound, ReadRound, ReadsOfWritten, Active
<1>5. ReceivesOwnPage'
  BY <1>1, <1>3 DEF ReceivesOwnPage, Awaits, Active, NoPageMsg
<1>6. WriterIsNew'
  <2>1. owner[p] # n /\ ~(hpc = "waitWC" /\ Serving(n, p) /\ Confirmed)
    BY <1>1 DEF Protocol, PageConfirmed, Confirmed, Serving, Invalid, ReadWrite
  <2> QED
    BY <1>3, <2>1 DEF WriterIsNew, WriteAwaits, Awaits
<1>7. OwnerOutside' /\ FirstWritesAlone'
  BY <1>1, <1>3 DEF OwnerOutside, FirstWritesAlone
<1>8. OwnerHolds' /\ UnownedUnwritten' /\ CopiesLatest'
  BY <1>3 DEF OwnerHolds, UnownedUnwritten, CopiesLatest
<1>9. ForwardsLatest'
  <2>1. ASSUME NEW m \in Nodes, lpc[m] # "idle", lmsg[m].type \in {"RF", "WF"}
        PROVE  m # n /\ lmsg[m].page \in Pages
    BY <1>1, <2>1, Busy
  <2> QED
    BY <1>3, <2>1 DEF ForwardsLatest, Active
<1>10. SentLatest' /\ ReaderHasLatest'
  BY <1>3 DEF SentLatest, ReaderHasLatest
<1>11. WriteFinishesAlone'
  BY <1>3 DEF WriteFinishesAlone, OthersInvalid
<1> QED
  BY <1>3, <1>4, <1>5, <1>6, <1>7, <1>8, <1>9, <1>10, <1>11 DEF NoPanic

\* A read, while nothing else is under way.
LEMMA WorkNextRead ==
  ASSUME TInv, AInv', NEW n \in Nodes, NEW p \in Pages, AllIdle, latest[p] > 0,
         ClientRead(n, p), round' = IF round = "writes" THEN "reads" ELSE round
  PROVE  Workload'
<1> USE DEF TInv, AInv, Workload, Programs, Ownership, Coherence, listenVars, cmVars
<1>1. /\ ListenersIdle
      /\ \A i \in Nodes, j \in Pages : ~PageSent(i, j) /\ ~Active(i, j)
  BY Quiet
<1>2. /\ cop'[n][p] = "read"
      /\ cpc'[n][p] = IF access[n][p] # Invalid THEN "finish" ELSE "request"
      /\ \A i \in Nodes, j \in Pages :
           ~(i = n /\ j = p) => cpc'[i][j] = cpc[i][j] /\ cop'[i][j] = cop[i][j]
      /\ \A i \in Nodes : i # n => incoming'[i] = incoming[i]
      /\ incoming'[n] = IF access[n][p] # Invalid THEN incoming[n] ELSE NoPageMsg
      /\ \A i \in Nodes, j \in Pages : ~PageSent(i, j)'
      /\ UNCHANGED <<access, data, listenVars, cmVars, panic, latest>>
      /\ Confirmed' = Confirmed /\ \A i, j : Serving(i, j)' = Serving(i, j)
      /\ \A j : WriteServed(j)' = WriteServed(j)
  BY <1>1, Begins DEF ClientRead, CacheHit
<1>3. \A i \in Nodes, j \in Pages : Active(i, j)' => i = n /\ j = p
  BY <1>1, <1>2 DEF Active
<1>4. \A i \in Nodes, j \in Pages : ~WriteAwaits(i, j)'
  BY <1>1, <1>2, <1>3 DEF WriteAwaits, Awaits, Active
<1>5. OneOperation' /\ FirstRound' /\ ReadRound' /\ ReadsOfWritten'
  BY <1>2, <1>3 DEF OneOperation, FirstRound, ReadRound, ReadsOfWritten
<1>6. ReceivesOwnPage'
  BY <1>1, <1>2 DEF ReceivesOwnPage, Awaits, Active, NoPageMsg
<1>7. WriterIsNew' /\ OwnerOutside' /\ FirstWritesAlone'
  BY <1>2, <1>4 DEF WriterIsNew, OwnerOutside, FirstWritesAlone
<1>8. OwnerHolds' /\ UnownedUnwritten' /\ CopiesLatest'
  BY <1>2 DEF OwnerHolds, UnownedUnwritten, CopiesLatest
<1>9. ForwardsLatest' /\ SentLatest'
  BY <1>1, <1>2 DEF ForwardsLatest, SentLatest, ListenersIdle
<1>10. ReaderHasLatest'
  BY <1>1, <1>2 DEF ReaderHasLatest, CopiesLatest, Active
<1>11. WriteFinishesAlone'
  BY <1>1, <1>2 DEF WriteFinishesAlone, Active
<1> QED
  BY <1>2, <1>5, <1>6, <1>7, <1>8, <1>9, <1>10, <1>11 DEF NoPanic

\* The second write, by a node that is not recorded as the owner.
LEMMA WorkSecondWrite ==
  ASSUME TInv, AInv', NEW n \in Nodes, NEW p \in Pages, AllIdle, round = "reads", round' = "again",
         owner[p] # n, ClientWrite(n, p)
  PROVE  Workload'
<1> USE DEF TInv, AInv, Workload, Programs, Ownership, Coherence, listenVars, cmVars
<1>1. /\ ListenersIdle
      /\ \A i \in Nodes, j \in Pages : ~PageSent(i, j) /\ ~Active(i, j)
  BY Quiet
<1>2. /\ cop'[n][p] = "write"
      /\ cpc'[n][p] = IF access[n][p] = ReadWrite THEN "finish" ELSE "request"
      /\ \A i \in Nodes, j \in Pages :
           ~(i = n /\ j = p) => cpc'[i][j] = cpc[i][j] /\ cop'[i][j] = cop[i][j]
      /\ \A i \in Nodes : i # n => incoming'[i] = incoming[i]
      /\ incoming'[n] = IF access[n][p] = ReadWrite THEN incoming[n] ELSE NoPageMsg
      /\ \A i \in Nodes, j \in Pages : ~PageSent(i, j)'
      /\ UNCHANGED <<access, data, listenVars, cmVars, panic, latest>>
      /\ Confirmed' = Confirmed /\ \A i, j : Serving(i, j)' = Serving(i, j)
      /\ \A j : WriteServed(j)' = WriteServed(j)
  BY <1>1, Begins DEF ClientWrite, CacheHit
<1>3. \A i \in Nodes, j \in Pages : Active(i, j)' => i = n /\ j = p
  BY <1>1, <1>2 DEF Active
<1>4. OneOperation' /\ FirstRound' /\ ReadRound' /\ ReadsOfWritten'
  BY <1>2, <1>3 DEF OneOperation, FirstRound, ReadRound, ReadsOfWritten
<1>5. ReceivesOwnPage'
  BY <1>1, <1>2 DEF ReceivesOwnPage, Awaits, Active, NoPageMsg
<1>6. WriterIsNew'
  <2>1. access[n][p] # ReadWrite => ~(hpc = "waitWC" /\ Serving(n, p) /\ Confirmed)
    BY DEF Protocol, PageConfirmed, Confirmed, Serving
  <2>2. \A i \in Nodes, j \in Pages :
          WriteAwaits(i, j)' => i = n /\ j = p /\ access[n][p] # ReadWrite
    BY <1>1, <1>2 DEF WriteAwaits, Awaits, Active
  <2> QED
    BY <1>2, <2>1, <2>2 DEF WriterIsNew
<1>7. OwnerOutside' /\ FirstWritesAlone'
  BY <1>2 DEF OwnerOutside, FirstWritesAlone
<1>8. OwnerHolds' /\ UnownedUnwritten' /\ CopiesLatest'
  BY <1>2 DEF OwnerHolds, UnownedUnwritten, CopiesLatest
<1>9. ForwardsLatest' /\ SentLatest'
  BY <1>1, <1>2 DEF ForwardsLatest, SentLatest, ListenersIdle
<1>10. ReaderHasLatest'
  BY <1>1, <1>2 DEF ReaderHasLatest, Active
<1>11. WriteFinishesAlone'
  BY <1>1, <1>2 DEF WriteFinishesAlone, Active, OthersInvalid, Protocol, SingleWriter, ListenersIdle
<1> QED
  BY <1>2, <1>4, <1>5, <1>6, <1>7, <1>8, <1>9, <1>10, <1>11 DEF NoPanic

\* Sending a request changes nothing that this invariant speaks of.
LEMMA WorkSendRequest ==
  ASSUME TInv, AInv', NEW n \in Nodes, NEW p \in Pages, SendRequest(n, p), UNCHANGED round
  PROVE  Workload'
<1> USE DEF TInv, AInv, Workload, Programs, Ownership, Coherence, listenVars, nodeVars
<1>1. /\ cpc[n][p] = "request" /\ cpc'[n][p] \in {"invalidate", "wait"}
      /\ \A i \in Nodes, j \in Pages : ~(i = n /\ j = p) => cpc'[i][j] = cpc[i][j]
      /\ UNCHANGED <<access, data, incoming, cop, started, listenVars, confirmations, hpc, req,
                     owner, copySet, panic, latest>>
  BY DEF SendRequest, TypeOK
<1>2. \A i \in Nodes, j \in Pages :
        /\ Active(i, j)' = Active(i, j) /\ Awaits(i, j)' = Awaits(i, j)
        /\ WriteAwaits(i, j)' = WriteAwaits(i, j) /\ PageSent(i, j)' = PageSent(i, j)
        /\ cpc'[i][j] \in {"confirm", "finish"} => cpc[i][j] = cpc'[i][j]
  BY <1>1 DEF Active, Awaits, WriteAwaits, PageSent
<1>3. Confirmed' = Confirmed /\ (\A i, j : Serving(i, j)' = Serving(i, j))
      /\ \A j : WriteServed(j)' = WriteServed(j)
  BY <1>1 DEF Confirmed, Serving, WriteServed
<1>4. Programs'
  BY <1>1, <1>2 DEF OneOperation, FirstRound, ReadRound, ReadsOfWritten, ReceivesOwnPage
<1>5. Ownership'
  BY <1>1, <1>2, <1>3 DEF WriterIsNew, OwnerOutside, FirstWritesAlone, OwnerHolds, UnownedUnwritten
<1>6. CopiesLatest' /\ SentLatest' /\ ReaderHasLatest'
  BY <1>1, <1>2 DEF CopiesLatest, SentLatest, ReaderHasLatest
<1>7. ForwardsLatest'
  <2>1. ASSUME NEW m \in Nodes, lpc[m] # "idle" PROVE lmsg[m].page \in Pages
    BY <2>1, Busy
  <2> QED
    BY <1>1, <1>2, <2>1 DEF ForwardsLatest
<1>8. WriteFinishesAlone'
  BY <1>1, <1>2 DEF WriteFinishesAlone, OthersInvalid
<1> QED
  BY <1>1, <1>4, <1>5, <1>6, <1>7, <1>8 DEF NoPanic

\* A writer that invalidates its own copy is not the owner.
LEMMA WorkInvalidateOwn ==
  ASSUME TInv, AInv', NEW n \in Nodes, NEW p \in Pages, InvalidateOwn(n, p), UNCHANGED round
  PROVE  Workload'
<1> USE DEF TInv, AInv, Workload, Programs, Ownership, Coherence, listenVars, cmVars
<1>1. /\ cpc[n][p] = "invalidate" /\ cpc'[n][p] = "wait" /\ access'[n][p] = Invalid
      /\ \A i \in Nodes, j \in Pages :
           ~(i = n /\ j = p) => cpc'[i][j] = cpc[i][j] /\ access'[i][j] = access[i][j]
      /\ UNCHANGED <<data, incoming, cop, started, listenVars, cmVars, panic, latest>>
  BY DEF InvalidateOwn, TypeOK
<1>2. \A i \in Nodes, j \in Pages :
        /\ Active(i, j)' = Active(i, j) /\ Awaits(i, j)' = Awaits(i, j)
        /\ WriteAwaits(i, j)' = WriteAwaits(i, j) /\ PageSent(i, j)' = PageSent(i, j)
        /\ cpc'[i][j] \in {"confirm", "finish"} => cpc[i][j] = cpc'[i][j]
  BY <1>1 DEF Active, Awaits, WriteAwaits, PageSent
<1>3. Confirmed' = Confirmed /\ (\A i, j : Serving(i, j)' = Serving(i, j))
      /\ \A j : WriteServed(j)' = WriteServed(j)
  BY <1>1 DEF Confirmed, Serving, WriteServed
<1>4. owner[p] # n
  BY <1>1 DEF Bookkeeping, WriterInvalidates, WriterIsNew, WriteAwaits, Awaits
<1>5. Programs'
  BY <1>1, <1>2 DEF OneOperation, FirstRound, ReadRound, ReadsOfWritten, ReceivesOwnPage
<1>6. Ownership'
  <2>1. OwnerHolds'
    BY <1>1, <1>3, <1>4, OwnerType DEF OwnerHolds
  <2> QED
    BY <1>1, <1>2, <1>3, <2>1 DEF WriterIsNew, OwnerOutside, FirstWritesAlone, UnownedUnwritten
<1>7. CopiesLatest' /\ SentLatest' /\ ReaderHasLatest'
  BY <1>1, <1>2 DEF CopiesLatest, SentLatest, ReaderHasLatest
<1>8. ForwardsLatest'
  <2>1. ASSUME NEW m \in Nodes, lpc[m] # "idle", lmsg[m].type \in {"RF", "WF"}
        PROVE  lmsg[m].page \in Pages /\ ~(m = n /\ lmsg[m].page = p)
    BY <1>4, <2>1, Busy
  <2> QED
    BY <1>1, <1>2, <2>1 DEF ForwardsLatest
<1>9. WriteFinishesAlone'
  BY <1>1, <1>2 DEF WriteFinishesAlone, OthersInvalid
<1> QED
  BY <1>1, <1>5, <1>6, <1>7, <1>8, <1>9 DEF NoPanic

\* The page that arrived is the last write.
LEMMA WorkStorePage ==
  ASSUME TInv, AInv', NEW n \in Nodes, NEW p \in Pages, StorePage(n, p), UNCHANGED round
  PROVE  Workload'
<1> USE DEF TInv, AInv, Workload, Programs, Ownership, Coherence, listenVars, cmVars
<1>1. /\ cpc[n][p] = "wait" /\ cpc'[n][p] = "confirm" /\ access'[n][p] # Invalid
      /\ data'[n][p] = incoming[n].data
      /\ \A i \in Nodes, j \in Pages :
           ~(i = n /\ j = p) => /\ cpc'[i][j] = cpc[i][j] /\ access'[i][j] = access[i][j]
                               /\ data'[i][j] = data[i][j]
      /\ UNCHANGED <<incoming, cop, started, listenVars, cmVars, panic, latest>>
  BY DEF StorePage, TypeOK, Invalid, ReadOnly, ReadWrite
<1>2. PageSent(n, p) /\ ListenersIdle /\ data'[n][p] = latest[p]
  <2>1. PageSent(n, p)
    BY DEF PageSent, StorePage
  <2> QED
    BY <1>1, <2>1, SentPages DEF SentLatest
<1>3. \A i \in Nodes, j \in Pages :
        /\ Active(i, j)' = Active(i, j) /\ (Awaits(i, j)' => Awaits(i, j))
        /\ (WriteAwaits(i, j)' => WriteAwaits(i, j)) /\ (PageSent(i, j)' => PageSent(i, j))
        /\ cpc'[i][j] = "finish" => cpc[i][j] = "finish"
  BY <1>1 DEF Active, Awaits, WriteAwaits, PageSent
<1>4. Confirmed' = Confirmed /\ (\A i, j : Serving(i, j)' = Serving(i, j))
      /\ \A j : WriteServed(j)' = WriteServed(j)
  BY <1>1 DEF Confirmed, Serving, WriteServed
<1>5. Programs'
  <2>1. Active(n, p)
    BY <1>1 DEF Active
  <2> QED
    BY <1>1, <1>3, <2>1 DEF OneOperation, FirstRound, ReadRound, ReadsOfWritten, ReceivesOwnPage
<1>6. Ownership'
  <2>1. OwnerHolds'
    BY <1>1, <1>4, OwnerType DEF OwnerHolds
  <2> QED
    BY <1>1, <1>3, <1>4, <2>1 DEF WriterIsNew, OwnerOutside, FirstWritesAlone, UnownedUnwritten
<1>7. CopiesLatest' /\ SentLatest' /\ ReaderHasLatest'
  BY <1>1, <1>2, <1>3 DEF CopiesLatest, SentLatest, ReaderHasLatest
<1>8. ForwardsLatest'
  BY <1>1, <1>2 DEF ForwardsLatest, ListenersIdle
<1>9. WriteFinishesAlone'
  BY <1>1, <1>2, <1>3 DEF WriteFinishesAlone, OthersInvalid
<1> QED
  BY <1>1, <1>5, <1>6, <1>7, <1>8, <1>9 DEF NoPanic

\* A node that waits to write one page has no WI of another.
LEMMA NoWriteInitForOtherPage ==
  ASSUME TInv, NEW n \in Nodes, NEW p \in Pages, WriteInitForOtherPage(n, p)
  PROVE  FALSE
<1>1. incoming[n].page = NoPage
  BY DEF WriteInitForOtherPage, TInv, Workload, Programs, ReceivesOwnPage, Awaits
<1>2. incoming[n] \in PageMsg
  BY DEF WriteInitForOtherPage, TInv, AInv, TypeOK, NoPageMsg
<1> QED
  BY <1>1, <1>2, PagesAssumption DEF PageMsg

\* The confirmation of the operation in service.
LEMMA WorkSendConfirm ==
  ASSUME TInv, AInv', NEW n \in Nodes, NEW p \in Pages, SendConfirm(n, p), UNCHANGED round
  PROVE  Workload'
<1> USE DEF TInv, AInv, Workload, Programs, Ownership, Coherence, listenVars, nodeVars
<1>1. /\ cpc[n][p] = "confirm" /\ cpc'[n][p] = "finish" /\ cop[n][p] \in {"read", "write"}
      /\ \A i \in Nodes, j \in Pages : ~(i = n /\ j = p) => cpc'[i][j] = cpc[i][j]
      /\ confirmations'[n] = IF cop[n][p] = "read" THEN "RC" ELSE "WC"
      /\ UNCHANGED <<access, data, incoming, cop, started, listenVars, hpc, req, owner, copySet,
                     panic, latest>>
  BY DEF SendConfirm, TypeOK
<1>2. /\ Serving(n, p) /\ ListenersIdle /\ Confirmed'
      /\ cop[n][p] = "write" => access[n][p] = ReadWrite /\ OthersInvalid(n, p)
  BY <1>1 DEF Protocol, PageStored, Confirmed, Serving
<1>3. \A i \in Nodes, j \in Pages :
        /\ Active(i, j)' = Active(i, j) /\ Awaits(i, j)' = Awaits(i, j)
        /\ WriteAwaits(i, j)' = WriteAwaits(i, j) /\ PageSent(i, j)' = PageSent(i, j)
        /\ cpc'[i][j] = "finish" => cpc[i][j] = "finish" \/ (i = n /\ j = p)
        /\ cpc'[i][j] \in {"confirm", "finish"} => cpc[i][j] \in {"confirm", "finish"}
        /\ Serving(i, j)' = Serving(i, j)
  BY <1>1 DEF Active, Awaits, WriteAwaits, PageSent, Serving
<1>4. \A j : WriteServed(j)' = WriteServed(j)
  BY <1>1 DEF WriteServed
<1>5. Programs'
  BY <1>1, <1>3 DEF OneOperation, FirstRound, ReadRound, ReadsOfWritten, ReceivesOwnPage
<1>6. WriterIsNew'
  <2>1. \A i \in Nodes, j \in Pages : Serving(i, j) => ~WriteAwaits(i, j)
    BY <1>1, <1>2 DEF Serving, WriteAwaits, Awaits
  <2> QED
    BY <1>1, <1>3, <2>1 DEF WriterIsNew
<1>7. FirstWritesAlone'
  <2>1. ASSUME round # "writes", NEW i \in Nodes, NEW j \in Pages, WriteAwaits(i, j) PROVE FALSE
    <3>1. Active(i, j) /\ Active(n, p) /\ ~(i = n /\ j = p)
      BY <1>1, <2>1 DEF WriteAwaits, Awaits, Active
    <3> QED
      BY <2>1, <3>1 DEF OneOperation
  <2> QED
    BY <1>1, <1>3, <2>1 DEF FirstWritesAlone
<1>8. OwnerOutside' /\ OwnerHolds' /\ UnownedUnwritten'
  BY <1>1, <1>2, <1>3, <1>4 DEF OwnerOutside, OwnerHolds, UnownedUnwritten
<1>9. CopiesLatest' /\ SentLatest' /\ ReaderHasLatest'
  BY <1>1, <1>3 DEF CopiesLatest, SentLatest, ReaderHasLatest
<1>10. ForwardsLatest'
  BY <1>1, <1>2 DEF ForwardsLatest, ListenersIdle
<1>11. WriteFinishesAlone'
  <2>1. ASSUME NEW m \in Nodes PROVE ~PageSent(m, p)
    BY <1>1, <1>2, SentPages DEF Serving, PageSent
  <2> QED
    BY <1>1, <1>2, <1>3, <2>1 DEF WriteFinishesAlone, OthersInvalid, ListenersIdle
<1> QED
  BY <1>1, <1>5, <1>6, <1>7, <1>8, <1>9, <1>10, <1>11 DEF NoPanic

\* The end of a read.
LEMMA WorkFinishRead ==
  ASSUME TInv, AInv', NEW n \in Nodes, NEW p \in Pages, FinishRead(n, p), UNCHANGED round
  PROVE  Workload'
<1> USE DEF TInv, AInv, Workload, Programs, Ownership, Coherence, listenVars, nodeVars, cmVars
<1>1. /\ cpc[n][p] = "finish" /\ cpc'[n][p] = "idle"
      /\ \A i \in Nodes, j \in Pages : ~(i = n /\ j = p) => cpc'[i][j] = cpc[i][j]
      /\ UNCHANGED <<access, data, incoming, cop, started, listenVars, cmVars, panic, latest>>
  BY DEF FinishRead, TypeOK
<1>2. \A i \in Nodes, j \in Pages :
        /\ (Active(i, j)' => Active(i, j)) /\ Awaits(i, j)' = Awaits(i, j)
        /\ WriteAwaits(i, j)' = WriteAwaits(i, j) /\ PageSent(i, j)' = PageSent(i, j)
        /\ cpc'[i][j] \in {"confirm", "finish"} => cpc[i][j] = cpc'[i][j]
  BY <1>1 DEF Active, Awaits, WriteAwaits, PageSent
<1>3. Confirmed' = Confirmed /\ (\A i, j : Serving(i, j)' = Serving(i, j))
      /\ \A j : WriteServed(j)' = WriteServed(j)
  BY <1>1 DEF Confirmed, Serving, WriteServed
<1>4. Programs'
  BY <1>1, <1>2 DEF OneOperation, FirstRound, ReadRound, ReadsOfWritten, ReceivesOwnPage
<1>5. Ownership'
  BY <1>1, <1>2, <1>3 DEF WriterIsNew, OwnerOutside, FirstWritesAlone, OwnerHolds, UnownedUnwritten
<1>6. CopiesLatest' /\ SentLatest' /\ ReaderHasLatest'
  BY <1>1, <1>2 DEF CopiesLatest, SentLatest, ReaderHasLatest
<1>7. ForwardsLatest'
  <2>1. ASSUME NEW m \in Nodes, lpc[m] # "idle" PROVE lmsg[m].page \in Pages
    BY <2>1, Busy
  <2> QED
    BY <1>1, <1>2, <2>1 DEF ForwardsLatest
<1>8. WriteFinishesAlone'
  BY <1>1, <1>2 DEF WriteFinishesAlone, OthersInvalid
<1> QED
  BY <1>1, <1>4, <1>5, <1>6, <1>7, <1>8 DEF NoPanic

\* The assignment of a write: the writer has the only copy, and nobody reads.
LEMMA WorkFinishWrite ==
  ASSUME TInv, AInv', NEW n \in Nodes, NEW p \in Pages, FinishWrite(n, p), UNCHANGED round
  PROVE  Workload'
<1> USE DEF TInv, AInv, Workload, Programs, Ownership, Coherence, listenVars, cmVars
<1>1. /\ cpc[n][p] = "finish" /\ cop[n][p] = "write" /\ cpc'[n][p] = "idle"
      /\ \A i \in Nodes, j \in Pages : ~(i = n /\ j = p) => cpc'[i][j] = cpc[i][j] /\ data'[i][j] = data[i][j]
      /\ latest'[p] = latest[p] + 1 /\ latest[p] \in Nat /\ data'[n][p] = latest'[p]
      /\ \A j \in Pages : j # p => latest'[j] = latest[j]
      /\ UNCHANGED <<access, incoming, cop, started, listenVars, cmVars, panic>>
  BY DEF FinishWrite, TypeOK
<1>2. \A i \in Nodes, j \in Pages :
        /\ (Active(i, j)' => Active(i, j)) /\ Awaits(i, j)' = Awaits(i, j)
        /\ WriteAwaits(i, j)' = WriteAwaits(i, j) /\ PageSent(i, j)' = PageSent(i, j)
        /\ cpc'[i][j] \in {"confirm", "finish"} => cpc[i][j] = cpc'[i][j] /\ ~(i = n /\ j = p)
  BY <1>1 DEF Active, Awaits, WriteAwaits, PageSent
<1>3. Confirmed' = Confirmed /\ (\A i, j : Serving(i, j)' = Serving(i, j))
      /\ \A j : WriteServed(j)' = WriteServed(j)
  BY <1>1 DEF Confirmed, Serving, WriteServed
<1>4. /\ access[n][p] = ReadWrite /\ OthersInvalid(n, p) /\ Active(n, p)
      /\ \A m \in Nodes : ~PageSent(m, p)
      /\ \A m \in Nodes : lpc[m] \in {"apply", "reply"} => lmsg[m].page # p
  BY <1>1, FinishedWrite DEF WriteFinishesAlone, Active
<1>5. Programs'
  <2>1. ReadsOfWritten'
    BY <1>1, <1>2 DEF ReadsOfWritten
  <2> QED
    BY <1>1, <1>2, <2>1 DEF OneOperation, FirstRound, ReadRound, ReceivesOwnPage
<1>6. UnownedUnwritten'
  <2>1. owner[p] = n \/ (hpc = "waitWC" /\ req.page = p /\ Confirmed)
    BY <1>1, <1>4 DEF Protocol, WriterIsOwner, Serving, Bookkeeping, ServedWaits
  <2> QED
    BY <1>1, <1>3, <2>1, NodesAssumption DEF UnownedUnwritten
<1>7. WriterIsNew' /\ OwnerOutside' /\ FirstWritesAlone' /\ OwnerHolds'
  BY <1>1, <1>2, <1>3 DEF WriterIsNew, OwnerOutside, FirstWritesAlone, OwnerHolds
<1>8. CopiesLatest'
  BY <1>1, <1>4 DEF CopiesLatest, OthersInvalid
<1>9. ForwardsLatest'
  <2>1. ASSUME NEW m \in Nodes, lpc[m] # "idle" PROVE lmsg[m].page \in Pages
    BY <2>1, Busy
  <2> QED
    BY <1>1, <1>2, <1>4, <2>1 DEF ForwardsLatest
<1>10. SentLatest'
  BY <1>1, <1>2, <1>4 DEF SentLatest
<1>11. ReaderHasLatest'
  <2>1. ASSUME NEW m \in Nodes, cpc[m][p] \in {"confirm", "finish"}, cop[m][p] = "read" PROVE FALSE
    <3>1. Active(m, p) /\ m # n
      BY <1>1, <2>1 DEF Active
    <3> QED
      BY <1>4, <2>1, <3>1 DEF OneOperation, FirstRound
  <2> QED
    BY <1>1, <1>2, <2>1 DEF ReaderHasLatest
<1>12. WriteFinishesAlone'
  BY <1>1, <1>2 DEF WriteFinishesAlone, OthersInvalid
<1> QED
  BY <1>1, <1>5, <1>6, <1>7, <1>8, <1>9, <1>10, <1>11, <1>12 DEF NoPanic

-----------------------------------------------------------------------------
(***************************************************************************)
(* The steps of the Listen goroutines.                                     *)
(***************************************************************************)

\* A Listen goroutine passes the lock when no client is on the page.
LEMMA WorkPassPageLock ==
  ASSUME TInv, AInv', NEW n \in Nodes, PassPageLock(n), UNCHANGED round
  PROVE  Workload'
<1> USE DEF TInv, AInv, Workload, Programs, Ownership, Coherence, clientVars, nodeVars, cmVars
<1>1. /\ lpc[n] = "lock" /\ cpc[n][lmsg[n].page] = "idle" /\ lpc'[n] = "apply"
      /\ \A m \in Nodes : m # n => lpc'[m] = lpc[m]
      /\ UNCHANGED <<access, data, incoming, cpc, cop, started, lmsg, cmVars, panic, latest>>
  BY DEF PassPageLock, TypeOK
<1>2. \A i, j : /\ Active(i, j)' = Active(i, j) /\ Awaits(i, j)' = Awaits(i, j)
                /\ WriteAwaits(i, j)' = WriteAwaits(i, j) /\ PageSent(i, j)' = PageSent(i, j)
                /\ Serving(i, j)' = Serving(i, j)
  BY <1>1 DEF Active, Awaits, WriteAwaits, PageSent, Serving
<1>3. Confirmed' = Confirmed /\ \A j : WriteServed(j)' = WriteServed(j)
  BY <1>1 DEF Confirmed, WriteServed
<1>4. Programs'
  BY <1>1, <1>2 DEF OneOperation, FirstRound, ReadRound, ReadsOfWritten, ReceivesOwnPage
<1>5. Ownership'
  BY <1>1, <1>2, <1>3 DEF WriterIsNew, OwnerOutside, FirstWritesAlone, OwnerHolds, UnownedUnwritten
<1>6. CopiesLatest' /\ SentLatest' /\ ReaderHasLatest'
  BY <1>1, <1>2 DEF CopiesLatest, SentLatest, ReaderHasLatest
<1>7. ForwardsLatest'
  BY <1>1, <1>2 DEF ForwardsLatest, Active
<1>8. WriteFinishesAlone'
  BY <1>1, <1>2 DEF WriteFinishesAlone, OthersInvalid
<1> QED
  BY <1>1, <1>4, <1>5, <1>6, <1>7, <1>8 DEF NoPanic

\* An RF or WF finds the last write; an IV never reaches the owner.
LEMMA WorkApplyForward ==
  ASSUME TInv, AInv', NEW n \in Nodes, ApplyForward(n), UNCHANGED round
  PROVE  Workload'
<1> USE DEF TInv, AInv, Workload, Programs, Ownership, Coherence, clientVars, cmVars
<1>1. PICK p \in Pages :
        /\ p = lmsg[n].page /\ p = req.page
        /\ lpc[n] = "apply" /\ lpc'[n] = "reply"
        /\ lmsg'[n].data \in ReadableData(n, p)
        /\ lmsg'[n].type = lmsg[n].type /\ lmsg'[n].page = p
        /\ access'[n][p] = IF lmsg[n].type = "RF" THEN ReadOnly ELSE Invalid
        /\ \A i \in Nodes, j \in Pages : ~(i = n /\ j = p) => access'[i][j] = access[i][j]
        /\ \A m \in Nodes : m # n => lpc'[m] = lpc[m] /\ lmsg'[m] = lmsg[m]
        /\ UNCHANGED <<data, incoming, cpc, cop, started, cmVars, panic, latest>>
  <2>1. lpc[n] = "apply" /\ lmsg[n] \in Forward /\ lmsg[n].page \in Pages /\ lmsg[n].page = req.page
    BY Busy DEF ApplyForward, TypeOK
  <2> QED
    BY <2>1 DEF ApplyForward, TypeOK, Forward
<1>2. \A i, j : /\ Active(i, j)' = Active(i, j) /\ Awaits(i, j)' = Awaits(i, j)
                /\ WriteAwaits(i, j)' = WriteAwaits(i, j) /\ PageSent(i, j)' = PageSent(i, j)
                /\ Serving(i, j)' = Serving(i, j)
  BY <1>1 DEF Active, Awaits, WriteAwaits, PageSent, Serving
<1>3. Confirmed' = Confirmed /\ \A j : WriteServed(j)' = WriteServed(j)
  BY <1>1 DEF Confirmed, WriteServed
<1>4. /\ req.node \in Nodes /\ Active(req.node, p) /\ cop[req.node][p] = req.kind
      /\ \/ lmsg[n].type = "RF" /\ hpc = "waitRC" /\ n = owner[p] /\ req.kind = "read"
         \/ lmsg[n].type = "WF" /\ hpc = "waitWC" /\ n = owner[p] /\ WriteServed(p)
         \/ lmsg[n].type = "IV" /\ n # owner[p]
  <2>1. /\ req.node \in Nodes /\ Awaits(req.node, p) /\ cop[req.node][p] = req.kind
        /\ \/ lmsg[n].type = "RF" /\ hpc = "waitRC" /\ n = owner[p] /\ req.kind = "read"
           \/ lmsg[n].type = "WF" /\ hpc = "waitWC" /\ n = owner[p] /\ req.kind = "write"
           \/ lmsg[n].type = "IV" /\ n \in copySet[p] /\ req.kind = "write"
    BY <1>1, Busy
  <2>2. lmsg[n].type = "IV" => n # owner[p]
    BY <2>1 DEF OwnerOutside, WriteAwaits
  <2> QED
    BY <1>1, <2>1, <2>2, AwaitsActive DEF WriteServed
<1>5. lmsg[n].type \in {"RF", "WF"} =>
        access[n][p] # Invalid /\ ~Active(n, p) /\ lmsg'[n].data = latest[p]
  BY <1>1 DEF ForwardsLatest, CopiesLatest, ReadableData, Active
<1>6. \A i \in Nodes : ~(cpc[i][p] = "finish" /\ cop[i][p] = "write")
  BY <1>1, FinishedWrite
<1>7. Programs'
  <2>1. FirstRound'
    BY <1>1, <1>2, <1>4 DEF FirstRound
  <2> QED
    BY <1>1, <1>2, <2>1 DEF OneOperation, ReadRound, ReadsOfWritten, ReceivesOwnPage
<1>8. Ownership'
  <2>1. OwnerHolds'
    BY <1>1, <1>3, <1>4, OwnerType DEF OwnerHolds, Invalid, ReadOnly
  <2> QED
    BY <1>1, <1>2, <1>3, <2>1 DEF WriterIsNew, OwnerOutside, FirstWritesAlone, UnownedUnwritten
<1>9. CopiesLatest' /\ SentLatest' /\ ReaderHasLatest'
  <2>1. CopiesLatest'
    BY <1>1, <1>5 DEF CopiesLatest
  <2> QED
    BY <1>1, <1>2, <2>1 DEF SentLatest, ReaderHasLatest
<1>10. ForwardsLatest'
  <2>1. ASSUME NEW m \in Nodes, lpc'[m] # "idle", lmsg'[m].type \in {"RF", "WF"}
        PROVE  /\ lpc'[m] \in {"lock", "apply"} => access'[m][lmsg'[m].page] # Invalid
               /\ lpc'[m] \in {"apply", "reply"} => ~Active(m, lmsg'[m].page)
               /\ lpc'[m] = "reply" => lmsg'[m].data = latest[lmsg'[m].page]
    <3>1. CASE m = n
      BY <1>1, <1>5, <2>1, <3>1
    <3>2. CASE m # n
      <4>1. lmsg[m].page \in Pages
        BY <1>1, <2>1, <3>2, Busy
      <4> QED
        BY <1>1, <2>1, <3>2, <4>1 DEF ForwardsLatest
    <3> QED
      BY <3>1, <3>2
  <2> QED
    BY <1>1, <1>2, <2>1 DEF ForwardsLatest
<1>11. WriteFinishesAlone'
  BY <1>1, <1>2, <1>6 DEF WriteFinishesAlone, OthersInvalid
<1> QED
  BY <1>1, <1>7, <1>8, <1>9, <1>10, <1>11 DEF NoPanic

\* The page sent is the last write, and its receiver waits for no other page.
LEMMA WorkSendPage ==
  ASSUME TInv, AInv', NEW n \in Nodes, SendPage(n), UNCHANGED round
  PROVE  Workload'
<1> USE DEF TInv, AInv, Workload, Programs, Ownership, Coherence, clientVars, cmVars
<1>1. PICK p \in Pages, r \in Nodes :
        /\ p = req.page /\ r = req.node /\ p = lmsg[n].page
        /\ lpc[n] = "reply" /\ lmsg[n].type \in {"RF", "WF"} /\ lmsg[n].data = latest[p]
        /\ lpc'[n] = "idle"
        /\ incoming'[r].page = p /\ incoming'[r].data = latest[p]
        /\ Active(r, p)
        /\ \A i \in Nodes : i # r => incoming'[i] = incoming[i]
        /\ \A m \in Nodes : m # n => lpc'[m] = lpc[m] /\ lmsg'[m] = lmsg[m]
        /\ UNCHANGED <<access, data, cpc, cop, started, cmVars, panic, latest>>
  <2>1. lpc[n] = "reply" /\ lmsg[n].type \in {"RF", "WF"}
    BY DEF SendPage
  <2>2. /\ req.page \in Pages /\ req.node \in Nodes /\ lmsg[n].page = req.page
        /\ lmsg[n].node = req.node /\ Active(req.node, req.page)
    BY <2>1, Busy, AwaitsActive
  <2>3. lmsg[n].data = latest[req.page]
    BY <2>1, <2>2 DEF ForwardsLatest
  <2> QED
    BY <2>1, <2>2, <2>3 DEF SendPage, TypeOK
<1>2. \A i, j : /\ Active(i, j)' = Active(i, j) /\ Awaits(i, j)' = Awaits(i, j)
                /\ WriteAwaits(i, j)' = WriteAwaits(i, j) /\ Serving(i, j)' = Serving(i, j)
  BY <1>1 DEF Active, Awaits, WriteAwaits, Serving
<1>3. \A i \in Nodes, j \in Pages :
        PageSent(i, j)' => \/ PageSent(i, j) /\ incoming'[i] = incoming[i]
                           \/ i = r /\ j = p
  BY <1>1 DEF PageSent
<1>4. Confirmed' = Confirmed /\ \A j : WriteServed(j)' = WriteServed(j)
  BY <1>1 DEF Confirmed, WriteServed
<1>5. \A i \in Nodes : ~(cpc[i][p] = "finish" /\ cop[i][p] = "write")
  BY <1>1, FinishedWrite
<1>6. Programs'
  <2>1. \A j \in Pages : Awaits(r, j) => j = p
    BY <1>1, AwaitsActive DEF OneOperation
  <2>2. ReceivesOwnPage'
    BY <1>1, <1>2, <2>1 DEF ReceivesOwnPage
  <2> QED
    BY <1>1, <1>2, <2>2 DEF OneOperation, FirstRound, ReadRound, ReadsOfWritten
<1>7. Ownership'
  BY <1>1, <1>2, <1>4 DEF WriterIsNew, OwnerOutside, FirstWritesAlone, OwnerHolds, UnownedUnwritten
<1>8. CopiesLatest' /\ SentLatest' /\ ReaderHasLatest'
  BY <1>1, <1>3 DEF CopiesLatest, SentLatest, ReaderHasLatest
<1>9. ForwardsLatest'
  BY <1>1, <1>2 DEF ForwardsLatest
<1>10. WriteFinishesAlone'
  BY <1>1, <1>3, <1>5 DEF WriteFinishesAlone, OthersInvalid
<1> QED
  BY <1>1, <1>6, <1>7, <1>8, <1>9, <1>10 DEF NoPanic

\* An IC leaves everything but the confirmations.
LEMMA WorkSendInvalidateConfirm ==
  ASSUME TInv, AInv', NEW n \in Nodes, SendInvalidateConfirm(n), UNCHANGED round
  PROVE  Workload'
<1> USE DEF TInv, AInv, Workload, Programs, Ownership, Coherence, clientVars, nodeVars
<1>1. /\ lpc[n] = "reply" /\ lmsg[n].type = "IV" /\ lpc'[n] = "idle"
      /\ \A m \in Nodes : m # n => lpc'[m] = lpc[m] /\ lmsg'[m] = lmsg[m]
      /\ UNCHANGED <<access, data, incoming, cpc, cop, started, hpc, req, owner, copySet, panic, latest>>
  BY DEF SendInvalidateConfirm, TypeOK
<1>2. \A i, j : /\ Active(i, j)' = Active(i, j) /\ Awaits(i, j)' = Awaits(i, j)
                /\ WriteAwaits(i, j)' = WriteAwaits(i, j) /\ PageSent(i, j)' = PageSent(i, j)
                /\ Serving(i, j)' = Serving(i, j)
  BY <1>1 DEF Active, Awaits, WriteAwaits, PageSent, Serving
<1>3. ~Confirmed /\ ~Confirmed' /\ \A j : WriteServed(j)' = WriteServed(j)
  BY <1>1, Busy DEF Confirmed, WriteServed
<1>4. Programs'
  BY <1>1, <1>2 DEF OneOperation, FirstRound, ReadRound, ReadsOfWritten, ReceivesOwnPage
<1>5. Ownership'
  BY <1>1, <1>2, <1>3 DEF WriterIsNew, OwnerOutside, FirstWritesAlone, OwnerHolds, UnownedUnwritten
<1>6. CopiesLatest' /\ SentLatest' /\ ReaderHasLatest'
  BY <1>1, <1>2 DEF CopiesLatest, SentLatest, ReaderHasLatest
<1>7. ForwardsLatest'
  BY <1>1, <1>2 DEF ForwardsLatest
<1>8. WriteFinishesAlone'
  BY <1>1, <1>2 DEF WriteFinishesAlone, OthersInvalid
<1> QED
  BY <1>1, <1>4, <1>5, <1>6, <1>7, <1>8 DEF NoPanic

-----------------------------------------------------------------------------
(***************************************************************************)
(* The steps of the RequestHandler.                                        *)
(***************************************************************************)

\* These steps leave the programs and what the copies hold alone.
LEMMA HandlerFrame ==
  ASSUME TInv, UNCHANGED <<access, data, incoming, clientVars, listenVars, latest, round>>
  PROVE  /\ Coherence'
         /\ OneOperation' /\ ReadRound' /\ ReadsOfWritten' /\ ReceivesOwnPage'
         /\ \A i, j : /\ Active(i, j)' = Active(i, j) /\ Awaits(i, j)' = Awaits(i, j)
                      /\ WriteAwaits(i, j)' = WriteAwaits(i, j)
<1> USE DEF TInv, Workload, Programs, Coherence, clientVars, listenVars
<1>1. \A i, j : /\ Active(i, j)' = Active(i, j) /\ Awaits(i, j)' = Awaits(i, j)
                /\ WriteAwaits(i, j)' = WriteAwaits(i, j) /\ PageSent(i, j)' = PageSent(i, j)
  BY DEF Active, Awaits, WriteAwaits, PageSent
<1>2. OneOperation' /\ ReadRound' /\ ReadsOfWritten' /\ ReceivesOwnPage'
  BY <1>1 DEF OneOperation, ReadRound, ReadsOfWritten, ReceivesOwnPage
<1>3. CopiesLatest' /\ SentLatest' /\ ReaderHasLatest' /\ ForwardsLatest' /\ WriteFinishesAlone'
  BY <1>1 DEF CopiesLatest, SentLatest, ReaderHasLatest, ForwardsLatest, WriteFinishesAlone,
              OthersInvalid
<1> QED
  BY <1>1, <1>2, <1>3

\* A read is of a page that has an owner, which is another node.
LEMMA WorkRecvReadRequest ==
  ASSUME TInv, AInv', NEW r \in requests, RecvReadRequest(r), UNCHANGED round
  PROVE  Workload'
<1> USE DEF TInv, AInv, Workload, Programs, Ownership
<1>1. /\ r.kind = "read" /\ r.node \in Nodes /\ r.page \in Pages
      /\ cop[r.node][r.page] = "read" /\ cpc[r.node][r.page] = "wait"
  BY RequestType DEF Bookkeeping, RequestsWait, RecvReadRequest
<1>2. hpc = "idle" /\ req' = r /\ UNCHANGED <<nodeVars, clientVars, listenVars, owner, latest>>
  BY DEF RecvReadRequest
<1>3. Active(r.node, r.page) /\ latest[r.page] > 0 /\ latest[r.page] \in Nat
  BY <1>1 DEF Active, ReadsOfWritten, TypeOK
<1>4. owner[r.page] # NoNode
  BY <1>1, <1>2, <1>3 DEF UnownedUnwritten
<1>5. r.node # owner[r.page]
  BY DEF RecvReadRequest, Bookkeeping, HandlerAssertions
<1>6. /\ hpc' = "forward" /\ UNCHANGED panic
      /\ copySet' = [copySet EXCEPT ![r.page] = @ \cup {r.node}]
  BY <1>4, <1>5 DEF RecvReadRequest
<1>7. /\ Coherence' /\ OneOperation' /\ ReadRound' /\ ReadsOfWritten' /\ ReceivesOwnPage'
      /\ \A i, j : /\ Active(i, j)' = Active(i, j) /\ WriteAwaits(i, j)' = WriteAwaits(i, j)
  BY <1>2, HandlerFrame DEF nodeVars
<1>8. FirstRound'
  BY <1>1, <1>3 DEF FirstRound
<1>9. WriterIsNew' /\ OwnerHolds' /\ UnownedUnwritten'
  BY <1>2, <1>6, <1>7 DEF WriterIsNew, OwnerHolds, UnownedUnwritten, nodeVars
<1>10. OwnerOutside'
  BY <1>2, <1>5, <1>6, <1>7 DEF OwnerOutside, TypeOK
<1>11. FirstWritesAlone'
  BY <1>1, <1>2 DEF FirstWritesAlone
<1> QED
  BY <1>6, <1>7, <1>8, <1>9, <1>10, <1>11 DEF NoPanic

\* A write in the first round finds no copy set, and after it there is one write at most.
LEMMA WorkRecvWriteRequest ==
  ASSUME TInv, AInv', NEW r \in requests, RecvWriteRequest(r), UNCHANGED round
  PROVE  Workload'
<1> USE DEF TInv, AInv, Workload, Programs, Ownership
<1>1. /\ r.kind = "write" /\ r.node \in Nodes /\ r.page \in Pages
      /\ cop[r.node][r.page] = "write" /\ cpc[r.node][r.page] # "idle"
  BY RequestType DEF Bookkeeping, RequestsWait, RecvWriteRequest
<1>2. /\ hpc = "idle" /\ req' = r /\ hpc' = "invalidate"
      /\ UNCHANGED <<nodeVars, clientVars, listenVars, owner, copySet, panic, latest>>
  BY DEF RecvWriteRequest
<1>3. /\ Coherence' /\ OneOperation' /\ ReadRound' /\ ReadsOfWritten' /\ ReceivesOwnPage'
      /\ \A i, j : /\ Active(i, j)' = Active(i, j) /\ WriteAwaits(i, j)' = WriteAwaits(i, j)
  BY <1>2, HandlerFrame DEF nodeVars
<1>4. FirstRound' /\ WriterIsNew' /\ OwnerOutside' /\ OwnerHolds' /\ UnownedUnwritten'
  BY <1>2, <1>3 DEF FirstRound, WriterIsNew, OwnerOutside, OwnerHolds, UnownedUnwritten, nodeVars,
                    clientVars
<1>5. FirstWritesAlone'
  <2>1. ~Confirmed' /\ round # "reads"
    BY <1>1, <1>2 DEF Confirmed, ReadRound, Active
  <2> QED
    BY <1>2, <2>1 DEF FirstWritesAlone, FirstRound
<1> QED
  BY <1>2, <1>3, <1>4, <1>5 DEF NoPanic

\* An IV is neither an RF nor a WF.
LEMMA WorkSendInvalidate ==
  ASSUME TInv, AInv', NEW m \in Nodes, SendInvalidate(m), UNCHANGED round
  PROVE  Workload'
<1> USE DEF TInv, AInv, Workload, Programs, Ownership, Coherence, nodeVars, clientVars
<1>1. /\ lmsg'[m].type = "IV" /\ \A i \in Nodes : i # m => lpc'[i] = lpc[i] /\ lmsg'[i] = lmsg[i]
      /\ UNCHANGED <<access, data, incoming, cpc, cop, started, confirmations, hpc, req, owner,
                     copySet, panic, latest>>
  BY DEF SendInvalidate, Deliver, TypeOK
<1>2. \A i, j : /\ Active(i, j)' = Active(i, j) /\ Awaits(i, j)' = Awaits(i, j)
                /\ WriteAwaits(i, j)' = WriteAwaits(i, j) /\ PageSent(i, j)' = PageSent(i, j)
                /\ Serving(i, j)' = Serving(i, j)
  BY <1>1 DEF Active, Awaits, WriteAwaits, PageSent, Serving
<1>3. Confirmed' = Confirmed /\ \A j : WriteServed(j)' = WriteServed(j)
  BY <1>1 DEF Confirmed, WriteServed
<1>4. Programs'
  BY <1>1, <1>2 DEF OneOperation, FirstRound, ReadRound, ReadsOfWritten, ReceivesOwnPage
<1>5. Ownership'
  BY <1>1, <1>2, <1>3 DEF WriterIsNew, OwnerOutside, FirstWritesAlone, OwnerHolds, UnownedUnwritten
<1>6. CopiesLatest' /\ SentLatest' /\ ReaderHasLatest'
  BY <1>1, <1>2 DEF CopiesLatest, SentLatest, ReaderHasLatest
<1>7. ForwardsLatest'
  BY <1>1, <1>2 DEF ForwardsLatest
<1>8. WriteFinishesAlone'
  BY <1>1, <1>2 DEF WriteFinishesAlone, OthersInvalid
<1> QED
  BY <1>1, <1>4, <1>5, <1>6, <1>7, <1>8 DEF NoPanic

\* The IVs are sent and confirmed.
LEMMA WorkInvalidated ==
  ASSUME TInv, AInv', AllInvalidatesSent \/ AllInvalidatesConfirmed, UNCHANGED round
  PROVE  Workload'
<1> USE DEF TInv, AInv, Workload, Programs, Ownership
<1>1. /\ hpc \in {"invalidate", "waitIC"} /\ hpc' \in {"waitIC", "forward"}
      /\ UNCHANGED <<nodeVars, clientVars, listenVars, confirmations, req, owner, copySet, panic, latest>>
  BY DEF AllInvalidatesSent, AllInvalidatesConfirmed, Bookkeeping, HandlerAssertions
<1>2. req.kind = "write"
  BY <1>1 DEF Protocol, HandlerPhase
<1>3. /\ Coherence' /\ OneOperation' /\ ReadRound' /\ ReadsOfWritten' /\ ReceivesOwnPage'
      /\ \A i, j : /\ Active(i, j)' = Active(i, j) /\ WriteAwaits(i, j)' = WriteAwaits(i, j)
  BY <1>1, HandlerFrame DEF nodeVars
<1>4. ~Confirmed /\ ~Confirmed'
  BY <1>1 DEF Confirmed
<1>5. FirstRound' /\ WriterIsNew' /\ OwnerOutside' /\ OwnerHolds' /\ UnownedUnwritten'
  BY <1>1, <1>3 DEF FirstRound, WriterIsNew, OwnerOutside, OwnerHolds, UnownedUnwritten, nodeVars,
                    clientVars
<1>6. FirstWritesAlone'
  BY <1>1, <1>2, <1>4 DEF FirstWritesAlone
<1> QED
  BY <1>1, <1>3, <1>5, <1>6 DEF NoPanic

\* The forward finds the page valid at its owner.
LEMMA WorkForward ==
  ASSUME TInv, AInv', SendReadForward \/ SendWriteForward, UNCHANGED round
  PROVE  Workload'
<1> USE DEF TInv, AInv, Workload, Programs, Ownership, Coherence, nodeVars, clientVars
<1>1. /\ hpc = "forward" /\ hpc' \in {"waitRC", "waitWC"} /\ owner[req.page] # NoNode
      /\ hpc' = "waitWC" <=> req.kind = "write"
      /\ UNCHANGED <<access, data, incoming, cpc, cop, started, confirmations, req, owner,
                     copySet, latest>>
  BY DEF SendReadForward, SendWriteForward
<1>2. PICK m \in Nodes, p \in Pages : m = owner[p] /\ p = req.page /\ access[m][p] # Invalid
  BY <1>1, InService, OwnerType DEF OwnerHolds
<1>3. /\ panic' = panic /\ lpc'[m] = "lock" /\ lmsg'[m].page = p /\ lpc[m] = "idle"
      /\ \A i \in Nodes : i # m => lpc'[i] = lpc[i] /\ lmsg'[i] = lmsg[i]
  BY <1>2 DEF SendReadForward, SendWriteForward, Deliver, TypeOK
<1>4. \A i, j : /\ Active(i, j)' = Active(i, j) /\ Awaits(i, j)' = Awaits(i, j)
                /\ WriteAwaits(i, j)' = WriteAwaits(i, j) /\ PageSent(i, j)' = PageSent(i, j)
  BY <1>1 DEF Active, Awaits, WriteAwaits, PageSent
<1>5. ~Confirmed /\ (hpc' = "waitWC" => ~Confirmed')
  <2>1. req.kind = "write" => confirmations[req.node] # "WC"
    BY <1>1, InService DEF Protocol, HandlerPhase
  <2> QED
    BY <1>1, <2>1 DEF Confirmed
<1>6. Programs'
  BY <1>1, <1>4 DEF OneOperation, FirstRound, ReadRound, ReadsOfWritten, ReceivesOwnPage
<1>7. WriterIsNew' /\ OwnerOutside' /\ UnownedUnwritten'
  BY <1>1, <1>4, <1>5 DEF WriterIsNew, OwnerOutside, UnownedUnwritten
<1>8. FirstWritesAlone'
  BY <1>1, <1>4, <1>5 DEF FirstWritesAlone
<1>9. OwnerHolds'
  BY <1>1 DEF OwnerHolds
<1>10. CopiesLatest' /\ SentLatest' /\ ReaderHasLatest'
  BY <1>1, <1>4 DEF CopiesLatest, SentLatest, ReaderHasLatest
<1>11. ForwardsLatest'
  BY <1>1, <1>2, <1>3, <1>4 DEF ForwardsLatest
<1>12. WriteFinishesAlone'
  BY <1>1, <1>3, <1>4 DEF WriteFinishesAlone, OthersInvalid
<1> QED
  BY <1>3, <1>6, <1>7, <1>8, <1>9, <1>10, <1>11, <1>12 DEF NoPanic

\* The WI of a page without owner carries its first, empty, version.
LEMMA WorkSendWriteInit ==
  ASSUME TInv, AInv', SendWriteInit, UNCHANGED round
  PROVE  Workload'
<1> USE DEF TInv, AInv, Workload, Programs, Ownership, Coherence, clientVars, listenVars
<1>1. PICK p \in Pages, r \in Nodes :
        /\ p = req.page /\ r = req.node /\ owner[p] = NoNode /\ hpc = "forward"
        /\ req.kind = "write" /\ hpc' = "waitWC" /\ Active(r, p) /\ latest[p] = 0
        /\ incoming'[r].page = p /\ incoming'[r].data = 0
        /\ \A i \in Nodes : i # r => incoming'[i] = incoming[i]
        /\ UNCHANGED <<access, data, cpc, cop, started, listenVars, confirmations, req, owner,
                       copySet, panic, latest>>
  <2>1. req.page \in Pages /\ req.node \in Nodes /\ Active(req.node, req.page)
    BY InService, AwaitsActive DEF SendWriteInit
  <2>2. latest[req.page] = 0
    BY <2>1 DEF SendWriteInit, UnownedUnwritten
  <2> QED
    BY <2>1, <2>2 DEF SendWriteInit, TypeOK
<1>2. \A i, j : /\ Active(i, j)' = Active(i, j) /\ Awaits(i, j)' = Awaits(i, j)
                /\ WriteAwaits(i, j)' = WriteAwaits(i, j)
  BY <1>1 DEF Active, Awaits, WriteAwaits
<1>3. \A i \in Nodes, j \in Pages :
        PageSent(i, j)' => \/ PageSent(i, j) /\ incoming'[i] = incoming[i]
                           \/ i = r /\ j = p
  BY <1>1 DEF PageSent
<1>4. ~Confirmed /\ ~Confirmed'
  <2>1. confirmations[req.node] # "WC"
    BY <1>1 DEF Protocol, HandlerPhase
  <2> QED
    BY <1>1, <2>1 DEF Confirmed
<1>5. \A i \in Nodes : ~(cpc[i][p] = "finish" /\ cop[i][p] = "write")
  BY <1>1, FinishedWrite, NodesAssumption
<1>6. Programs'
  <2>1. \A j \in Pages : Awaits(r, j) => j = p
    BY <1>1, AwaitsActive DEF OneOperation
  <2>2. ReceivesOwnPage'
    BY <1>1, <1>2, <2>1 DEF ReceivesOwnPage
  <2> QED
    BY <1>1, <1>2, <2>2 DEF OneOperation, FirstRound, ReadRound, ReadsOfWritten
<1>7. WriterIsNew' /\ OwnerOutside' /\ UnownedUnwritten'
  BY <1>1, <1>2, <1>4 DEF WriterIsNew, OwnerOutside, UnownedUnwritten
<1>8. FirstWritesAlone'
  BY <1>1, <1>4 DEF FirstWritesAlone
<1>9. OwnerHolds'
  BY <1>1 DEF OwnerHolds
<1>10. CopiesLatest' /\ SentLatest' /\ ReaderHasLatest'
  BY <1>1, <1>3 DEF CopiesLatest, SentLatest, ReaderHasLatest
<1>11. ForwardsLatest'
  BY <1>1, <1>2 DEF ForwardsLatest
<1>12. WriteFinishesAlone'
  BY <1>1, <1>3, <1>5 DEF WriteFinishesAlone, OthersInvalid
<1> QED
  BY <1>1, <1>6, <1>7, <1>8, <1>9, <1>10, <1>11, <1>12 DEF NoPanic

\* The end of a read at the handler.
LEMMA WorkReadConfirmed ==
  ASSUME TInv, AInv', ReadConfirmed, UNCHANGED round
  PROVE  Workload'
<1> USE DEF TInv, AInv, Workload, Programs, Ownership
<1>1. /\ hpc = "waitRC" /\ hpc' = "idle"
      /\ UNCHANGED <<nodeVars, clientVars, listenVars, confirmations, req, owner, copySet, panic, latest>>
  BY DEF ReadConfirmed, Bookkeeping, HandlerAssertions
<1>2. /\ Coherence' /\ OneOperation' /\ ReadRound' /\ ReadsOfWritten' /\ ReceivesOwnPage'
      /\ \A i, j : /\ Active(i, j)' = Active(i, j) /\ WriteAwaits(i, j)' = WriteAwaits(i, j)
  BY <1>1, HandlerFrame DEF nodeVars
<1>3. FirstRound' /\ WriterIsNew' /\ OwnerOutside' /\ OwnerHolds' /\ UnownedUnwritten'
  BY <1>1, <1>2 DEF FirstRound, WriterIsNew, OwnerOutside, OwnerHolds, UnownedUnwritten, nodeVars,
                    clientVars
<1>4. FirstWritesAlone'
  BY <1>1 DEF FirstWritesAlone
<1> QED
  BY <1>1, <1>2, <1>3, <1>4 DEF NoPanic

\* The new owner has its page, does not write it any more, and is in no copy set that a
\* later write will see.
LEMMA WorkWriteConfirmed ==
  ASSUME TInv, AInv', WriteConfirmed, UNCHANGED round
  PROVE  Workload'
<1> USE DEF TInv, AInv, Workload, Programs, Ownership
<1>1. PICK p \in Pages, r \in Nodes :
        /\ p = req.page /\ r = req.node /\ Serving(r, p) /\ Confirmed /\ req.kind = "write"
        /\ hpc = "waitWC" /\ hpc' = "idle" /\ owner'[p] = r /\ access[r][p] # Invalid
        /\ \A j \in Pages : j # p => owner'[j] = owner[j]
        /\ UNCHANGED <<nodeVars, clientVars, listenVars, confirmations, req, copySet, panic, latest>>
  <2>1. hpc = "waitWC" /\ req.page \in Pages /\ req.node \in Nodes /\ req.kind = "write" /\ Confirmed
    BY ServedType DEF WriteConfirmed, Protocol, HandlerPhase, Confirmed
  <2>2. access[req.node][req.page] # Invalid
    BY DEF WriteConfirmed, Protocol, PageConfirmed, Invalid, ReadWrite
  <2> QED
    BY <2>1, <2>2 DEF WriteConfirmed, Serving, TypeOK
<1>2. /\ Coherence' /\ OneOperation' /\ ReadRound' /\ ReadsOfWritten' /\ ReceivesOwnPage'
      /\ \A i, j : /\ Active(i, j)' = Active(i, j) /\ WriteAwaits(i, j)' = WriteAwaits(i, j)
  BY <1>1, HandlerFrame DEF nodeVars
<1>3. FirstRound'
  BY <1>1, <1>2 DEF FirstRound, nodeVars, clientVars
<1>4. WriterIsNew'
  BY <1>1, <1>2 DEF WriterIsNew
<1>5. OwnerOutside'
  <2>1. round # "again" \/ (\E i \in Nodes : WriteAwaits(i, p)) => copySet[p] = {}
    BY <1>1 DEF FirstWritesAlone
  <2> QED
    BY <1>1, <1>2, <2>1 DEF OwnerOutside
<1>6. OwnerHolds'
  BY <1>1 DEF OwnerHolds, WriteServed, nodeVars
<1>7. UnownedUnwritten'
  BY <1>1, NodesAssumption DEF UnownedUnwritten
<1>8. FirstWritesAlone'
  BY <1>1 DEF FirstWritesAlone
<1> QED
  BY <1>1, <1>2, <1>3, <1>4, <1>5, <1>6, <1>7, <1>8 DEF NoPanic

-----------------------------------------------------------------------------
(***************************************************************************)
(* The theorems.                                                           *)
(***************************************************************************)

\* Initially, nothing has been written and no operation is under way.
LEMMA InitWorkload == TestInit => Workload
<1> SUFFICES ASSUME TestInit PROVE Workload
  OBVIOUS
<1> USE DEF TestInit, Init
<1>1. \A n \in Nodes, p \in Pages : ~Active(n, p) /\ ~WriteAwaits(n, p) /\ ~PageSent(n, p)
  BY DEF Active, WriteAwaits, Awaits, PageSent
<1>2. Programs
  BY <1>1, NodesAssumption DEF Programs, OneOperation, FirstRound, ReadRound, ReadsOfWritten,
     ReceivesOwnPage, Awaits
<1>3. Ownership
  BY <1>1 DEF Ownership, WriterIsNew, OwnerOutside, FirstWritesAlone, OwnerHolds, UnownedUnwritten
<1>4. Coherence
  BY <1>1 DEF Coherence, CopiesLatest, ForwardsLatest, SentLatest, ReaderHasLatest, WriteFinishesAlone
<1> QED
  BY <1>2, <1>3, <1>4 DEF Workload, NoPanic

\* Every step keeps the invariant.
LEMMA StepWorkload ==
  ASSUME TInv, AInv', TestNext
  PROVE  Workload'
<1>1. ASSUME NEW n \in Nodes, NEW p \in Pages, ClientStep(n, p), UNCHANGED round PROVE Workload'
  BY <1>1, WorkSendRequest, WorkInvalidateOwn, WorkStorePage, NoWriteInitForOtherPage,
     WorkSendConfirm, WorkFinishRead, WorkFinishWrite DEF ClientStep
<1>2. ASSUME NEW n \in Nodes, ListenStep(n), UNCHANGED round PROVE Workload'
  BY <1>2, WorkPassPageLock, WorkApplyForward, WorkSendPage, WorkSendInvalidateConfirm DEF ListenStep
<1>3. ASSUME HandlerStep, UNCHANGED round PROVE Workload'
  BY <1>3, WorkRecvReadRequest, WorkRecvWriteRequest, WorkSendInvalidate, WorkInvalidated,
     WorkForward, WorkSendWriteInit, WorkReadConfirmed, WorkWriteConfirmed DEF HandlerStep
<1>4. CASE FirstWrite
  BY <1>4, WorkFirstWrite DEF FirstWrite
<1>5. CASE NextRead
  BY <1>5, WorkNextRead DEF NextRead
<1>6. CASE SecondWrite
  BY <1>6, WorkSecondWrite DEF SecondWrite
<1> QED
  BY <1>1, <1>2, <1>3, <1>4, <1>5, <1>6 DEF TestNext, Step

\* A step of the test programs is one of IvyBasic.
LEMMA TestStep ==
  ASSUME TestNext
  PROVE  Next
  BY DEF TestNext, Next, FirstWrite, NextRead, SecondWrite, ClientStart

\* The inductive invariant holds of every state of the test programs.
THEOREM WorkloadInvariance == TestSpec => []TInv
<1>1. TestInit => TInv
  BY InitWorkload, InitBookkeeping, InitProtocol, TypeInit DEF TInv, AInv, TestInit
<1>2. TInv /\ [TestNext]_testVars => TInv'
  <2> SUFFICES ASSUME TInv, [TestNext]_testVars PROVE TInv'
    OBVIOUS
  <2>1. [Next]_vars
    BY TestStep DEF testVars
  <2>2. AInv'
    BY <2>1, StepBookkeeping, StepProtocol, TypeNext DEF TInv, AInv
  <2>3. CASE TestNext
    BY <2>2, <2>3, StepWorkload DEF TInv
  <2>4. CASE UNCHANGED testVars
    BY <2>2, <2>4 DEF TInv, testVars, vars, nodeVars, clientVars, listenVars, cmVars, Workload,
       Programs, OneOperation, FirstRound, ReadRound, ReadsOfWritten, ReceivesOwnPage, Active, Awaits,
       WriteAwaits, Ownership, WriterIsNew, OwnerOutside, FirstWritesAlone, OwnerHolds,
       UnownedUnwritten, Confirmed, Serving, WriteServed, Coherence, CopiesLatest, ForwardsLatest,
       SentLatest, ReaderHasLatest, WriteFinishesAlone, PageSent, OthersInvalid, NoPanic
  <2> QED
    BY <2>3, <2>4
<1> QED
  BY <1>1, <1>2, PTL DEF TestSpec

\* In the test programs, a read returns exactly the last write.
THEOREM ReadsLatestHolds == TestSpec => []ReadsLatest
<1>1. TInv => ReadsLatest
  BY DEF TInv, Workload, Coherence, ReaderHasLatest, ReadsLatest
<1> QED
  BY <1>1, WorkloadInvariance, PTL

\* In the test programs, no goroutine panics: every forward finds its page, every read an
\* owner, and every writer the page it asked for.
THEOREM NoPanicHolds == TestSpec => []NoPanic
<1>1. TInv => NoPanic
  BY DEF TInv, Workload
<1> QED
  BY <1>1, WorkloadInvariance, PTL
=============================================================================
