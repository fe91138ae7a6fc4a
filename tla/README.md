# Verification of 50041-distributed-systems-hw

TLA+ models of the distributed protocols in this repository, the TLC runs that
check them on small instances, and proofs, checked by TLAPS, of what holds for
every instance.  The models are translated from the Go code under `src/`; every
definition that models code has its lines in `PROJECT.json` under `map`.

- [Result in short](#result-in-short)
- [Inventory of the system](#inventory-of-the-system)
- [Modules](#modules)
- [How the models correspond to the code](#how-the-models-correspond-to-the-code)
- [Runs](#runs)
- [Fairness](#fairness)
- [Proofs](#proofs)
- [What is not modelled](#what-is-not-modelled)
- [Plan](#plan)
- [Running the checks](#running-the-checks)

## Result in short

**Basic Ivy** (`hw3/IvyBasic`) keeps its access rights exclusive under every
interleaving of concurrent clients: this is model-checked and proved for any
number of nodes, pages and operations, with the manager's assertions.  Its tests'
programs never panic and read the last write, which is proved for any number of nodes,
pages and reads, and always return, which is model-checked.  Outside those programs an
owner that shared its page cannot write it again (`IvyBasicForwardPanic`).

**Fault-tolerant Ivy** (`hw3/IvyFaultTolerant`), with one crash of a manager at any
moment: there is never a second live primary, the backup can always take over,
copies hold the last write, the nodes' rights change as the same abstract
specification demands, and operations return.  There are two exceptions.  A reader whose RC
is lost in the crash panics on the acknowledgement of its second RC
(`IvyFTReadConfirm`), and nothing returns for certain when the crash falls into an
election of the managers (`ElectionsEnd` below).  All this is model-checked; that there is never a second live
primary is proved, for any nodes, programs of the clients and number of crashes, given
that a killed manager comes back only after the other has taken over.

**Locks** (`hw2`).  The Ricart-Agrawala lock counts each answer once and reaches no panic
but that of a second node inside, which is proved for any number of nodes and requests.  It
excludes between two nodes although its clock is unsynchronised, and between any number of
nodes as long as no store puts a clock back; both are proved, and with three nodes a lost
clock update does break exclusion (`RicartLostClock`). The Lamport lock never loses a
mutex, an answer or a RELEASE, and it excludes when requests are spaced apart: both are
proved for any number of nodes and requests. A window between stamping a request and
locking `pendingReq` breaks exclusion otherwise (`LamportEarlyAck`). The voting protocol
excludes, which is proved for any number of voters and requests, and serves both of two
contending nodes through rescinded and late votes, as long as no vote is returned twice,
which panics (`NoInvalidRelease` below).

**Bully election** (`hw1/q2`): no veto that is in time is missed, which is proved for any
nodes and faults, and when crashes, restarts and early time-outs are over, whatever
elections they fell into, the highest live node alone believes to be the coordinator.  **Vector-clock broadcast**
(`hw1/q1/part3`): deliveries respect causality, and the server drops exactly the
messages that were overtaken; both are proved for any clients and messages.

Further disagreements between the code and its documents, found on the way, are
listed under [Disagreements without a run](#disagreements-without-a-run).

## Inventory of the system

The repository holds the homework of a distributed-systems course: independent
programs, each a set of goroutines that exchange messages over Go channels.
"Modelled" names the modules; everything else is in the plan or left out for the
reason given.

### hw3/IvyBasic: distributed shared memory

| part | state | operations |
|---|---|---|
| node (`Node.go`) | `cache` (page id to access, data, `pageLock`), one `incomingPageMsg` | `ClientRead`, `ClientWrite`, `Listen` with `recvReadForward`, `recvWriteForward`, `recvInvalidate` |
| central manager (`Manager.go`) | `pageRecords` (owner, copy set), `confirmations` | `Listen`, `RequestHandler` with `recvReadRequest`, `recvWriteRequest` |
| messages, channels (`lib.go`) | one unbuffered channel per node and one for the CM | send, receive |

*Interaction.*  A client that misses sends RQ or WQ to the CM.  The CM serves one
request at a time: it invalidates the copy set (IV, answered by IC) for a write,
forwards the request to the owner (RF, WF) or creates the page (WI), and waits for
the client's RC or WC.  The owner sends the page (RP, WP) to the client.

*Hard.*  Clients of one node share `pageLock` with its `Listen`, which waits for
the lock and then drops it before it changes the page; all clients of one node
share one `incomingPageMsg`; the CM keeps one confirmation per node, and its copy
set grows stale; the writer invalidates itself after it has asked for the page.

*Correct means.*  At most one node can write a page, and then no other can read it
(`SingleWriter`, `ImplementsPageAccess`); the CM can reach every copy
(`CopiesTracked`); ownership passes only to a node with the only copy
(`OwnerIsExclusive`); the assertions of the code hold (`HandlerAssertions`,
`NoPanic`); reads return the last write (`ReadsLatest`); every
operation returns (`OperationsReturn`).

### hw2: distributed locks

| part | state | operations |
|---|---|---|
| priority queue (`PriorityQueue.go`) | sorted slice of (node, timestamp) | `Insert`, `Extract`, `Peek`, `compareElems` |
| Lamport lock (`LamportSharedPriorityQueue.go`) | `clock`, `queue`, `reqAckCount`, `lastReqTimestamp`, the mutexes `ongoingReq` and `pendingReq` | `AcquireLock`, `ReleaseLock`, `handleMsg` with `handleRequest`, `handleRelease`, `handleReqAck` |
| Ricart-Agrawala lock (`RicartAndAgrawalaSharedPriorityQueue.go`) | `clock`, `queue`, `reqAckCount`, `lastReqTimestamp`, `hasOngoingReq`, locks | `AcquireLock`, `ReleaseLock`, `handleMsg` with `handleRequest`, `handleReqAck` |
| voting protocol (`VotingProtocol.go`, `PriorityQueue_VP.go`) | votes of a session, the vote given, a queue | request, vote, rescind, release |
| naive node (`NaiveNode.go`) | none | acquires at once |
| shared memory (`SharedMemory.go`) | `currentHolderId`, history | `EnterCS`, `ExitCS`, both panic on misuse |
| orchestrator, main | the nodes | forwards calls, shuts down |

*Interaction.*  Nodes talk over channels; every received message is handled by a
goroutine of its own, so handlers of one node interleave with each other and with
`AcquireLock`/`ReleaseLock`.  A client in the critical section calls the shared
memory, which panics if another node is inside.

*Hard.*  The clock, the ongoing request, its timestamp and the count of REQ_ACKs
are separate variables, written one after the other or without a lock;
RELEASE pops whatever is at the head; `TryLock` decides whether a request is ours.

*Correct means.*  Mutual exclusion; requests enter in the order of their
timestamps (`EarliestEnters`); each REQ_ACK is counted once (`AcksConserved`); the
element that is popped is the right one (`HeadIsOwnRequest`,
`HolderIsQueuedEverywhere`); the mutexes pass from goroutine to goroutine without
being lost (`MutexesHaveOneHolder`); a vote that counts has been given and not taken
back (`CountedVotesAreGiven`), none disappears (`NoVoteIsLost`), and whoever asks
gets the lock (`AcquireReturns`).

### hw3/IvyFaultTolerant: distributed shared memory with two managers

| part | state | operations |
|---|---|---|
| node (`Node.go`) | `cache`, `cmId`, `requestState`, `requestId`, channels for the page and the acknowledgement | `ClientRead`, `ClientWrite` with their timers, `Listen`, `StartElection` |
| central manager (`Manager.go`) | `cmState`, `alive`, `pageRecords`, the request being served, the count of ICs, the election | `Listen`, `RequestHandler`, `startElection`, `Kill`, `Reboot` |

*Interaction.*  As in basic Ivy, and: the primary tells its backup of every request
and confirmation before it acts on it; a node whose timer expires forgets its
manager, asks both for an election and sends its message again; a backup that gets
no ELECT_NO becomes the primary.

*Hard.*  A crash between any two messages; answers to a request that has been sent
twice; two elections at once; what the backup knows at each moment.

*Correct means.*  At most one live primary (`OneLivePrimary`); a backup with the
primary's records (`BackupHasRecords`); copies with the last value
(`CopiesAreLatest`) and rights as in `PageAccess` (`AccessIsGranted`); none of the
many panics "not possible" (`NoOtherPanic`, `NoUnexpectedAck`); operations return
(`OperationsReturn`).

### hw1/q2: bully election

A node (`Node.go`) has `CoordinatorId`, `IsAlive`, an `electionLock` and a
`vetoChan`, and the goroutines `HandleControl`, `HandleData`, `SyncData` and one per
election.  START, VETO and WIN go through one channel, SYNC through another, each
send in a goroutine of its own.  The orchestrator kills, restarts and polls.
*Hard*: elections of several nodes overlap, vetoes arrive after the election they
are meant for, a node dies and restarts in the middle of one.  *Correct means* that a
veto gets through (`WinnerOutlivesHigher`) and that one node ends up as the
coordinator, the highest (`OneCoordinatorInTheEnd`).

### hw1/q1: client-server broadcast

Clients send to a server through a forwarder goroutine each; the server relays,
drops at random, or (part 3) drops what its vector clock shows to be overtaken.  All
channels are unbuffered.  Parts 1 and 2 are the same program without a clock and with
a scalar one.  *Hard*: two messages that overtake each other, three goroutines in a
cycle of sends, shutdown.  *Correct means* `CausalDelivery`, `DropsTheOvertaken`,
clocks that nobody runs ahead of (`NoClockIsAhead`) and broadcasts that end
(`BroadcastEnds`).

The `main.go` files build these systems and read the console.  `PROJECT.json` lists
every component with its status, and every hazard at its line.

## Modules

| module | models or states |
|---|---|
| `IvyBasic` | nodes and central manager of `hw3/IvyBasic`, composed; safety properties |
| `PageAccess` | abstract specification: what an Ivy protocol promises about access rights |
| `IvyBasicWorkloads` | the client programs of `System_test.go` on top of `IvyBasic`; liveness |
| `IvyBasicInvariant` | the inductive invariant `IInv` |
| `IvyBasicProofs` | types, access rights, the refinement of `PageAccess`, the manager's assertions; the tests' programs read the last write and do not panic |
| `MCIvyBasic` | TLC instance: symmetry, a bound on the operations of all nodes |
| `IvyFaultTolerant`, `MCIvyFaultTolerant` | nodes and managers of `hw3/IvyFaultTolerant`, composed; the client programs |
| `IvyFaultTolerantProofs` | types, and `OneLivePrimaryHolds` |
| `PriorityQueue` | the `pqueue` of `hw2`, as operators on sequences |
| `PriorityQueueProofs` | what these operators keep: types, order, the elements |
| `RicartAgrawala`, `MCRicartAgrawala` | Ricart-Agrawala lock and shared memory; a state constraint |
| `RicartProofs` | conservation of answers; exclusion while no clock goes back, and for two nodes |
| `LamportQueue` | Lamport lock and shared memory |
| `LamportProofs` | conservation of mutexes, answers and RELEASEs; exclusion for spaced requests |
| `VotingProtocol`, `MCVotingProtocol` | voting lock: client, voter, vote session; who asks with which timestamps |
| `VotingProofs` | exclusion and the conservation of votes |
| `BullyElection`, `MCBullyElection` | bully election of `hw1/q2`; the drills, lists of faults and how they begin |
| `BullyProofs` | `WinnerOutlivesHigherHolds`: no veto that is in time is missed |
| `ClientServer`, `MCClientServer` | vector-clock broadcast of `hw1/q1/part3`; how many messages each client sends |
| `ClientServerProofs` | causal delivery and exact drops |

Mutants, definitions changed the way a plausible bug would change the code, stand
before the definition they replace and are marked `Mutant:`.  For every property of
every passing run there is a mutant that TLC shows to violate it.

## How the models correspond to the code

A module's variables are the fields of the Go structs and, for each goroutine, the
place it is at (`cpc` for a client, `lpc` for a node's `Listen`, `hpc` for the
CM's `RequestHandler`, `handlers` for the goroutines that handle one message
each).  An action is the code of one goroutine between two points where another
goroutine can notice: a channel operation, a lock operation, or an access to data
that another goroutine uses without a lock.  A panic in any goroutine ends a Go
program, so `panic` records the first one and `Running` stops everything.

### IvyBasic

- **Channels** are unbuffered: sending and receiving are one step, and a send to a
  node waits until its `Listen` is idle.  The CM's `Listen` only files messages, so
  it can always receive: a request becomes a member of `requests` (the goroutine
  blocked on `requestChan`), a confirmation overwrites `confirmations[n]`.
- **`pageLock`** of page `p` at node `n` is held by a client exactly while
  `cpc[n][p] # "idle"`, because `ClientRead` and `ClientWrite` unlock when they
  return.  `Listen` locks and unlocks at once (`PassPageLock`), then changes the
  page without the lock (`ApplyForward`): this is in the code (Node.go:120, 140, 162).
- **Places of a client**: `request` (about to send RQ or WQ), `invalidate` (a
  writer about to invalidate its own copy, Node.go:231), `wait` (polling
  `incomingPageMsg`), `confirm` (page stored), `finish` (about to read or assign
  `page.Data`).  A cache hit goes from `idle` to `finish`.
- **Data** are version numbers in the order of assignment to `page.Data`.  A string
  that `Listen` reads while a client may be assigning it is `Torn` or the old one.
- **`latest`, `floor`, `started`** are not in the code: the last version written,
  the last version when an operation began, and the operations a node has started.
- **Merged steps.**  The receive of a forward and its check of the cache; the
  stores of access and page in `setCachedPage`; the reset of `confirmations` with
  the rest of the handler up to its next send.  Nothing another goroutine does can
  tell them apart, except data races within one statement.
- **The order of the loop** over the copy set is any order (the code's order is the
  order in which readers joined, so the model allows more).
- **Left out.**  The Go map of cached pages: every page is in the map from the
  start, as INVALID (`ensureCachedPageExists`, Node.go:286, is itself racy);
  `removeFromCopySet`, which nothing calls; `Exit`.  In the basic system channels
  are never closed while operations run.

### PriorityQueue

`Insert` finds the first element that is not before the new one, panics if it has
the same key, and inserts there.  The in-place shift of the Go slice (line 37) is
modelled by its result, `InsertAt`; `accessLock` makes every method one step.
`Extract` is `Tail`; callers check for the empty queue, on which Go panics.

### RicartAgrawala

- `clock` has no lock in the code: each `n.clock++` is a load (`creg`, `h.reg`) and
  a store, and so is the update in `handleMsg` (`lreg`); the load of `handleMsg` is
  one step with the receive.  Values lost by such races are the model's.
- Places of a client: `load`, `store` (of `n.clock++`), `stamp`, `request`
  (broadcast, then the wait for REQ_ACKs), `cs`, `drain`, `ackStore`, `ackSend`
  (answering deferred requests), `clear` (about to clear `hasOngoingReq`).
- `hasOngoingReq` and `lastReqTimestamp` are set in different steps, as in lines
  163 and 168.
- `EnterCS` and `ExitCS` of the shared memory are one step each.

### LamportQueue

- `ongoingReq` and `pendingReq` are mutexes: booleans whose holder is known from
  the places of the goroutines (`MutexesHaveOneHolder`).  `TryLock` is
  `TryOngoing`.  In `HandleReqAck` the `TryLock` of a late REQ_ACK and its
  `Unlock` are one step.
- `clock` is changed under `clockLock`.  The read of `clock` for the timestamp of a
  request is outside the lock, and a step of its own (`ReadTimestamp`); for a
  REQ_ACK or a RELEASE, whose timestamps only advance clocks, it is one step with
  the increment.
- Channels hold 10000 messages in the code, so a send never waits here.
- `EnterCS` and the unlock of `ongoingReq` after it are one step, and so are the
  send of a REQ_ACK and the unlock that follows it.
- Each node has one client: the second caller of `AcquireLock` on a node would
  only wait at the first lock.

### VotingProtocol

- Every message is handed to a goroutine of its own, which acts on it at any later
  time, so `inFlight` is a bag and there are no channels.  A message of `inFlight` is
  also a goroutine that has not acted yet; `"resend"` is the second half of
  `handleRescind`, a step of its own because the session may be another by then
  (line 233 reads it again).
- A request is its own election id.  `n.clock` is written without a lock by several
  goroutines and read only to stamp a request, so a request carries any timestamp of
  `Times[n]`; nothing relies on the order of the timestamps of one node.
- `Wait` and `AddVote`: the goroutine of the deciding VOTE holds `sessionLock` while
  it waits for `Wait` to receive (`SessionLocked`); no VOTE or RESCIND of that node is
  handled meanwhile.
- `AcquireLock` up to `Wait` is one step: the old session rejects every vote until the
  new one is in place.  `ReleaseLock` is one step, so the line after the unlock, which
  clears `hasOngoingReq` (278), is not apart from it.
- The queue is a set: `Insert` keeps it sorted by `Before`, and equal keys panic.

### IvyFaultTolerant

- `out[p]` is what goroutine `p` has still to do, in order: messages, each with its
  remaining receivers, and local steps, whose receivers are the empty set.  Channels
  are unbuffered, so a listener takes a message only when its own list is empty.
  Goroutines: the `Listen` of every node and manager, a client per node, and a request
  handler and an election per manager.
- **Crash.**  `Kill` clears `alive`; the manager then drops what it receives but, as in
  the code, its goroutines go on with what they have begun.  What is lost is lost at
  `Reboot`.
- **Timers** expire when no goroutine can run (`Quiet`): assumption 2 of Design.md,
  "Messages must be delivered and responded to within a bounded time".  A timer that
  expires earlier is outside what the design claims.  `Quiet` says of each goroutine that
  it has nothing to do or waits: for a listener, a manager, the `pageLock` or the
  `recordLock`.  While the program runs it is `~ENABLED Work`, which was model-checked.
- **`Reboot`** happens when the other manager is the live primary, no node counts on the
  dead one any more and all its goroutines are idle, and it returns at once: the
  goroutine of line 100 seldom runs before the test of line 105.  The other order, and
  an earlier reboot, are among the disagreements below.
- **A confirmation** waits until the `RequestHandler` has released the `recordLock`
  (`RecvConfirm`).  In the code the listener would wait with the message taken; in the
  instance no confirmation ever arrives while the lock is held.
- **Data and identifiers.**  One page; its data are request ids; `Absent` is the data
  of `InvalidPage()`.  A request id is the node and its round, an election id the
  manager and a counter modulo `ElectionIds`.  A copy set is a set, of which the backup
  is sent a copy (a manager without a record sends the empty record: only before the
  first request).
- **A second page** for one request would block `Listen` at line 124 for good; it is
  counted as a panic, so that `NoOtherPanic` says it never comes.
- **Clients** follow a program of rounds: the operations of a round run concurrently,
  the next round starts when they have returned.
- `latest` and `struck` are not in the code: the last value written, and whether a kill
  fell into an election.

### BullyElection

- Every send is a goroutine, so `inFlight` is a set of messages in any order; equal
  messages count as one.
- `Init` is the end of `Initialise` on every node: no coordinator, and an election about
  to start on each node that has not been killed before.  A node may receive STARTs before
  its own election begins.
- In time, an election runs out of time only when no START of it and no VETO for it is on
  the way (`RoundTripOver`): `timeout` is the estimated round trip.  A node misses its
  coordinator only when no other live node takes itself for one and no SYNC is on the way
  (`NoDataComes`).  A time-out that comes earlier, because a message is slower than the
  estimate, is the fault `LateVeto` or `LateSync`.
- Any number of crashes, restarts and early time-outs can happen at any moment (`Fault`).
  `MCBullyElection` gives each behaviour a drill, the faults it may have and their order,
  so that they come to an end.
- `vetoChan` holds or does not hold a veto; a send to a full channel is a `PassVeto` that
  comes later.
- An election goes on when its node is killed: it makes the dead node its own
  coordinator, and only its sends are dropped.  A restarted node keeps that.
- A veto is passed on in two steps, the test of the lock and the send to `vetoChan`, so
  that an election can end in between and another inherit the veto.
- Data is left out, and with it the SYNCs to lower nodes, which do nothing else.

### ClientServer

- `sending[c]` is what is left of a client's `Send`; a client with something left is not
  at its `select`.  `forwarder[c]` is the message its forwarder is blocked with.  `offered` is
  the client the server is blocked on in its broadcast.
- Random choices (a drop, a simulated violation) are disjuncts; the order of a map is
  any order.
- `Compare` is stated by its result.  A client drops a message when it is greater than
  1, as in line 65, which never happens.
- `main`'s quit message can come at any time.  The client of a server that has closed
  its channel may still choose the ticker of its `select`.
- All forwarders run from the start.

## Runs

Symmetric instances use model values; where the code compares node identifiers, nodes
are numbers.  Deadlock is not checked: the programs stop when they have used up their
operations, and the code can come to a standstill, which the liveness properties are
about.

| run | instance | shows |
|---|---|---|
| `IvyBasicConcurrent` | 3 nodes, 2 pages, 2 operations per node and 4 together, symmetry | access stays exclusive, copies tracked, ownership exclusive, the handler's assertions hold, every step is one of `PageAccess` |
| `IvyBasicWorkloads` | 3 nodes, 1 page, 3 operations per node | the programs of `System_test.go` do not panic, read the last write, and return |
| `IvyFaultTolerant` | 3 nodes, 2 managers, 1 crash, 3 programs | one live primary, a backup that can take over, copies with the last write, rights as in `PageAccess`, no panic but one; operations return, but for that panic and a crash in the middle of an election |
| `RicartTwoNodes` | 2 nodes, 2 requests each | exclusion and order of entry in spite of clock races |
| `LamportTwoNodes` | 2 nodes, 2 requests each | mutexes pass correctly, no REQ_ACK is lost or doubled; for spaced requests exclusion and queues that agree |
| `VotingThreeNodes` | 3 voters, 2 requests | exclusion, every counted vote given and none lost; both get the lock, unless a second RELEASE of a vote panics |
| `BullyThreeNodes` | 3 nodes, 9 drills of up to 4 crashes, restarts and early time-outs | vetoes that are in time get through, one coordinator in the end |
| `ClientServer` | 3 clients, 4 messages | causal delivery, exact drops, broadcasts end |
| `IvyBasicForwardPanic` | 2 nodes, one operation at a time | **violated**: `OwnerHasPage` |
| `IvyFTReadConfirm` | as `IvyFaultTolerant` | **violated**: `NoUnexpectedAck` |
| `RicartLostClock` | 3 nodes, 1 request each, `Staggered` | **violated**: `MutualExclusion` |
| `LamportEarlyAck` | 2 nodes, 1 request each | **violated**: `MutualExclusion` |

**Why the bounds are enough.**

- *Basic Ivy.*  Three nodes on a page give every role at once: the writer, the old
  owner and a further copy to invalidate; two operations per node allow a copy to be
  lost and regained; a second page lets operations share `incomingPageMsg`
  (`WriteInitForOtherPage` fires).  `FewOps` cuts behaviours at four operations
  together, enough for a copy, a write that takes it, and two operations that overlap
  with either.  The bound and the symmetry are sound for these properties: all are about
  states and steps.  The proofs cover all larger instances for every safety
  property of both runs.
- *Workloads of basic Ivy.*  The rounds are first writes, reads, and one more write of a
  page that has an owner (System_test.go:84-86).  The write of line 87, the first to its page
  but after the reads, is not in them.
- *Fault-tolerant Ivy.*  The three programs are a race of first writes (one is dropped
  and retransmitted), reads and a write with a copy to invalidate at another node and at
  the writer, and a second write by an owner whose page has been read; at most one
  manager is killed, at any moment, and may reboot at any moment the model allows.
  Election ids are reused after four elections of one manager, far apart.
- *Locks.*  Two requests per node are needed for stale timestamps, counts and late
  REQ_ACKs; two nodes bring every action of the queue-based locks into play.  Three
  nodes matter where an acknowledgement is overtaken through a third node; all
  three-node behaviours of Ricart-Agrawala are too many, and `Staggered` cuts them to
  those in which nodes start one after the other.  The proofs cover any number of requests,
  and for everything but the exclusion of Ricart-Agrawala, which three nodes break, any
  number of nodes.  Three voters are the least with a majority that is not
  all; `MCTimes` makes the second requester the earlier one, so that votes are rescinded,
  or the later one by a tie.
- *Bully.*  Three nodes are the least with a node that both is vetoed and vetoes.  The
  drills begin with the simultaneous elections of `Initiate`, all nodes alive or one of
  them killed before, or when these have ended.  Each fault of a drill falls anywhere, into
  elections too.  Among what they reach: all three nodes in elections at once; a node
  killed in its own election that makes itself coordinator while it is dead; its restart
  while the old election holds `electionLock`; the highest node back while another is
  electing; a node that times out with its veto on the way; a veto kept for the next
  election.  All orders of two faults, from either beginning, are too many for the liveness
  property; the proof covers every number and order of faults for
  `WinnerOutlivesHigher`.
- *Client-server.*  The client with two messages sends them in order or overtaking; two
  more clients send one each, so that relays cross with sends in every way.

**`PageAccess` as a property.**  `ImplementsPageAccess` and `AccessIsGranted` say that
every change of `access` is `Drop`, `Share` or `Own` of the abstract specification, that
is, that no node ever gains a right while another holds a conflicting one.  It is stronger
than exclusion: it also forbids two changes in one step.

### The violations

- **`IvyBasicForwardPanic`.**  Write at `n1`, read at `n2`, write at `n1`: `n1` has
  READONLY, invalidates its own copy, and the CM forwards the write to the owner,
  `n1`, whose assertion fails.  `TestStandardUsage` writes again only "from a
  different node".
- **`IvyFTReadConfirm`.**  The primary is killed after RF.  The reader has its page, its
  RC times out, and `requestReadConfirm` sets the request idle (Node.go:303) before it
  sends RC to the new primary.  The RC_ACK that answers it finds the state idle and
  panics (Node.go:188).  The timeout of WC does not reset the state, and works.
- **`RicartLostClock`.**  A goroutine stores a clock value computed before the
  clock advanced past a request that has been acknowledged; the node's next
  request then has a timestamp below that request's.  Such a store is the only cause:
  without one, any number of nodes exclude (`GrowingExclusion`).
- **`LamportEarlyAck`.**  A handler finds that its node's request is the earlier
  one and waits for `pendingReq`; the client has stamped its request but has not
  locked `pendingReq`, so the handler acknowledges at once, before the earlier
  request has been sent.

### Disagreements without a run

The properties named here are in the modules and fail under the given constants.

| property, module | constants | what happens |
|---|---|---|
| `ReadsFresh`, `IvyBasic` | 2 nodes, 1 page, `MaxOps` 2 | a forward passes `pageLock` and drops it before it reads the page (Node.go:121); a local write that hits in between is lost or torn, although "reads and writes are done 'atomically'" (Node.go:71) |
| `ListenNeverWaitsForRequester`, `IvyBasic` | the same | a writer in the copy set holds `pageLock` while the CM waits for its IC for another writer (Node.go:162) |
| `DeferredByEarlier`, `RicartAgrawala` | `Nodes = {1, 2}`, `MaxRequests` 1 | a request between lines 163 and 168 is compared with the previous timestamp, and two nodes defer each other |
| `NoInvalidRelease`, `VotingProtocol` | as `VotingThreeNodes`, `Spec` | a voter's RESCIND and a late VOTE are both answered with a RELEASE; the second one panics (VotingProtocol.go:179) |
| `CoordinatorAgreedInTheEnd`, `BullyElection` | as `BullyThreeNodes` | a node whose WIN was dropped, or overtaken by an older one, keeps a coordinator that is lower or dead, and the SYNCs of the right one do not correct it; the orchestrator's polls for agreement (Orchestrator.go:183) then fail |
| `ElectionsEnd`, `IvyFaultTolerant` | as `IvyFaultTolerant` | a manager killed in the middle of an election: `StartElection` polls for ever (Node.go:466, "This blocks until the election is done") |
| `ServerQuits`, `ClientServer` | as `ClientServer` | a client blocked in a send never sees its channel closed and the server waits for it (Server.go:104), although the README of part 3 says "To safely exit, press `ENTER`" |

Seen while modelling, outside the runs' instances or the models:

- Fault-tolerant Ivy: a writer with a copy and a second writer at once stop for ever, as
  in the basic system (Node.go:174).  An ELECT_NO that comes after a kill and a quick
  reboot panics (Manager.go:216).  A dead manager can win its own election and, rebooted
  as a backup, gets requests and panics (Manager.go:409, 148).  A manager rebooted before the
  other has taken over wins with empty records.  `Reboot` blocks for ever, its own
  listener included, when the goroutine of line 100 sets `electionOngoing` before line 105
  looks: it then waits for an election with `cmStateLock` held.
- Basic Ivy: a client that waits for one page panics when the WI of another page arrives
  (Node.go:255; `WriteInitForOtherPage` fires in `IvyBasicConcurrent`).
- Lamport: two nodes can hold back each other's REQ_ACK because `lastReqTimestamp` is
  still the previous request's (LamportSharedPriorityQueue.go:142).  In a system of one
  node the client locks `pendingReq` and no REQ_ACK ever comes to unlock it (line 192): its
  second `AcquireLock` blocks for ever.
- Ricart-Agrawala: a request deferred after the queue was drained and before
  `hasOngoingReq` is cleared (line 213) is unanswered until the next release.
- Bully: `HasOngoingElection` (Orchestrator.go:54) returns true when it could take a
  node's lock, that is, when no election goes on.
- Client-server: a client's check `> 1` (Client.go:65) never holds.  `MessageLessThan`
  is not a strict order: of two causally ordered messages each can be less than the
  other (Message.go:10).  A client that sends two messages in a row while the server is blocked in
  a send to it stops the whole system (`Stuck`, the exception of `BroadcastEnds`).

## Fairness

Weak fairness of every goroutine by itself, or of one step of the program as a whole
where that is enough.  The Go scheduler is preemptive and runs every runnable goroutine
eventually, and each wait in these programs (polling, a mutex, a channel) is, once
enabled, enabled until its goroutine proceeds.  Starting an operation is never fair:
clients may stop, users need not kill, restart or quit.

- `IvyBasic`: every client operation that has begun, every `Listen`, the
  `RequestHandler` (`OperationsReturn`).
- `VotingProtocol`: `Wait` and the critical section end, some message is acted on.  The bag
  holds finitely many messages, and which is next does not matter for `AcquireReturns`.
- `BullyElection`: elections go on, timers fire, each node receives from each other, by
  `HandleControl` and by `HandleData`.  Faults are not fair, but a drill has only so many.
- `ClientServer`: forwarders, handlers, the server's sends, the returns of shutdown.
- `IvyFaultTolerant`: the program takes a step when it can.  Timers are strongly fair:
  a timer is enabled only while everything is quiet, another timer interrupts that, and
  an interrupted timer of the code runs on and expires.  `OperationsReturn` excuses a
  program stopped by the panic above and a kill that fell into an election.

## Proofs

The theorems hold for every value of the constants that satisfies the `ASSUME`s of their
module, which the code guarantees: node identifiers are natural numbers (model values in
`IvyBasic`, where nothing compares them) other than the invalid ones, there are finitely
many nodes, there are two managers, and the bounds are natural numbers.  Bounds may be
as large as one likes, so the theorems speak of every finite behaviour of the code.  A few
theorems assume more, and say so in the table: `MutexesHaveOneHolderHolds` leaves
out the system of a single node (see above), `TwoNodesExclude` and `TwoNodesEarliest` are about at
most two nodes, and `GrowingExclusion` and `GrowingEarliest` about the behaviours in which
no store puts a clock back (`ClockGrows`); `RicartLostClock` shows that exclusion needs one
of the last two hypotheses.

| theorem | states |
|---|---|
| `IvyBasicProofs!TypeCorrect` | `Spec => []TypeOK` |
| `IvyBasicProofs!Invariance` | `Spec => []IInv` |
| `IvyBasicProofs!SingleWriterHolds` | `Spec => []SingleWriter` |
| `IvyBasicProofs!CopiesTrackedHolds` | `Spec => []CopiesTracked` |
| `IvyBasicProofs!OwnerIsExclusiveHolds` | `Spec => OwnerIsExclusive` |
| `IvyBasicProofs!Refinement` | `Spec => ImplementsPageAccess` |
| `IvyBasicProofs!HandlerAssertionsHold` | `Spec => []HandlerAssertions` |
| `IvyBasicProofs!WorkloadInvariance` | `TestSpec => []TInv` |
| `IvyBasicProofs!ReadsLatestHolds` | `TestSpec => []ReadsLatest` |
| `IvyBasicProofs!NoPanicHolds` | `TestSpec => []NoPanic` |
| `VotingProofs!Invariance` | `Spec => []IInv` |
| `VotingProofs!TypeCorrect` | `Spec => []TypeOK` |
| `VotingProofs!CountedVotesAreGivenHolds` | `Spec => []CountedVotesAreGiven` |
| `VotingProofs!NoVoteIsLostHolds` | `Spec => []NoVoteIsLost` |
| `VotingProofs!MutualExclusionHolds` | `Spec => []MutualExclusion` |
| `BullyProofs!Invariance` | `Spec => []IInv` |
| `BullyProofs!TypeCorrect` | `Spec => []TypeOK` |
| `BullyProofs!WinnerOutlivesHigherHolds` | `Spec => WinnerOutlivesHigher` |
| `ClientServerProofs!Invariance` | `Spec => []IInv` |
| `ClientServerProofs!TypeCorrect` | `Spec => []TypeOK` |
| `ClientServerProofs!NoClockIsAheadHolds` | `Spec => []NoClockIsAhead` |
| `ClientServerProofs!CausalDeliveryHolds` | `Spec => []CausalDelivery` |
| `ClientServerProofs!DropsTheOvertakenHolds` | `Spec => DropsTheOvertaken` |
| `IvyFaultTolerantProofs!TypeCorrect` | `Spec => []TypeOK` |
| `IvyFaultTolerantProofs!OneLivePrimaryHolds` | `Spec => []OneLivePrimary` |
| `RicartProofs!TypeCorrect` | `Spec => []TypeOK` |
| `RicartProofs!Conservation` | `Spec => [](TypeOK /\ Conserved)` |
| `RicartProofs!NoOtherPanicHolds` | `Spec => []NoOtherPanic` |
| `RicartProofs!GrowingExclusion` | `Spec /\ [][ClockGrows]_vars => []MutualExclusion` |
| `RicartProofs!GrowingEarliest` | `Spec /\ [][ClockGrows]_vars => []EarliestEnters` |
| `RicartProofs!TwoNodesExclude` | `Spec => []MutualExclusion`, for at most two nodes |
| `RicartProofs!TwoNodesEarliest` | `Spec => []EarliestEnters`, for at most two nodes |
| `LamportProofs!TypeCorrect` | `Spec => []TypeOK` |
| `LamportProofs!Conservation` | `Spec => [](TypeOK /\ Conserved)` |
| `LamportProofs!NoOtherPanicHolds` | `Spec => []NoOtherPanic` |
| `LamportProofs!AcksConservedHolds` | `Spec => []AcksConserved` |
| `LamportProofs!MutexesHaveOneHolderHolds` | `Spec => []MutexesHaveOneHolder`, for any number of nodes but one |
| `LamportProofs!Invariance` | `Spec => []IInv` |
| `LamportProofs!SpacedMutualExclusionHolds` | `Spec => []SpacedMutualExclusion` |
| `LamportProofs!HolderIsQueuedEverywhereHolds` | `Spec => []HolderIsQueuedEverywhere` |
| `LamportProofs!HeadIsOwnRequestHolds` | `Spec => []HeadIsOwnRequest` |

Every inductive invariant below was model-checked on the instance of its run before it was
proved.  A proof module has one lemma per action, and in it one step per conjunct that the
action can disturb; `Invariance` joins them.

### Basic Ivy: access rights

`SingleWriter` is not inductive: a state that satisfies it can hold a WP under way to a
node while another node still has a copy, and the next `StorePage` breaks it.  `IInv` rules
such states out.  Its idea is that the CM serves one request at a time, so everything under
way belongs to `req`, and the place of the handler says what that can be:

1. a page in `incomingPageMsg` that its client has yet to store, and a page stored
   but not confirmed, belong to the request in service, and then no `Listen` is
   busy (`PageInFlight`, `PageStored`);
2. a page sent for reading means that nobody may write it (`ReadPageInFlight`), one
   sent for writing that nobody else has it (`WritePageInFlight`);
3. a busy `Listen` handles a message of the request in service, an IV only while
   the handler counts ICs, an RF or WF only at the owner (`ListenerServes`);
4. in each place of the handler, the copies outside the part still to be
   invalidated are gone (`HandlerPhase`), which together with `WriterIsOwner` gives
   2 when the owner passes the page on.

The stale copy set is harmless for safety because of the third disjunct of
`CopiesTracked`, and the late self-invalidation of the writer (line 231) because it
happens before that client can store a page.  `OwnerIsExclusive` follows from
`PageConfirmed` at the one step that changes `owner`.  The refinement follows from `IInv`
at the three steps that change `access`: `InvalidateOwn` is `Drop`; `StorePage` is `Share`
or `Own`; `ApplyForward` is `Drop` or `Share`.

### Basic Ivy: assertions and data

*Assertions.*  That the owner never asks to read its own page needs to be known of a
request when it is filed and until it is served.  `AInv` adds to `IInv`'s conjuncts: an
owner loses its page only to its own write or to the write in service
(`OwnerLosesPage`), a node that waits to read has no copy (`ReaderHasNone`), and a filed
request is that of an operation that still waits (`RequestsWait`, `ServedWaits`).

*Data.*  With concurrent clients neither `ReadsLatest` nor `NoPanic` holds (see the
violations); the theorems are about `TestSpec`, the programs of `System_test.go`, with any
number of nodes, pages and reads.  What these programs rule out is that the owner of a
page that was read writes it again.  `TInv` says so for each round: nobody who waits to
write is the owner (`WriterIsNew`), the owner is not in its own page's copy set until the
last write is served (`OwnerOutside`, `FirstWritesAlone`), hence it has the page when a
forward arrives (`OwnerHolds`).  And the data: every copy, and every page that `Listen` has
read or sent, is the last write (`CopiesLatest`, `ForwardsLatest`, `SentLatest`), because a
write about to assign has the only copy with none on its way (`WriteFinishesAlone`).

### Voting lock

Exclusion needs that two majorities meet in a voter who has one vote.  The difficulty is
that a vote can be rescinded before it arrives, counts as -1 at its requester until it
does, and may be returned twice (the panic `NoInvalidRelease` is about).
`VotesConserved` is the balance: votes on their way for a request, on their way back and
counted, are together at least the votes the voter has given it, and exactly these while
the request is under way.  `Live`'s exactness is what makes a counted vote a given one
(`CountedVotesAreGiven`), and the lower bound is `NoVoteIsLost`.  The balance needs
requests of one node to be told apart (`SessionIsLast`, `OnlyMadeRequests`), and a backlog
from which exactly the served request is removed (`BacklogSorted`).

### Bully election

`WinnerOutlivesHigher` is about the higher nodes alive since an election began (`rivals`).
For each of them its START, its VETO, or a veto already received is under way
(`RivalsVeto`) until the time-out, early or not, where a stale veto from an earlier election does as well.  A crash of
either side ends the rivalry (`RivalsLive`), and no step takes away a veto without ending
the election.

### Client-server broadcast

`AcceptedKnown` says that nobody but a client knows of what it did after its message that
the server accepted last; so the server's comparison of a message with its own clock finds
it overtaken just when its number is below that message's (`DropsTheOvertaken`).  It needs
the stamps of a client to grow (`StampsGrow`) and its queue to be messages it has sent,
each once (`QueueIsSent`).  Causality: the server knows all that the senders of relayed
messages knew (`RecvdKnown`, `RelayKnown`), while a message it accepts has a time of its
sender that the server has not heard of, so it precedes nothing that was delivered.

### Lamport lock: conservation

Handlers run in any order, so what holds of every behaviour is a matter of counting; this
is `Conserved`.

- *Answers.*  A request of `n` that has been sent to `d` is a message of `d`'s channel, a
  handler of `d`, a REQ_ACK in `n`'s channel or a handler of `n`: exactly one of them
  until it is counted, and none when `n` does not wait (`Pending`, `AnswersTo`).  So each
  answer is counted for the request it belongs to.
- *Mutexes.*  Their holders are known from the places of the goroutines (`Mutexes`).  Who
  finishes is who holds, because the last REQ_ACK is counted exactly once.
- *RELEASEs.*  A queue has as many elements as there are requests in it that are not
  released and RELEASEs on their way to it (`Lengths`): a RELEASE pops *some* element, so
  their number is all that is certain.  It keeps every queue a handler or `ReleaseLock`
  pops from being empty.
- *Timestamps.*  Those of a node's requests and RELEASEs grow (`Stamps`, `ReleaseStamps`).
  So no request is queued twice (`InsertPanics` compares keys), and two RELEASEs of one
  node are not the same goroutine of the model.

### Lamport lock: exclusion for spaced requests

`hurried` is set when `AcquireLock` is called while another request is being stamped,
queued or sent; until then `Agreed` holds.

1. At most one request is unsettled (`OneUnsettled`).  Every node that has received a
   request has a clock past its timestamp, so the next request is later than all that are
   queued anywhere (`Known`), and every insertion is at the end of a queue
   (`InsertAgreed`): queues are sorted by the order in which requests were made (`Sorted`).
2. In each queue the elements whose RELEASE is on its way come first, the requests of nodes
   that have not left follow, and a node's own element is never among the former
   (`ReleasedFirst`).  Without this a RELEASE could pop the request of a node that waits.
3. A node that enters has all answers, so its request is in every queue.  If another were
   inside, each would be at the head of its own queue and have the other's request behind
   it, and each would be the earlier one (`HeadsDiffer`).
4. The node that leaves is first of the unreleased in every queue (`HolderIsFirst`), so the
   RELEASEs it sends are for the right elements, in whatever order they are handled.

### Ricart-Agrawala lock: conservation

`Conserved` holds whatever the clocks do.

- *Answers.*  The answer of `d` to the request of `n` is at one of seven stages
  (`Stages`): not yet sent to `d`, in `d`'s listener, a handler, the queue or the drain,
  in `n`'s listener or a handler of `n`.  It is at one only, and at none unless `n` waits;
  while `n` waits, `reqAckCount` and the nodes with a stage left (`Pending`) are together
  `nodeCount` (`Answers`).  So the equality that `n` waits for comes true exactly when every
  other node has answered this request.
- *Timestamps.*  A request travels and is queued with the timestamp its node keeps
  (`Timestamps`); a queue is sorted and contains the node's own request (`Queues`).  Thus
  `ReleaseLock` finds it and nothing is inserted twice.
- *Deferral.*  If a waiting node defers an earlier request than its own, the other node has
  not granted its own in turn; a node inside defers later requests only (`Deferral`).

### Ricart-Agrawala lock: exclusion

Given `Conserved`, exclusion and `EarliestEnters` need one thing of the clocks, `Ordered`: a
request that has been granted precedes the active request of the node which granted it.
Two nodes inside would each have granted the other's request.  `Ordered` is kept
when a node that has received a request stamps a later one.

- *Clocks that grow.*  A node's clock is above the requests it has received
  (`ClocksAbove`), because `handleMsg` puts it there.  With any number of nodes this is
  inductive under `ClockGrows`.
- *Two nodes.*  The clock may go back, and `ClocksAbove` fails: `handleMsg` can raise the
  clock of a node that is between load and store of its own `n.clock++`.  `Knows` lists
  what may then be the case: the clock is above the request and whatever is about to be
  stored is as well (`Fresh`); or the node is about to stamp and has not granted the
  request, which its handler will then compare; or it waits with its own request, and the
  answer that is still to come brings the higher timestamp back (`AckBrings`).  While a
  node does not wait for answers, its listener and its handlers store nothing below its
  clock (`Level`), so only its own `n.clock++` can put it back; it never falls
  below the node's own last request (`OwnClock`); and a request comes after the finished
  one of the other node (`Inactive`).  With a third node, two handlers of one node can be
  between load and store at once, and `Level` fails.

### Fault-tolerant Ivy: one live primary

A manager becomes a primary when its election has not been refused in time.  `Orderly` says
of the messages of an election where they are and what they imply:

1. each ELECT_ME comes from the election of its sender and each refusal from a listener,
   and both go to the other manager (`Origins`); an election asks while its manager is a
   backup and announces once it is a primary (`Canvass`);
2. a backup's listener speaks only to refuse, and only the higher manager refuses a backup
   (`BackupRefuses`); a listener that refuses says nothing else until it has done so
   (`RefusalAlone`);
3. if a candidate has been heard and no refusal is under way to it (`Cleared`), and both
   managers are up, then the other is not a primary and the candidate is the higher
   (`Unopposed`).

The timer of an election expires only in `Quiet`.  There a refused candidate would already
have given up, and a refusal under way would be waiting for the candidate's listener; but that
listener is idle, because only the higher of two backups has something to say, and it is
not refused by the other.  So the candidate is `Cleared`, and
`Unopposed` gives the invariant.  Two candidates are never cleared at once, because each would
be the higher one.  A crash needs nothing, since a dead manager is not a live primary, and
`Reboot` brings a manager back as a backup under a live primary.  All other steps leave the
elections alone (`Harmless`), which is most of the proof: it needs the type invariant with
what each message and local step carries (`TypeOK`, `Carried`).

### Model-checked only

- Fault-tolerant Ivy but for `TypeOK` and `OneLivePrimary`: `NoOtherPanic`,
  `CopiesAreLatest`, `BackupHasRecords` and `AccessIsGranted` hold for the programs of the
  run and one crash, and nothing is claimed beyond; other programs run into
  the defects listed above.
- Liveness under fairness (`OperationsReturn`, `AcquireReturns`, `OneCoordinatorInTheEnd`,
  `BroadcastEnds`) is beyond TLAPS, and so is `ENABLED`, with which `Quiet` was compared.
- General exclusion of both queue-based locks is false (see the violations).

## What is not modelled

- `Exit` and shutdown of nodes and managers (but for the shutdown handshake of the
  client-server program), and console programs.
- `NaiveNode`, which excludes nobody by intent, and the orchestrators, which forward
  calls, turn panics into errors and poll.
- Parts 1 and 2 of the client-server program: the same goroutines and channels as
  part 3 with a weaker or no clock.
- Fault-tolerant Ivy beyond one page, a reboot before the other manager has taken over, a
  crash of a node (excluded by assumption 3 of Design.md), and timers that expire although an answer is still to come
  (excluded by assumption 2).
- The data of the bully nodes.
- Races on Go maps and slices themselves, beyond those named above.

## Plan

Done: all modules; the safety properties of basic Ivy, of the locks, of the bully election
and of the vector-clock broadcast as theorems, and of fault-tolerant Ivy `TypeOK` and
`OneLivePrimary`.  Left:

1. `IvyFaultTolerant`: `AccessIsGranted` and `BackupHasRecords`.  Their inductive invariant
   has to join that of basic Ivy with what the backup knows at each moment of a crash, and
   to say which programs of the clients avoid the defects above.
2. The window after the unlock of `ongoingReqLock` in the voting protocol
   (VotingProtocol.go:278).

## Running the checks

In this directory, with the TLA+ tools and the community modules on the library path:

    tlc -config IvyBasicConcurrent.cfg MCIvyBasic
    tlapm VotingProofs.tla

`PROJECT.json` names the module and the configuration of every run, the expected
outcome, and the mutants.  The longest run, `BullyThreeNodes`, takes about three
minutes.
