---------------------------- MODULE PriorityQueue ----------------------------
(***************************************************************************)
(* pqueue of hw2/nodetypes: the queue of requests that the lock protocols  *)
(* keep, ordered by Lamport timestamp and then by node.  Every method      *)
(* holds accessLock, so each is one step of the protocol that calls it.    *)
(***************************************************************************)
EXTENDS Integers, FiniteSets, SequencesExt

\* Mutant: compare the nodes only.
BeforeByNode(e, f) == e.nodeId < f.nodeId

\* compareElems = -1.
Before(e, f) ==
    \/ e.timestamp < f.timestamp
    \/ e.timestamp = f.timestamp /\ e.nodeId < f.nodeId

\* compareElems = 0.
SameKey(e, f) == e.timestamp = f.timestamp /\ e.nodeId = f.nodeId

\* Insert scans from the head to the first element that is not before the new one.
Scanned(q, e) == {i \in 1..Len(q) : \A j \in 1..i : Before(q[j], e)}

\* The index of the new element.
Position(q, e) == 1 + Cardinality(Scanned(q, e))

\* The element found there is a duplicate.
InsertPanics(q, e) == Position(q, e) <= Len(q) /\ SameKey(e, q[Position(q, e)])

Insert(q, e) == InsertAt(q, Position(q, e), e)

\* Mutant: return the wrong field.
PeekTimestamp(q) == Head(q).timestamp

\* Peek and Extract panic on the empty queue; Extract leaves Tail(q).
Peek(q) == Head(q).nodeId
=============================================================================
