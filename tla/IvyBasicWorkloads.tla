-------------------------- MODULE IvyBasicWorkloads --------------------------
(***************************************************************************)
(* The client programs of hw3/IvyBasic/System_test.go.  They restrict only *)
(* when operations start; the protocol below them is IvyBasic's.           *)
(*                                                                         *)
(* TestMultiWrite writes from all nodes at the same time, then reads from  *)
(* one node after another.  TestStandardUsage writes once, reads from one  *)
(* node after another, writes from another node and reads again.  Both are *)
(* behaviours of TestSpec: a round of concurrent first writes, then one    *)
(* operation at a time, with one more write.                               *)
(***************************************************************************)
EXTENDS IvyBasic

VARIABLE round   \* "writes", then "reads", then "again" after the second write

testVars == <<vars, round>>

AllIdle == \A n \in Nodes, p \in Pages : cpc[n][p] = "idle"

FirstWrite ==
    /\ round = "writes"
    /\ \E n \in Nodes, p \in Pages : started[n] = 0 /\ ClientWrite(n, p)
    /\ UNCHANGED round

NextRead ==
    /\ AllIdle
    /\ \E n \in Nodes, p \in Pages : latest[p] > 0 /\ ClientRead(n, p)
    /\ round' = IF round = "writes" THEN "reads" ELSE round

\* The second write is "from a different node" than the page's owner.
SecondWrite ==
    /\ AllIdle
    /\ round = "reads"
    /\ \E n \in Nodes, p \in Pages : owner[p] \notin {n, NoNode} /\ ClientWrite(n, p)
    /\ round' = "again"

\* One operation at a time, of any node, is a program the tests do not run: it is the one
\* under which OwnerHasPage fails.
SequentialStart == AllIdle /\ \E n \in Nodes, p \in Pages : ClientStart(n, p)

TestInit == Init /\ round = "writes"

TestNext ==
    /\ Running
    /\ \/ Step /\ UNCHANGED round
       \/ FirstWrite
       \/ NextRead
       \/ SecondWrite

TestSpec == TestInit /\ [][TestNext]_testVars /\ Fairness

SequentialSpec ==
    Init /\ round = "writes" /\ [][Running /\ (Step \/ SequentialStart) /\ UNCHANGED round]_testVars

\* With one operation at a time after the first writes, a read returns exactly the last
\* write (README.md of IvyBasic: "All nodes should read the latest data").
ReadsLatest ==
    \A n \in Nodes, p \in Pages :
        cpc[n][p] = "finish" /\ cop[n][p] = "read" => data[n][p] = latest[p]

\* Every operation returns: no lock, no channel and no confirmation is waited for forever.
OperationsReturn ==
    \A n \in Nodes, p \in Pages : cpc[n][p] # "idle" ~> cpc[n][p] = "idle"
=============================================================================
