-------------------------- MODULE IvyBasicInvariant --------------------------
(***************************************************************************)
(* The inductive invariant behind the safety properties of IvyBasic.  It   *)
(* says, for each place the RequestHandler can be at, which messages can   *)
(* be under way and who can still have a valid copy.                       *)
(***************************************************************************)
EXTENDS IvyBasic

\* The request in service is the one of n for p.
Serving(n, p) == hpc # "idle" /\ req.node = n /\ req.page = p

ListenersIdle == \A m \in Nodes : lpc[m] = "idle"

OthersInvalid(n, p) == \A m \in Nodes : m # n => access[m][p] = Invalid

NoWriter(p) == \A m \in Nodes : access[m][p] # ReadWrite

\* A READWRITE copy is the owner's, or that of the writer in service.
WriterIsOwner ==
    \A n \in Nodes, p \in Pages :
        access[n][p] = ReadWrite => owner[p] = n \/ (hpc = "waitWC" /\ Serving(n, p))

\* A page has been sent to n for its operation on p, which has yet to store it.
PageSent(n, p) ==
    cpc[n][p] \in {"request", "invalidate", "wait"} /\ incoming[n].page = p

\* Such a page belongs to the request in service, and nothing else is under way.
PageInFlight ==
    \A n \in Nodes, p \in Pages : PageSent(n, p) => Serving(n, p) /\ ListenersIdle

\* A page sent for reading: no node may write it any more.
ReadPageInFlight ==
    \A n \in Nodes, p \in Pages :
        PageSent(n, p) /\ incoming[n].type = "RP" =>
            /\ hpc = "waitRC" /\ confirmations[n] = "none"
            /\ NoWriter(p) /\ n \in copySet[p]

\* A page sent for writing: no other node has a valid copy any more.
WritePageInFlight ==
    \A n \in Nodes, p \in Pages :
        PageSent(n, p) /\ incoming[n].type \in {"WP", "WI"} =>
            /\ hpc = "waitWC" /\ confirmations[n] # "WC"
            /\ OthersInvalid(n, p)

\* A page that has been stored but not confirmed.
PageStored ==
    \A n \in Nodes, p \in Pages :
        cpc[n][p] = "confirm" =>
            /\ Serving(n, p)
            /\ ListenersIdle
            /\ cop[n][p] = "read" => hpc = "waitRC" /\ confirmations[n] = "none"
            /\ cop[n][p] = "write" =>
                 /\ hpc = "waitWC" /\ confirmations[n] # "WC"
                 /\ access[n][p] = ReadWrite /\ OthersInvalid(n, p)

\* A page that has been confirmed while the handler has yet to see it.
PageConfirmed ==
    /\ hpc = "waitRC" /\ confirmations[req.node] = "RC" => ListenersIdle
    /\ hpc = "waitWC" /\ confirmations[req.node] = "WC" =>
         /\ ListenersIdle
         /\ access[req.node][req.page] = ReadWrite
         /\ OthersInvalid(req.node, req.page)
         /\ cpc[req.node][req.page] \in {"idle", "finish"}

\* A busy Listen goroutine handles a message of the request in service; an RF or WF is
\* the owner's, an IV that of a copy that has not confirmed.
ListenerServes ==
    \A m \in Nodes :
        lpc[m] # "idle" =>
            /\ Serving(lmsg[m].node, lmsg[m].page)
            /\ lmsg[m].type = "RF" =>
                 /\ hpc = "waitRC" /\ m = owner[req.page]
                 /\ confirmations[req.node] = "none"
                 /\ lpc[m] = "reply" => access[m][req.page] # ReadWrite
            /\ lmsg[m].type = "WF" =>
                 /\ hpc = "waitWC" /\ m = owner[req.page]
                 /\ confirmations[req.node] # "WC"
                 /\ lpc[m] = "reply" /\ m # req.node => access[m][req.page] = Invalid
            /\ lmsg[m].type = "IV" =>
                 /\ hpc \in {"invalidate", "waitIC"}
                 /\ m \in copySet[req.page] \ uninvalidated
                 /\ confirmations[m] = "none"
                 /\ lpc[m] = "reply" /\ m # req.node => access[m][req.page] = Invalid

\* What the handler's place says of the request, the confirmations and the copies.
HandlerPhase ==
    /\ hpc \in {"invalidate", "waitIC", "waitWC"} => req.kind = "write"
    /\ hpc = "waitRC" => req.kind = "read"
    /\ hpc \in {"forward", "waitRC"} /\ req.kind = "read" =>
         /\ req.node \in copySet[req.page]
         /\ \A m \in Nodes : confirmations[m] \in {"none", "RC"}
    /\ hpc = "forward" /\ req.kind = "read" => confirmations[req.node] = "none"
    /\ hpc \in {"invalidate", "waitIC"} =>
         /\ uninvalidated \subseteq copySet[req.page]
         /\ Invalidated \subseteq copySet[req.page] \ uninvalidated
         /\ \A m \in Invalidated : m # req.node => access[m][req.page] = Invalid
    /\ hpc = "waitIC" => uninvalidated = {}
    /\ hpc \in {"invalidate", "waitIC", "forward"} /\ req.kind = "write" =>
         \A m \in Nodes : confirmations[m] \in {"none", "IC"}
    /\ hpc \in {"forward", "waitWC"} /\ req.kind = "write" =>
         \A m \in Nodes : m # req.node /\ m # owner[req.page] => access[m][req.page] = Invalid

\* Everything the inductive invariant says beyond the types.
Protocol ==
    /\ SingleWriter
    /\ CopiesTracked
    /\ WriterIsOwner
    /\ PageInFlight
    /\ ReadPageInFlight
    /\ WritePageInFlight
    /\ PageStored
    /\ PageConfirmed
    /\ ListenerServes
    /\ HandlerPhase

\* The inductive invariant. TLC checks it on small instances, IvyBasicProofs proves it.
IInv == TypeOK /\ Protocol
=============================================================================
