----------------------- MODULE MeshFloodHistory ------------------------
(***************************************************************************)
(* The flooding mesh with its history: how often each node sent each        *)
(* message, and which retransmissions were cancelled.  The history variables*)
(* only watch; no node restarts here.                                       *)
(***************************************************************************)
EXTENDS MeshFlood

VARIABLES
  sends,                        \* how often each node sent each message
  cancelled                     \* <<n, m>> : n cancelled its relay of m

hvars == <<vars, sends, cancelled>>

HInit ==
  /\ Init
  /\ sends = [n \in Node |-> [m \in Msg |-> 0]]
  /\ cancelled = {}

WatchSend(n) ==
  /\ Transmit(n)
  /\ \E e \in pending[n] \ pending'[n] :
       sends' = [sends EXCEPT ![n][e.msg] = @ + 1]
  /\ UNCHANGED cancelled

WatchProcess(n) ==
  /\ Process(n)
  /\ cancelled' = cancelled \union
       { <<n, m>> : m \in { k \in Msg :
           /\ \E e \in pending[n] : e.msg = k
           /\ ~\E e \in pending'[n] : e.msg = k } }
  /\ UNCHANGED sends

HNext ==
  \/ \E m \in Msg : Originate(m) /\ UNCHANGED <<sends, cancelled>>
  \/ \E n \in Node : WatchSend(n) \/ WatchProcess(n)

HSpec == HInit /\ [][HNext]_hvars
FairHSpec == HSpec /\ \A n \in Node : WF_hvars(WatchSend(n) \/ WatchProcess(n))

------------------------------------------------------------------------
(* Mesh.h:75: a node sends a packet only once, whatever copies of it come    *)
(* back in whatever order; the ring of hashes must be large enough for the   *)
(* traffic.                                                                 *)
SentOnce ==
  Remembers => \A n \in Node, m \in Msg : sends[n][m] <= 1

(* A relay is cancelled only when more nodes in range of the repeater than    *)
(* the threshold have themselves sent the packet: nobody is counted twice,   *)
(* and the copy that made it queue the relay is not counted as a duplicate   *)
(* (README.md:180-189, recordDuplicateForSuppression).                       *)
CancelledIsCovered ==
  Remembers => \A p \in cancelled :
    Cardinality({ k \in Node : <<k, p[1]>> \in Links /\ sends[k][p[2]] > 0 }) > Threshold
========================================================================
