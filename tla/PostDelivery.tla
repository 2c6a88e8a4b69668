-------------------------- MODULE PostDelivery --------------------------
(***************************************************************************)
(* What a room promises: a log of posts of which the latest Capacity are     *)
(* kept, and to each device the posts of the others in the order of the log, *)
(* none left out but those no longer kept; a restart keeps none, and may      *)
(* leave devices ahead of the server's clock, to which no order is promised. *)
(***************************************************************************)
EXTENDS Integers, Sequences

CONSTANTS Device, Post, Author, Capacity

VARIABLES log, seen, gone,      \* gone: how many posts restarts have lost
          ahead

Init == log = << >> /\ seen = [d \in Device |-> {}] /\ gone = 0 /\ ahead = {}

Kept == { i \in DOMAIN log : i > Len(log) - Capacity /\ i > gone }

Add(p) == log' = Append(log, p) /\ UNCHANGED <<seen, gone, ahead>>

Forget == gone' = Len(log) /\ ahead \subseteq ahead' /\ UNCHANGED <<log, seen>>

Deliver(d, i) ==
  /\ Author[log[i]] # d
  /\ d \notin ahead => \A j \in Kept : j < i /\ Author[log[j]] # d => log[j] \in seen[d]
  /\ seen' = [seen EXCEPT ![d] = @ \union {log[i]}]
  /\ UNCHANGED <<log, gone, ahead>>

Next ==
  \/ \E p \in Post : Add(p)
  \/ Forget
  \/ \E d \in Device : \E i \in DOMAIN log : Deliver(d, i)

Spec == Init /\ [][Next]_<<log, seen, gone, ahead>>
========================================================================
