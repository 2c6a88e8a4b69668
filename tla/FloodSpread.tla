-------------------------- MODULE FloodSpread --------------------------
(***************************************************************************)
(* What flooding promises, without tables, queues and paths: a message is   *)
(* known first where it originates, and from then on only by nodes in radio *)
(* range of one that knows it and may pass it on.  Nothing is invented,     *)
(* nothing jumps over a gap, and nothing passes through a node that does    *)
(* not relay.                                                               *)
(***************************************************************************)
CONSTANTS Node, Msg,
          Links,                \* <<a, b>> : b hears what a transmits
          Origin,               \* where each message comes from
          Carriers              \* the nodes that may pass each message on

VARIABLE knows                  \* the nodes that know each message

Passes(m) == Carriers[m] \union {Origin[m]}

Init == knows = [m \in Msg |-> {}]

Originate(m) ==
  /\ knows[m] = {}
  /\ knows' = [knows EXCEPT ![m] = {Origin[m]}]

Spread(m, n) ==
  /\ \E k \in knows[m] \intersect Passes(m) : <<k, n>> \in Links
  /\ knows' = [knows EXCEPT ![m] = @ \union {n}]

Next == \E m \in Msg : Originate(m) \/ \E n \in Node : Spread(m, n)

Spec == Init /\ [][Next]_knows
========================================================================
