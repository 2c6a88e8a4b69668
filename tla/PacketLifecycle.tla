------------------------ MODULE PacketLifecycle ------------------------
(***************************************************************************)
(* What the Dispatcher promises about the packets of its pool, without its  *)
(* queues, timers and budget: each packet is in one place, moves only along *)
(* the listed ways, at most one is on the air, and that one comes back.     *)
(* One step may move several packets: processing a received packet can put  *)
(* it in the send queue and take another one out.                           *)
(***************************************************************************)
CONSTANT Packet

VARIABLE where                  \* the place of each packet

Place == {"unused", "held", "delayed", "queued", "on air"}

(* There is no way from the air to anywhere but the pool, none on the air    *)
(* but from the send queue, and none back into the queue of delayed packets. *)
Ways == { <<"unused", "held">>, <<"unused", "delayed">>, <<"unused", "queued">>,
          <<"held", "unused">>,
          <<"delayed", "unused">>, <<"delayed", "held">>, <<"delayed", "queued">>,
          <<"queued", "unused">>, <<"queued", "on air">>,
          <<"on air", "unused">> }

OneOnAir(w) == \A p, q \in Packet : w[p] = "on air" /\ w[q] = "on air" => p = q

Init == where = [p \in Packet |-> "unused"]

Move ==
  /\ where' \in [Packet -> Place]
  /\ \A p \in Packet : where'[p] = where[p] \/ <<where[p], where'[p]>> \in Ways
  /\ OneOnAir(where')

Spec == Init /\ [][Move]_where
========================================================================
