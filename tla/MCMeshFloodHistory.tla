---------------------- MODULE MCMeshFloodHistory -----------------------
(***************************************************************************)
(* The mesh the history run floods.                                         *)
(***************************************************************************)
EXTENDS MeshFloodHistory, TLC

CONSTANTS a, b, c, d, e, m1, m2

TwoWay(links) == links \union { <<l[2], l[1]>> : l \in links }

(* A client between two repeaters in range of each other, and a third        *)
(* repeater behind them that alone reaches the second client.               *)
TriangleAndTail == TwoWay({<<a, b>>, <<a, c>>, <<b, c>>, <<c, d>>, <<d, e>>})

FromA == [m \in Msg |-> a]
FirstToD == [m \in Msg |-> IF m = m1 THEN {d} ELSE {}]
OneHopForSecond == [m \in Msg |-> IF m = m2 THEN 1 ELSE 0]
OneByte == [m \in Msg |-> 1]
Strict == [s \in 1 .. 3 |-> 1]
OwnHash == [n \in Node |-> n]
========================================================================
