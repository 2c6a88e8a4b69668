------------------------- MODULE MCMeshFlood -------------------------
(***************************************************************************)
(* The meshes the runs flood.                                               *)
(***************************************************************************)
EXTENDS MeshFlood, TLC

CONSTANTS a, b, c, d, e, m1, m2

TwoWay(links) == links \union { <<l[2], l[1]>> : l \in links }

(* Three and five nodes, each in range of its neighbours only.               *)
ShortLine == TwoWay({<<a, b>>, <<b, c>>})
Line == TwoWay({<<a, b>>, <<b, c>>, <<c, d>>, <<d, e>>})

FromA == (m1 :> a)
FromAB == (m1 :> a @@ m2 :> b)
ToNobody == [m \in Msg |-> {}]
ThreeHopsForSecond == [m \in Msg |-> IF m = m2 THEN 3 ELSE 0]
TwoHops == [m \in Msg |-> 2]
OneByte == [m \in Msg |-> 1]
Strict == [s \in 1 .. 3 |-> 1]
OwnHash == [n \in Node |-> n]
=======================================================================
