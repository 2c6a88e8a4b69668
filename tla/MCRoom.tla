----------------------------- MODULE MCRoom -----------------------------
(* Rooms small enough for TLC: a is the admin and writes every post, b       *)
(* follows the room, c is a device that a may put on the list.              *)
EXTENDS Room, TLC

CONSTANTS a, b, c, p1, p2, p3

ByA == [p \in Post |-> a]
BothAdmin == (a :> Admin) @@ (b :> Admin) @@ (c :> 2)
Perms == (a :> Admin) @@ (b :> 2) @@ (c :> 2)

(* How many messages each device sends.                                     *)
Crossing == (a :> 3) @@ (b :> 2) @@ (c :> 0)
Wrapping == (a :> 4) @@ (b :> 1) @@ (c :> 0)
Lasting  == (a :> 2) @@ (b :> 2) @@ (c :> 0)

RemoveOrAdd == {<<b, Guest>>, <<c, 2>>}
AnyPost == Permutations(Post)
=========================================================================
