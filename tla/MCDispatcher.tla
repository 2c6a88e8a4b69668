------------------------- MODULE MCDispatcher -------------------------
EXTENDS Dispatcher, TLC

PacketSymmetry == Permutations(Packet)
========================================================================
