---------------------- MODULE MCDispatcherHistory ------------------------
EXTENDS DispatcherHistory, TLC

PacketSymmetry == Permutations(Packet)
========================================================================
