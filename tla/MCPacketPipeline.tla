-------------------------- MODULE MCPacketPipeline --------------------------
\* PacketPipeline on small instances; the cfg files give the constants.
EXTENDS PacketPipeline, TLC

PacketSymmetry == Permutations(Packets)
Symmetry == Permutations(Packets) \cup Permutations(Preps) \cup Permutations(Workers)
=============================================================================
