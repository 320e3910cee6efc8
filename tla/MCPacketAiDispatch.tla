--------------------------- MODULE MCPacketAiDispatch ---------------------------
(* Instances of PacketAiDispatch for TLC.                                    *)
EXTENDS PacketAiDispatch, TLC
Symmetry == Permutations(Workers)
=============================================================================
