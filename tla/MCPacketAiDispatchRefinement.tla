---------------------- MODULE MCPacketAiDispatchRefinement ----------------------
(* Instances of PacketAiDispatchRefinement for TLC.                          *)
EXTENDS PacketAiDispatchRefinement, TLC
Symmetry == Permutations(Workers)
=============================================================================
