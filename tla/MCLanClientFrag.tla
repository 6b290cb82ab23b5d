-------------------------- MODULE MCLanClientFrag --------------------------
(***************************************************************************)
(* Two reassembly slots, so that a third packet finds the buffer full.     *)
(***************************************************************************)
EXTENDS LanClientFrag, TLC

CONSTANTS src1, src2

MCSrc == {src1, src2}

MCSymmetry == Permutations(MCSrc)
=============================================================================
