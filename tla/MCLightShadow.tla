---------------------------- MODULE MCLightShadow ----------------------------
(***************************************************************************)
(* LightShadow with the history of the accesses, in which the load and the *)
(* store instructions are interchangeable.                                 *)
(***************************************************************************)
EXTENDS LightShadowProps, TLC

Symmetry == Permutations(LoadPCs) \cup Permutations(StorePCs)
=============================================================================
