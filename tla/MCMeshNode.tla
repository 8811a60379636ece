------------------------------- MODULE MCMeshNode -------------------------------
(* Instance of MeshNode for TLC: agents are nodes, keys are the minted ones. *)
EXTENDS MeshNode

MCKeys == 1 .. MaxKey
=============================================================================
