--------------------------- MODULE MCSessionListener ---------------------------
(* Instances of SessionListener for TLC.                                    *)
EXTENDS SessionListener, TLC

Symmetry == Permutations(Keys) \cup Permutations(Tokens) \cup Permutations(Conns)
=============================================================================
