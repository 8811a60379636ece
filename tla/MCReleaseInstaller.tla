--------------------------- MODULE MCReleaseInstaller ---------------------------
(* Instances of ReleaseInstaller for TLC.                                   *)
EXTENDS ReleaseInstaller

CONSTANTS a, b, c

Manifest(v, s, art, from, to) ==
  [version |-> v, seq |-> s, artifact |-> art, issued |-> from, expires |-> to]

(* One manifest per version: two upgrades, a downgrade with a new sequence  *)
(* and one that is out of date.                                             *)
MCUnique ==
  {Manifest(2, 1, a, 0, 9), Manifest(1, 2, b, 0, 9), Manifest(3, 3, b, 3, 9),
   Manifest(4, 4, c, 0, 9), Manifest(5, 5, a, 0, 1)}

(* Version 1 is published a second time with another artifact.              *)
MCRepublished ==
  {Manifest(1, 1, a, 0, 9), Manifest(1, 2, b, 0, 9), Manifest(2, 3, c, 0, 9)}
=============================================================================
