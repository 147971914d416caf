---------------------------- MODULE MCIndexFiles ----------------------------
(* Instances of IndexFiles for TLC. *)
EXTENDS IndexFiles

CONSTANTS f1, f2, f3, f4

MCSpawns == [j \in Jobs |-> {}]
=============================================================================
