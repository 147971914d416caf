----------------------------- MODULE MCJobQueue -----------------------------
(* Instances of JobQueue for TLC: j1 pushes j3 and j4 while j2 waits. *)
EXTENDS JobQueue

CONSTANTS j1, j2, j3, j4

MCJobs == {j1, j2, j3, j4}
MCSpawns == [j \in MCJobs |-> IF j = j1 THEN {j3, j4} ELSE {}]
=============================================================================
