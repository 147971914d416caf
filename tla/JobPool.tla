------------------------------- MODULE JobPool -------------------------------
(***************************************************************************)
(* What a job queue promises its user, with no deques, counters or         *)
(* stealing: a pool of waiting jobs, threads that take one job at a time,  *)
(* jobs that may add jobs while they run, and threads that leave only when *)
(* nothing is left to do (or die with the job that panics).                *)
(* Comment of the trait and of JobQueue::run: "Run jobs until the queue is *)
(* empty.  Accepts the shared queue so jobs can enqueue more work while    *)
(* the runner is processing."                                              *)
(***************************************************************************)

CONSTANTS Workers, Jobs, Initial, NoJob

VARIABLES
    waiting,    \* jobs submitted and not started
    held,       \* the job each worker is responsible for, or NoJob
    gone,       \* workers that returned because the work was finished
    dead        \* workers that died with their job

vars == <<waiting, held, gone, dead>>

Present == Workers \ (gone \cup dead)

Init ==
    /\ waiting = Initial
    /\ held = [w \in Workers |-> NoJob]
    /\ gone = {}
    /\ dead = {}

\* A job in progress submits one more job.
Submit(w) ==
    /\ held[w] # NoJob
    /\ \E j \in Jobs \ waiting :
        /\ \A v \in Workers : held[v] # j
        /\ waiting' = waiting \cup {j}
    /\ UNCHANGED <<held, gone, dead>>

Take(w) ==
    /\ w \in Present
    /\ held[w] = NoJob
    /\ \E j \in waiting :
        /\ waiting' = waiting \ {j}
        /\ held' = [held EXCEPT ![w] = j]
    /\ UNCHANGED <<gone, dead>>

Finish(w) ==
    /\ held[w] # NoJob
    /\ held' = [held EXCEPT ![w] = NoJob]
    /\ \/ dead' = dead
       \/ dead' = dead \cup {w}
    /\ UNCHANGED <<waiting, gone>>

\* A worker leaves only when no job waits and no worker is still running one.
Leave(w) ==
    /\ w \in Present
    /\ waiting = {}
    /\ \A v \in Workers : held[v] = NoJob
    /\ gone' = gone \cup {w}
    /\ UNCHANGED <<waiting, held, dead>>

Next == \E w \in Workers : Submit(w) \/ Take(w) \/ Finish(w) \/ Leave(w)

Spec == Init /\ [][Next]_vars
=============================================================================
