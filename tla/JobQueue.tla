------------------------------ MODULE JobQueue ------------------------------
(***************************************************************************)
(* The work-stealing job queue of rust/rubydex/src/job_queue.rs.           *)
(*                                                                         *)
(* One global `injector`, one local deque per worker, and the atomic       *)
(* counter `in_flight` that tells idle workers when to leave.  Every       *)
(* atomic access of the code is one step: the two halves of `push`, the    *)
(* load and the compare-and-swap of a steal, the load of the counter, the  *)
(* end of `job.run()`, the decrement, and the end of the iteration, where  *)
(* the box of the job is dropped.                                          *)
(*                                                                         *)
(* The deques are sets of jobs: which of the waiting jobs is handed out    *)
(* first matters to no property, and a set allows every order.  A steal    *)
(* that finds the head of the queue changed returns `Steal::Retry`; jobs   *)
(* leave a queue at its head only, so the head changed exactly when a job  *)
(* seen by the load is gone at the compare-and-swap.                       *)
(***************************************************************************)
EXTENDS Naturals, FiniteSets

CONSTANTS
    Jobs,       \* boxes of dyn Job; a box is created and pushed once
    Initial,    \* the jobs pushed by the caller before the workers start
    Spawns,     \* Spawns[j]: the jobs that j.run() pushes
    MayPanic,   \* the jobs whose run() may panic
    NoJob,
    NWorkers,   \* available_parallelism()
    MaxBatch    \* the most jobs one steal moves (32 in crossbeam-deque)

Workers == 1..NWorkers

ASSUME JobsAssumption ==
    /\ IsFiniteSet(Jobs)
    /\ NoJob \notin Jobs
    /\ Initial \subseteq Jobs
    /\ Spawns \in [Jobs -> SUBSET Jobs]
    /\ MayPanic \subseteq Jobs

ASSUME SizesAssumption ==
    /\ NWorkers \in Nat \ {0}
    /\ MaxBatch \in Nat \ {0}

VARIABLES
    inFlight,   \* in_flight: jobs queued but not yet completed
    injector,   \* the global queue
    local,      \* local[w]: the deque of worker w; peers hold its stealer
    pc,         \* where worker w is in worker_loop
    hand,       \* the box worker w holds (`job`), or NoJob
    child,      \* the job between the two halves of `push`, or NoJob
    seen,       \* the content of the queue that w loaded before its CAS
    victim,     \* the stealer w tries next, NWorkers + 1 after the last
    born,       \* history: jobs ever pushed
    ran         \* history: jobs whose run() was called

queueVars == <<injector, local>>
vars == <<inFlight, injector, local, pc, hand, child, seen, victim, born, ran>>

Stopped == {"exited", "dead"}
\* Inside job.run() or between its return and the decrement of the counter.
Working == {"run", "pushing", "ran", "panicked"}
PCs == {"local", "injector", "injectorCas", "peer", "peerCas", "check",
        "release", "unwind"} \cup Working \cup Stopped

Init ==
    /\ inFlight = Cardinality(Initial)
    /\ injector = Initial
    /\ local = [w \in Workers |-> {}]
    /\ pc = [w \in Workers |-> "local"]
    /\ hand = [w \in Workers |-> NoJob]
    /\ child = [w \in Workers |-> NoJob]
    /\ seen = [w \in Workers |-> {}]
    /\ victim = [w \in Workers |-> 1]
    /\ born = Initial
    /\ ran = {}

Goto(w, l) == pc' = [pc EXCEPT ![w] = l]

\* steal_job returned Some(job) and the loop calls job.run().
Start(w, j) ==
    /\ hand' = [hand EXCEPT ![w] = j]
    /\ ran' = ran \cup {j}
    /\ Goto(w, "run")

-----------------------------------------------------------------------------
(* steal_job *)

\* local.pop() on a deque that is not empty.
PopLocal(w) ==
    /\ pc[w] = "local"
    /\ \E j \in local[w] :
        /\ local' = [local EXCEPT ![w] = @ \ {j}]
        /\ Start(w, j)
    /\ UNCHANGED <<inFlight, injector, child, seen, victim, born>>

PopNothing(w) ==
    /\ pc[w] = "local"
    /\ local[w] = {}
    /\ Goto(w, "injector")
    /\ UNCHANGED <<inFlight, queueVars, hand, child, seen, victim, born, ran>>

\* The first half of injector.steal_batch_and_pop(local): load head and tail.
LoadInjector(w) ==
    /\ pc[w] = "injector"
    /\ seen' = [seen EXCEPT ![w] = injector]
    /\ IF injector = {}
         THEN /\ Goto(w, "peer")
              /\ victim' = [victim EXCEPT ![w] = 1]
         ELSE /\ Goto(w, "injectorCas")
              /\ UNCHANGED victim
    /\ UNCHANGED <<inFlight, queueVars, hand, child, born, ran>>

\* What a batch steal may move: some of the jobs, one of which is returned.
Batches(queue) == {b \in SUBSET queue : b # {} /\ Cardinality(b) <= MaxBatch}

\* The jobs of a batch that go to the thief's own deque.
Rest(b, j) == b \ {j}

\* Its second half: the CAS of the head succeeds when nothing was taken since.
StealInjector(w) ==
    /\ pc[w] = "injectorCas"
    /\ seen[w] \subseteq injector
    /\ \E b \in Batches(seen[w]) : \E j \in b :
        /\ injector' = injector \ b
        /\ local' = [local EXCEPT ![w] = @ \cup Rest(b, j)]
        /\ Start(w, j)
    /\ seen' = [seen EXCEPT ![w] = {}]
    /\ UNCHANGED <<inFlight, child, victim, born>>

RetryInjector(w) ==
    /\ pc[w] = "injectorCas"
    /\ ~(seen[w] \subseteq injector)
    /\ seen' = [seen EXCEPT ![w] = {}]
    /\ Goto(w, "check")
    /\ UNCHANGED <<inFlight, queueVars, hand, child, victim, born, ran>>

\* One turn of `for stealer in stealers`, in the order of the vector.
LoadPeer(w) ==
    /\ pc[w] = "peer"
    /\ victim[w] \in Workers
    /\ seen' = [seen EXCEPT ![w] = local[victim[w]]]
    /\ IF local[victim[w]] = {}
         THEN /\ victim' = [victim EXCEPT ![w] = @ + 1]
              /\ UNCHANGED pc
         ELSE /\ Goto(w, "peerCas")
              /\ UNCHANGED victim
    /\ UNCHANGED <<inFlight, queueVars, hand, child, born, ran>>

StealPeer(w) ==
    /\ pc[w] = "peerCas"
    /\ seen[w] \subseteq local[victim[w]]
    /\ \E b \in Batches(seen[w]) : \E j \in b :
        /\ local' = [local EXCEPT ![victim[w]] = @ \ b,
                                  ![w] = @ \cup Rest(b, j)]
        /\ Start(w, j)
    /\ seen' = [seen EXCEPT ![w] = {}]
    /\ UNCHANGED <<inFlight, injector, child, victim, born>>

RetryPeer(w) ==
    /\ pc[w] = "peerCas"
    /\ ~(seen[w] \subseteq local[victim[w]])
    /\ seen' = [seen EXCEPT ![w] = {}]
    /\ Goto(w, "check")
    /\ UNCHANGED <<inFlight, queueVars, hand, child, victim, born, ran>>

\* No stealer is left: steal_job returns None.
NoPeerLeft(w) ==
    /\ pc[w] = "peer"
    /\ victim[w] \notin Workers
    /\ Goto(w, "check")
    /\ UNCHANGED <<inFlight, queueVars, hand, child, seen, victim, born, ran>>

-----------------------------------------------------------------------------
(* worker_loop *)

\* mutated form: leave when this worker saw every queue empty
MayLeave_QueuesEmpty == injector = {} /\ \A v \in Workers : local[v] = {}
\* self.in_flight.load(Ordering::Acquire) == 0
MayLeave == inFlight = 0

Check(w) ==
    /\ pc[w] = "check"
    /\ IF MayLeave THEN Goto(w, "exited") ELSE Goto(w, "local")
    /\ UNCHANGED <<inFlight, queueVars, hand, child, seen, victim, born, ran>>

\* mutated form: the job is put on the injector before it is counted
PushCount_After(n) == n
\* fetch_add of push, before the job reaches the injector.
PushCount(n) == n + 1

\* The running job calls queue.push: the counter first ...
CountChild(w) ==
    /\ pc[w] = "run"
    /\ \E j \in Spawns[hand[w]] \ born :
        /\ child' = [child EXCEPT ![w] = j]
        /\ born' = born \cup {j}
    /\ inFlight' = PushCount(inFlight)
    /\ Goto(w, "pushing")
    /\ UNCHANGED <<queueVars, hand, seen, victim, ran>>

\* ... then the injector.
InjectChild(w) ==
    /\ pc[w] = "pushing"
    /\ injector' = injector \cup {child[w]}
    /\ child' = [child EXCEPT ![w] = NoJob]
    /\ Goto(w, "run")
    /\ UNCHANGED <<inFlight, local, hand, seen, victim, born, ran>>

\* job.run() returns, having pushed all it had to push.
Return(w) ==
    /\ pc[w] = "run"
    /\ Spawns[hand[w]] \subseteq born
    /\ Goto(w, "ran")
    /\ UNCHANGED <<inFlight, queueVars, hand, child, seen, victim, born, ran>>

\* catch_unwind catches a panic of the job, wherever it was in its work.
Panic(w) ==
    /\ pc[w] = "run"
    /\ hand[w] \in MayPanic
    /\ Goto(w, "panicked")
    /\ UNCHANGED <<inFlight, queueVars, hand, child, seen, victim, born, ran>>

\* mutated form: the counter is decremented for a job that returned only
CountDown_SkipPanic(w) == IF pc[w] = "panicked" THEN inFlight ELSE inFlight - 1
\* in_flight.fetch_sub, whether or not the job panicked.
CountDown(w) == inFlight - 1

Complete(w) ==
    /\ pc[w] \in {"ran", "panicked"}
    /\ inFlight' = CountDown(w)
    /\ Goto(w, IF pc[w] = "ran" THEN "release" ELSE "unwind")
    /\ UNCHANGED <<queueVars, hand, child, seen, victim, born, ran>>

\* mutated form: a panicking thread takes its deque with it
Release_Deque(w) ==
    /\ pc[w] \in {"release", "unwind"}
    /\ hand' = [hand EXCEPT ![w] = NoJob]
    /\ Goto(w, IF pc[w] = "release" THEN "local" ELSE "dead")
    /\ local' = [local EXCEPT ![w] = IF pc[w] = "release" THEN @ ELSE {}]
    /\ UNCHANGED <<inFlight, injector, child, seen, victim, born, ran>>

\* The end of the iteration drops the box of the job; resume_unwind drops it
\* too and ends the thread, whose deque stays within reach of its stealers.
Release(w) ==
    /\ pc[w] \in {"release", "unwind"}
    /\ hand' = [hand EXCEPT ![w] = NoJob]
    /\ Goto(w, IF pc[w] = "release" THEN "local" ELSE "dead")
    /\ UNCHANGED <<inFlight, queueVars, child, seen, victim, born, ran>>

StealJob(w) ==
    \/ PopLocal(w) \/ PopNothing(w)
    \/ LoadInjector(w) \/ StealInjector(w) \/ RetryInjector(w)
    \/ LoadPeer(w) \/ StealPeer(w) \/ RetryPeer(w) \/ NoPeerLeft(w)

WorkerStep(w) ==
    \/ StealJob(w) \/ Check(w)
    \/ CountChild(w) \/ InjectChild(w) \/ Return(w) \/ Panic(w)
    \/ Complete(w) \/ Release(w)

\* run_with_workers joins every thread: the run is over.
AllStopped == \A w \in Workers : pc[w] \in Stopped
Joined == AllStopped /\ UNCHANGED vars

Next == Joined \/ \E w \in Workers : WorkerStep(w)

Spec == Init /\ [][Next]_vars

-----------------------------------------------------------------------------
(* Properties *)

InQueues == injector \cup UNION {local[w] : w \in Workers}
Pushing == {child[w] : w \in {v \in Workers : pc[v] = "pushing"}}
Running == {hand[w] : w \in {v \in Workers : pc[v] \in Working}}
Outstanding == InQueues \cup Pushing \cup Running

\* Every variable has its type; the counter never wraps below zero.
TypeOK ==
    /\ inFlight \in Nat
    /\ injector \in SUBSET Jobs
    /\ local \in [Workers -> SUBSET Jobs]
    /\ pc \in [Workers -> PCs]
    /\ hand \in [Workers -> Jobs \cup {NoJob}]
    /\ child \in [Workers -> Jobs \cup {NoJob}]
    /\ seen \in [Workers -> SUBSET Jobs]
    /\ victim \in [Workers -> 1..(NWorkers + 1)]
    /\ born \in SUBSET Jobs
    /\ ran \in SUBSET Jobs

\* The counter is the number of jobs somewhere between `push` and the end of
\* `run`, at every instant of every interleaving of pushes, steals and
\* decrements ("Count of jobs that have been queued but not yet completed").
Accounting == inFlight = Cardinality(Outstanding)

\* A steal neither loses nor copies a job: what was pushed and has not been
\* run is in exactly one of the queues (or in the hands of the job pushing
\* it), and what was run is in none, so no job runs twice.
NothingLost ==
    /\ born \ ran = InQueues \cup Pushing
    /\ \A v, w \in Workers :
        /\ local[w] \cap injector = {}
        /\ v # w => local[v] \cap local[w] = {}

\* What the two properties above rest on: a job is in the hands of one worker
\* only, and the job being pushed is not yet anywhere else.
HandsDistinct ==
    /\ ran \subseteq born
    /\ \A w \in Workers :
        /\ pc[w] \in Working => hand[w] \in ran
        /\ pc[w] = "pushing" => child[w] \in Jobs \ InQueues
        /\ pc[w] = "peerCas" => victim[w] \in Workers
    /\ \A v, w \in Workers : v # w =>
        /\ pc[v] \in Working /\ pc[w] \in Working => hand[v] # hand[w]
        /\ pc[v] = "pushing" /\ pc[w] = "pushing" => child[v] # child[w]

\* A worker that left because it read zero left nothing behind: no job waits
\* or runs anywhere, and none ever will ("exits once `in_flight` reaches zero
\* (meaning no pending work anywhere)").
ExitMeansDone ==
    (\E w \in Workers : pc[w] = "exited") => Outstanding = {} /\ born = ran

\* The inductive invariant of the proofs.
IndInv == TypeOK /\ Accounting /\ NothingLost /\ HandsDistinct /\ ExitMeansDone

\* Jobs are left behind by a finished run only when every worker died.
LeftoverMeansAllDied ==
    AllStopped /\ born # ran => \A w \in Workers : pc[w] = "dead"

\* Under a fair scheduler the run ends: steals that fail are retried only
\* because another worker obtained a job, and the counter reaches zero.
Termination == <>AllStopped

\* The pool's view of the workers: a job is held until it is counted off.
Held == [w \in Workers |-> IF pc[w] \in Working THEN hand[w] ELSE NoJob]
Gone == {w \in Workers : pc[w] = "exited"}
Dead == {w \in Workers : pc[w] \in {"unwind", "dead"}}

Pool == INSTANCE JobPool WITH
          waiting <- InQueues, held <- Held, gone <- Gone, dead <- Dead

\* Every step of the queue is a step of the abstract pool of jobs or leaves it
\* unchanged: a job becomes available when the injector receives it, is taken
\* once, and a worker leaves only when nothing is waiting or running.
ImplementsPool == Pool!Spec
=============================================================================
