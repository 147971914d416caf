--------------------------- MODULE JobQueueProofs ---------------------------
(***************************************************************************)
(* Proofs about JobQueue, for any number of workers and any finite set of  *)
(* jobs: the counter is exact, no job is lost or run twice, a worker       *)
(* leaves only when all the work is done, and the queue implements         *)
(* JobPool.                                                                *)
(***************************************************************************)
EXTENDS JobQueue, FiniteSetTheorems, TLAPS

\* While no job is lost, the outstanding jobs are those not yet started and
\* those being run.
LEMMA OutstandingJobs ==
  ASSUME NothingLost
  PROVE  Outstanding = (born \ ran) \cup Running
BY DEF NothingLost, Outstanding

LEMMA OutstandingFinite ==
  ASSUME TypeOK, HandsDistinct
  PROVE  /\ (born \ ran) \cup Running \subseteq Jobs
         /\ IsFiniteSet((born \ ran) \cup Running)
<1>1. Running \subseteq Jobs
  BY DEF Running, HandsDistinct, TypeOK
<1>2. (born \ ran) \cup Running \in SUBSET Jobs
  BY <1>1 DEF TypeOK
<1> QED
  BY <1>2, FS_Subset, JobsAssumption

\* The initial states satisfy the invariant.
LEMMA InitInv == Init => IndInv
<1> SUFFICES ASSUME Init PROVE IndInv
  OBVIOUS
<1>1. IsFiniteSet(Initial) /\ Cardinality(Initial) \in Nat
  BY FS_Subset, FS_CardinalityType, JobsAssumption
<1>2. TypeOK
  BY <1>1, JobsAssumption, SizesAssumption
  DEF Init, TypeOK, Workers, PCs
<1>3. Pushing = {} /\ Running = {} /\ InQueues = Initial
  BY DEF Init, Pushing, Running, InQueues, Working
<1>4. Accounting
  BY <1>3 DEF Init, Accounting, Outstanding
<1>5. NothingLost
  BY <1>3 DEF Init, NothingLost
<1>6. HandsDistinct
  BY DEF Init, HandsDistinct, Working
<1>7. ExitMeansDone
  BY DEF Init, ExitMeansDone
<1> QED
  BY <1>2, <1>4, <1>5, <1>6, <1>7 DEF IndInv

-----------------------------------------------------------------------------
(* Type correctness.  `inFlight' \in Nat` needs the accounting: a worker that
   is about to decrement holds an outstanding job, so the counter is not 0. *)

LEMMA CounterPositive ==
  ASSUME IndInv, NEW w \in Workers, pc[w] \in Working
  PROVE  inFlight \in Nat \ {0}
<1>1. /\ Outstanding = (born \ ran) \cup Running
      /\ IsFiniteSet(Outstanding)
  BY OutstandingJobs, OutstandingFinite DEF IndInv
<1>2. hand[w] \in Outstanding
  BY <1>1 DEF Running
<1> QED
  BY <1>1, <1>2, FS_EmptySet DEF IndInv, Accounting, TypeOK

LEMMA StealType ==
  ASSUME TypeOK, NEW w \in Workers, StealJob(w)
  PROVE  TypeOK'
<1> USE SizesAssumption DEF TypeOK, PCs, Working, Goto, queueVars
<1>1. CASE PopLocal(w)
  BY <1>1 DEF PopLocal, Start
<1>2. CASE PopNothing(w)
  BY <1>2 DEF PopNothing
<1>3. CASE LoadInjector(w)
  <2>1. 1 \in 1..(NWorkers + 1)
    OBVIOUS
  <2> QED
    BY <1>3, <2>1 DEF LoadInjector
<1>4. CASE StealInjector(w)
  BY <1>4 DEF StealInjector, Start, Batches, Rest
<1>5. CASE RetryInjector(w)
  BY <1>5 DEF RetryInjector
<1>6. CASE LoadPeer(w)
  <2>1. CASE local[victim[w]] = {}
    <3>1. victim[w] \in 1..NWorkers /\ victim[w] + 1 \in 1..(NWorkers + 1)
      BY <1>6 DEF LoadPeer, Workers
    <3>2. victim' \in [Workers -> 1..(NWorkers + 1)]
      BY <1>6, <2>1, <3>1 DEF LoadPeer
    <3> QED
      BY <1>6, <2>1, <3>2 DEF LoadPeer
  <2>2. CASE local[victim[w]] # {}
    BY <1>6, <2>2 DEF LoadPeer
  <2> QED
    BY <2>1, <2>2
<1>7. CASE StealPeer(w)
  BY <1>7 DEF StealPeer, Start, Batches, Rest
<1>8. CASE RetryPeer(w)
  BY <1>8 DEF RetryPeer
<1>9. CASE NoPeerLeft(w)
  BY <1>9 DEF NoPeerLeft
<1> QED
  BY <1>1, <1>2, <1>3, <1>4, <1>5, <1>6, <1>7, <1>8, <1>9 DEF StealJob

LEMMA TypeStep == IndInv /\ [Next]_vars => TypeOK'
<1> SUFFICES ASSUME IndInv, [Next]_vars PROVE TypeOK'
  OBVIOUS
<1> TypeOK
  BY DEF IndInv
<1>1. CASE UNCHANGED vars
  BY <1>1 DEF TypeOK, vars
<1>2. CASE Joined
  BY <1>2 DEF TypeOK, vars, Joined
<1>3. ASSUME NEW w \in Workers, WorkerStep(w) PROVE TypeOK'
  <2> USE DEF TypeOK, PCs, Working, Stopped, Goto, queueVars
  <2>1. CASE StealJob(w)
    BY <2>1, StealType
  <2>2. CASE Check(w)
    BY <2>2 DEF Check
  <2>3. CASE CountChild(w)
    <3>1. hand[w] \in Jobs
      BY <2>3 DEF CountChild, IndInv, HandsDistinct
    <3>2. \A j \in Spawns[hand[w]] : j \in Jobs
      BY <3>1, JobsAssumption
    <3> QED
      BY <2>3, <3>2 DEF CountChild, PushCount
  <2>4. CASE InjectChild(w)
    BY <2>4 DEF InjectChild, IndInv, HandsDistinct
  <2>5. CASE Return(w)
    BY <2>5 DEF Return
  <2>6. CASE Panic(w)
    BY <2>6 DEF Panic
  <2>7. CASE Complete(w)
    BY <2>7, CounterPositive DEF Complete, CountDown
  <2>8. CASE Release(w)
    BY <2>8 DEF Release
  <2> QED
    BY <1>3, <2>1, <2>2, <2>3, <2>4, <2>5, <2>6, <2>7, <2>8 DEF WorkerStep
<1> QED
  BY <1>1, <1>2, <1>3 DEF Next

-----------------------------------------------------------------------------
(* No step loses a job, copies one, or hands one to two workers. *)

\* The steps that move no job and start none.
Bookkeeping(w) ==
    \/ PopNothing(w) \/ LoadInjector(w) \/ RetryInjector(w) \/ LoadPeer(w)
    \/ RetryPeer(w) \/ NoPeerLeft(w) \/ Check(w)

LEMMA BookkeepingStep ==
  ASSUME TypeOK, NEW w \in Workers, Bookkeeping(w)
  PROVE  /\ UNCHANGED <<inFlight, injector, local, hand, child, born, ran>>
         /\ pc' = [pc EXCEPT ![w] = pc'[w]]
         /\ pc[w] \notin Working /\ pc'[w] \notin Working
         /\ pc'[w] = "peerCas" => victim'[w] \in Workers
         /\ \A v \in Workers \ {w} : victim'[v] = victim[v]
BY DEF Bookkeeping, PopNothing, LoadInjector, RetryInjector, LoadPeer, RetryPeer,
       NoPeerLeft, Check, Goto, TypeOK, Working, queueVars

LEMMA JobsKept ==
  ASSUME IndInv, NEW w \in Workers, WorkerStep(w)
  PROVE  NothingLost' /\ HandsDistinct'
<1> USE DEF IndInv, TypeOK, NothingLost, HandsDistinct, InQueues, Pushing, Goto,
            Start, queueVars, Working
<1>1. CASE PopLocal(w)
  BY <1>1 DEF PopLocal
<1>2. CASE StealInjector(w)
  BY <1>2 DEF StealInjector, Batches, Rest
<1>3. CASE StealPeer(w)
  BY <1>3 DEF StealPeer, Batches, Rest
<1>4. CASE Bookkeeping(w)
  BY <1>4, BookkeepingStep
<1>5. CASE CountChild(w)
  BY <1>5, JobsAssumption DEF CountChild
<1>6. CASE InjectChild(w)
  BY <1>6 DEF InjectChild
<1>7. CASE Return(w) \/ Panic(w)
  BY <1>7 DEF Return, Panic
<1>8. CASE Complete(w)
  BY <1>8 DEF Complete
<1>9. CASE Release(w)
  BY <1>9 DEF Release
<1> QED
  BY <1>1, <1>2, <1>3, <1>4, <1>5, <1>6, <1>7, <1>8, <1>9
  DEF WorkerStep, StealJob, Bookkeeping

-----------------------------------------------------------------------------
(* The counter stays exact. *)

\* What a step does to the set of outstanding jobs and to the counter.
LEMMA CounterExact ==
  ASSUME IndInv, TypeOK', NothingLost', HandsDistinct',
         NEW w \in Workers, WorkerStep(w)
  PROVE  Accounting'
<1> DEFINE Live == (born \ ran) \cup Running
<1> USE DEF IndInv
<1>1. inFlight = Cardinality(Live) /\ IsFiniteSet(Live)
  BY OutstandingJobs, OutstandingFinite DEF Accounting
<1>2. Outstanding' = Live'
  BY DEF NothingLost, Outstanding
<1>3. CASE inFlight' = inFlight /\ Live' = Live
  BY <1>1, <1>2, <1>3 DEF Accounting
<1>4. CASE PopLocal(w) \/ StealInjector(w) \/ StealPeer(w)
  <2>1. inFlight' = inFlight /\ pc[w] \notin Working
    BY <1>4 DEF PopLocal, StealInjector, StealPeer, Working
  <2>2. PICK j \in InQueues : Start(w, j) /\ born' = born
    <3>1. CASE PopLocal(w)
      BY <3>1 DEF PopLocal, InQueues
    <3>2. CASE StealInjector(w)
      BY <3>2 DEF StealInjector, InQueues, Batches
    <3>3. CASE StealPeer(w)
      BY <3>3 DEF StealPeer, InQueues, Batches, HandsDistinct
    <3> QED
      BY <1>4, <3>1, <3>2, <3>3
  <2>3. Running' = Running \cup {j}
    BY <2>1, <2>2 DEF Start, Goto, Running, TypeOK, Working
  <2>4. Live' = Live
    BY <2>2, <2>3 DEF Start, NothingLost
  <2> QED
    BY <2>1, <2>4, <1>3
<1>5. CASE Bookkeeping(w)
  <2>1. Running' = Running
    BY <1>5, BookkeepingStep DEF Running, TypeOK
  <2> QED
    BY <1>5, <2>1, <1>3, BookkeepingStep
<1>6. CASE CountChild(w)
  <2>1. PICK j \in Jobs : j \notin born /\ born' = born \cup {j}
    BY <1>6 DEF CountChild, TypeOK
  <2>2. Running' = Running
    BY <1>6 DEF CountChild, Running, TypeOK, Working, Goto
  <2>3. Live' = Live \cup {j} /\ j \notin Live
    BY <1>6, <2>1, <2>2 DEF CountChild, HandsDistinct, Running
  <2>4. inFlight' = inFlight + 1
    BY <1>6 DEF CountChild, PushCount
  <2> QED
    BY <1>1, <1>2, <2>3, <2>4, FS_AddElement DEF Accounting
<1>7. CASE InjectChild(w) \/ Return(w) \/ Panic(w)
  <2>1. Running' = Running
    BY <1>7 DEF InjectChild, Return, Panic, Running, TypeOK, Working, Goto
  <2> QED
    BY <1>7, <2>1, <1>3 DEF InjectChild, Return, Panic
<1>8. CASE Complete(w)
  <2>1. Running' = Running \ {hand[w]}
    BY <1>8 DEF Complete, Running, TypeOK, Working, Goto, HandsDistinct
  <2>2. hand[w] \in Live /\ hand[w] \in ran
    BY <1>8 DEF Complete, Running, Working, HandsDistinct
  <2>3. Live' = Live \ {hand[w]}
    BY <1>8, <2>1, <2>2 DEF Complete
  <2>4. inFlight' = inFlight - 1
    BY <1>8 DEF Complete, CountDown
  <2> QED
    BY <1>1, <1>2, <2>2, <2>3, <2>4, FS_RemoveElement DEF Accounting
<1>9. CASE Release(w)
  <2>1. Running' = Running
    BY <1>9 DEF Release, Running, TypeOK, Working, Goto
  <2> QED
    BY <1>9, <2>1, <1>3 DEF Release
<1> QED
  BY <1>4, <1>5, <1>6, <1>7, <1>8, <1>9
  DEF WorkerStep, StealJob, Bookkeeping

-----------------------------------------------------------------------------
(* A worker leaves only when the work is done, and then no work comes back:
   only a running job pushes, and none runs. *)

LEMMA DoneIsStable ==
  ASSUME IndInv, NEW w \in Workers, WorkerStep(w), Outstanding = {}
  PROVE  /\ Bookkeeping(w) \/ Release(w)
         /\ Outstanding' = {}
         /\ UNCHANGED <<born, ran>>
<1> USE DEF IndInv, TypeOK, Outstanding
<1>1. pc[w] \notin Working
  <2>1. pc[w] \in Working => hand[w] \in Running
    BY DEF Running
  <2> QED
    BY <2>1
<1>2. Bookkeeping(w) \/ Release(w)
  <2>1. ~PopLocal(w)
    BY DEF PopLocal, InQueues
  <2>2. ~StealInjector(w)
    BY DEF StealInjector, InQueues, Batches
  <2>3. ~StealPeer(w)
    BY DEF StealPeer, InQueues, Batches, HandsDistinct
  <2>4. /\ ~CountChild(w) /\ ~InjectChild(w) /\ ~Return(w) /\ ~Panic(w)
        /\ ~Complete(w)
    BY <1>1 DEF CountChild, InjectChild, Return, Panic, Complete, Working
  <2> QED
    BY <2>1, <2>2, <2>3, <2>4 DEF WorkerStep, StealJob, Bookkeeping
<1>3. CASE Bookkeeping(w)
  BY <1>2, <1>3, BookkeepingStep DEF InQueues, Pushing, Running, Working
<1>4. CASE Release(w)
  BY <1>2, <1>4 DEF Release, Goto, InQueues, Pushing, Running, Working, queueVars
<1> QED
  BY <1>2, <1>3, <1>4

LEMMA ExitStep ==
  ASSUME IndInv, NEW w \in Workers, WorkerStep(w)
  PROVE  ExitMeansDone'
<1>1. CASE \E v \in Workers : pc[v] = "exited"
  BY <1>1, DoneIsStable DEF IndInv, ExitMeansDone
<1>2. CASE /\ ~\E v \in Workers : pc[v] = "exited"
           /\ Check(w) /\ MayLeave
  <2>1. Outstanding = {}
    BY <1>2, OutstandingJobs, OutstandingFinite, FS_EmptySet
    DEF IndInv, Accounting, MayLeave
  <2>2. born = ran
    BY <2>1, OutstandingJobs DEF IndInv, HandsDistinct
  <2> QED
    BY <1>2, <2>1, <2>2, DoneIsStable DEF ExitMeansDone
<1>3. CASE /\ ~\E v \in Workers : pc[v] = "exited"
           /\ ~(Check(w) /\ MayLeave)
  <2>1. ~\E v \in Workers : pc'[v] = "exited"
    BY <1>3 DEF IndInv, TypeOK, WorkerStep, StealJob, PopLocal, PopNothing,
      LoadInjector, StealInjector, RetryInjector, LoadPeer, StealPeer,
      RetryPeer, NoPeerLeft, Check, CountChild, InjectChild, Return, Panic,
      Complete, Release, Start, Goto
  <2> QED
    BY <2>1 DEF ExitMeansDone
<1> QED
  BY <1>1, <1>2, <1>3

LEMMA InvStep == IndInv /\ [Next]_vars => IndInv'
<1> SUFFICES ASSUME IndInv, [Next]_vars PROVE IndInv'
  OBVIOUS
<1>1. ASSUME UNCHANGED vars PROVE IndInv'
  BY <1>1 DEF vars, IndInv, TypeOK, Accounting, NothingLost, HandsDistinct,
    ExitMeansDone, Outstanding, InQueues, Pushing, Running
<1>2. ASSUME NEW w \in Workers, WorkerStep(w) PROVE IndInv'
  <2>1. TypeOK'
    BY TypeStep
  <2>2. NothingLost' /\ HandsDistinct'
    BY <1>2, JobsKept
  <2>3. Accounting'
    BY <1>2, <2>1, <2>2, CounterExact
  <2>4. ExitMeansDone'
    BY <1>2, ExitStep
  <2> QED
    BY <2>1, <2>2, <2>3, <2>4 DEF IndInv
<1> QED
  BY <1>1, <1>2 DEF Next, Joined

-----------------------------------------------------------------------------
(* The theorems. *)

THEOREM Invariant == Spec => []IndInv
<1> QED
  BY InitInv, InvStep, PTL DEF Spec

\* Every variable keeps its type; in particular in_flight never wraps.
THEOREM TypeCorrect == Spec => []TypeOK
BY Invariant, PTL DEF IndInv

\* in_flight is at every instant the number of jobs queued, being pushed or
\* being run.
THEOREM CounterCorrect == Spec => []Accounting
BY Invariant, PTL DEF IndInv

\* No steal loses a job or hands it to two workers.
THEOREM JobsNeverLost == Spec => []NothingLost
BY Invariant, PTL DEF IndInv

\* A worker that has left left nothing to do behind it.
THEOREM LeavesOnlyWhenDone == Spec => []ExitMeansDone
BY Invariant, PTL DEF IndInv

\* A run that ends with jobs not run is one whose workers all died.
THEOREM LeftoverOnlyIfAllDied == Spec => []LeftoverMeansAllDied
<1>1. IndInv => LeftoverMeansAllDied
  BY DEF IndInv, ExitMeansDone, LeftoverMeansAllDied, AllStopped, Stopped
<1> QED
  BY <1>1, Invariant, PTL

-----------------------------------------------------------------------------
(* The queue implements the abstract pool: pushing is Submit when the job
   reaches the injector, a steal is Take, the decrement is Finish, reading
   zero is Leave, and every other step is invisible. *)

LEMMA PoolInit == Init => Pool!Init
BY DEF Init, Pool!Init, InQueues, Working, Held, Gone, Dead

LEMMA PoolStep ==
  ASSUME IndInv, NEW w \in Workers, WorkerStep(w)
  PROVE  \/ Pool!Next
         \/ UNCHANGED <<InQueues, Held, Gone, Dead>>
<1> USE DEF IndInv, TypeOK, Goto, queueVars
<1>1. ASSUME PopLocal(w) \/ StealInjector(w) \/ StealPeer(w)
      PROVE  Pool!Take(w)
  <2>1. pc[w] \in {"local", "injectorCas", "peerCas"}
    BY <1>1 DEF PopLocal, StealInjector, StealPeer
  <2>2. PICK j \in InQueues : Start(w, j) /\ InQueues' = InQueues \ {j}
    <3>1. CASE PopLocal(w)
      BY <3>1 DEF PopLocal, InQueues, NothingLost
    <3>2. CASE StealInjector(w)
      BY <3>2 DEF StealInjector, InQueues, Batches, Rest, NothingLost
    <3>3. CASE StealPeer(w)
      BY <3>3 DEF StealPeer, InQueues, Batches, Rest, HandsDistinct, NothingLost
    <3> QED
      BY <1>1, <3>1, <3>2, <3>3
  <2>3. Held' = [Held EXCEPT ![w] = j]
    BY <2>1, <2>2 DEF Start, Held, Working
  <2>4. Gone' = Gone /\ Dead' = Dead /\ w \notin Gone \cup Dead
    BY <2>1, <2>2 DEF Start, Gone, Dead
  <2>5. Held[w] = NoJob
    BY <2>1 DEF Held, Working
  <2> QED
    BY <2>2, <2>3, <2>4, <2>5 DEF Pool!Take, Pool!Present, Held, Gone, Dead
<1>2. ASSUME InjectChild(w)
      PROVE  Pool!Submit(w)
  <2>1. /\ pc[w] = "pushing" /\ child[w] \in Jobs \ InQueues
        /\ child[w] \in born \ ran
    BY <1>2 DEF InjectChild, HandsDistinct, NothingLost, Pushing
  <2>2. InQueues' = InQueues \cup {child[w]}
    BY <1>2 DEF InjectChild, InQueues
  <2>3. Held' = Held /\ Gone' = Gone /\ Dead' = Dead
    BY <1>2 DEF InjectChild, Held, Gone, Dead, Working
  <2>4. \A v \in Workers : Held[v] # child[w]
    BY <2>1, JobsAssumption DEF Held, HandsDistinct
  <2>5. Held[w] # NoJob
    BY <2>1, JobsAssumption DEF Held, HandsDistinct, Working
  <2> QED
    BY <2>1, <2>2, <2>3, <2>4, <2>5 DEF Pool!Submit, Held, Gone, Dead
<1>3. ASSUME Complete(w)
      PROVE  Pool!Finish(w)
  <2>1. Held[w] # NoJob
    BY <1>3, JobsAssumption DEF Complete, Held, HandsDistinct, Working
  <2>2. Held' = [Held EXCEPT ![w] = NoJob]
    BY <1>3 DEF Complete, Held, Working
  <2>3. InQueues' = InQueues /\ Gone' = Gone
    BY <1>3 DEF Complete, InQueues, Gone
  <2>4. Dead' = Dead \/ Dead' = Dead \cup {w}
    BY <1>3 DEF Complete, Dead
  <2> QED
    BY <2>1, <2>2, <2>3, <2>4 DEF Pool!Finish, Held, Gone, Dead
<1>4. ASSUME Check(w), MayLeave
      PROVE  Pool!Leave(w)
  <2>1. Outstanding = {}
    BY <1>4, OutstandingJobs, OutstandingFinite, FS_EmptySet
    DEF Accounting, MayLeave
  <2>2. InQueues = {} /\ \A v \in Workers : pc[v] \notin Working
    <3>1. \A v \in Workers : pc[v] \in Working => hand[v] \in Running
      BY DEF Running
    <3> QED
      BY <2>1, <3>1 DEF Outstanding
  <2>3. \A v \in Workers : Held[v] = NoJob
    BY <2>2 DEF Held
  <2>4. InQueues' = InQueues /\ Dead' = Dead /\ Held' = Held
    BY <1>4 DEF Check, InQueues, Dead, Held, Working
  <2>5. Gone' = Gone \cup {w} /\ w \notin Gone \cup Dead
    BY <1>4 DEF Check, Gone, Dead
  <2> QED
    BY <2>2, <2>3, <2>4, <2>5 DEF Pool!Leave, Pool!Present, Held, Gone, Dead
<1>5. ASSUME Bookkeeping(w), ~(Check(w) /\ MayLeave)
      PROVE  UNCHANGED <<InQueues, Held, Gone, Dead>>
  <2>1. /\ pc[w] \notin {"exited", "unwind", "dead"}
        /\ pc'[w] \notin {"exited", "unwind", "dead"}
    BY <1>5 DEF Bookkeeping, PopNothing, LoadInjector, RetryInjector, LoadPeer,
      RetryPeer, NoPeerLeft, Check
  <2> QED
    BY <1>5, <2>1, BookkeepingStep DEF InQueues, Held, Gone, Dead
<1>6. ASSUME CountChild(w) \/ Return(w) \/ Panic(w) \/ Release(w)
      PROVE  UNCHANGED <<InQueues, Held, Gone, Dead>>
  BY <1>6 DEF CountChild, Return, Panic, Release, InQueues, Held, Gone, Dead, Working
<1> QED
  BY <1>1, <1>2, <1>3, <1>4, <1>5, <1>6
  DEF Pool!Next, WorkerStep, StealJob, Bookkeeping

\* Whatever the interleaving of its atomic steps, the queue behaves as the
\* pool of JobPool: no job is lost, taken twice or left behind by a worker
\* that leaves.
THEOREM QueueImplementsPool == Spec => ImplementsPool
<1>1. IndInv /\ [Next]_vars => [Pool!Next]_(Pool!vars)
  <2> SUFFICES ASSUME IndInv, [Next]_vars
               PROVE  Pool!Next \/ UNCHANGED Pool!vars
    OBVIOUS
  <2>1. ASSUME UNCHANGED vars PROVE UNCHANGED Pool!vars
    BY <2>1 DEF vars, Pool!vars, InQueues, Held, Gone, Dead
  <2>2. ASSUME NEW w \in Workers, WorkerStep(w)
        PROVE  Pool!Next \/ UNCHANGED Pool!vars
    BY <2>2, PoolStep DEF Pool!vars, Held, Gone, Dead
  <2> QED
    BY <2>1, <2>2 DEF Next, Joined
<1> QED
  BY <1>1, PoolInit, Invariant, PTL DEF Spec, ImplementsPool, Pool!Spec
=============================================================================
