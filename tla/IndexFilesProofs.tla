-------------------------- MODULE IndexFilesProofs --------------------------
(***************************************************************************)
(* Proofs about IndexFiles, for any number of workers and any finite set   *)
(* of files: index_files returns normally only with every file merged or   *)
(* reported, once, and never when a worker panicked.  They rest on the     *)
(* theorems about the job queue.                                           *)
(***************************************************************************)
EXTENDS IndexFiles, JobQueueProofs

\* The files whose result was sent.
Sent == Elements(channel) \cup Elements(merged) \cup errors

Panicking == {"panicked", "unwind", "dead"}

IndexTypeOK ==
    /\ channel \in Seq(Jobs)
    /\ merged \in Seq(Jobs)
    /\ errors \in SUBSET Jobs
    /\ caller \in {"merging", "joining", "done", "panicked"}
    /\ joined \in 0..NWorkers

\* A result is in one place, and is that of a job that ran and is not running.
SentOnce ==
    /\ \A i, k \in DOMAIN channel : channel[i] = channel[k] => i = k
    /\ \A i, k \in DOMAIN merged : merged[i] = merged[k] => i = k
    /\ Elements(channel) \cap Elements(merged) = {}
    /\ (Elements(channel) \cup Elements(merged)) \cap Unreadable = {}
    /\ errors \subseteq Unreadable
    /\ Sent \subseteq ran
    /\ \A w \in Workers : pc[w] = "run" => hand[w] \notin Sent

\* Unless a worker panicked, what ran and was not sent is still running.
NoneDropped ==
    (\A w \in Workers : pc[w] \notin Panicking) =>
        \A j \in ran \ Sent : \E w \in Workers : pc[w] = "run" /\ hand[w] = j

\* The loop is left when nothing can be sent any more; every worker joined has
\* exited.
CallerInv ==
    /\ born = Initial
    /\ \A w \in Workers : hand[w] = NoJob => pc[w] \notin Working
    /\ caller # "merging" => Closed /\ channel = <<>>
    /\ \A w \in 1..joined : pc[w] = "exited"
    /\ caller = "done" => joined = NWorkers

IndexInv == IndexTypeOK /\ SentOnce /\ NoneDropped /\ CallerInv

-----------------------------------------------------------------------------

LEMMA IndexStepOfQueue == IndexInit => Init
BY DEF IndexInit

LEMMA QueueStep == [IndexNext]_allVars => [Next]_vars
BY DEF IndexNext, allVars, vars, CallerStep, Merge, StopMerging, Join, Finish, Over,
       Indexer, SendResult, Next, WorkerStep, indexVars

\* The pipeline runs the job queue: what is proved of the queue holds in it.
LEMMA QueueInvariant == IndexSpec => []IndInv
<1>1. IndexSpec => Spec
  BY IndexStepOfQueue, QueueStep, PTL DEF IndexSpec, Spec
<1> QED
  BY <1>1, Invariant

-----------------------------------------------------------------------------

LEMMA IndexInitInv == IndexInit => IndexInv
<1> SUFFICES ASSUME IndexInit PROVE IndexInv
  OBVIOUS
<1> USE DEF IndexInit, Init, Elements
<1>1. Sent = {}
  BY DEF Sent
<1>2. IndexTypeOK
  BY SizesAssumption DEF IndexTypeOK
<1>3. SentOnce
  BY <1>1 DEF SentOnce
<1>4. NoneDropped
  BY DEF NoneDropped
<1>5. CallerInv
  BY DEF CallerInv, Working
<1> QED
  BY <1>2, <1>3, <1>4, <1>5 DEF IndexInv

\* What appending to the channel and taking from it do to its elements.
LEMMA ElementsOfAppend ==
  ASSUME NEW s \in Seq(Jobs), NEW j \in Jobs
  PROVE  /\ Append(s, j) \in Seq(Jobs)
         /\ Elements(Append(s, j)) = Elements(s) \cup {j}
<1> DEFINE t == Append(s, j)
<1>1. t \in Seq(Jobs) /\ DOMAIN s = 1..Len(s) /\ DOMAIN t = 1..(Len(s) + 1) /\ Len(s) \in Nat
  OBVIOUS
<1>2. t[Len(s) + 1] = j /\ \A i \in 1..Len(s) : t[i] = s[i]
  OBVIOUS
<1>3. \A i \in DOMAIN t : i \in DOMAIN s \/ i = Len(s) + 1
  BY <1>1
<1>4. \A i \in DOMAIN s : i \in DOMAIN t
  BY <1>1
<1>5. Len(s) + 1 \in DOMAIN t
  BY <1>1
<1> HIDE DEF t
<1>6. Elements(t) = Elements(s) \cup {j}
  BY <1>1, <1>2, <1>3, <1>4, <1>5, Zenon DEF Elements
<1> QED
  BY <1>1, <1>6 DEF t

LEMMA NoneTwiceInAppend ==
  ASSUME NEW s \in Seq(Jobs), NEW j \in Jobs, j \notin Elements(s),
         \A i, k \in DOMAIN s : s[i] = s[k] => i = k
  PROVE  LET t == Append(s, j) IN \A i, k \in DOMAIN t : t[i] = t[k] => i = k
<1> DEFINE t == Append(s, j)
<1>1. DOMAIN s = 1..Len(s) /\ DOMAIN t = 1..(Len(s) + 1) /\ Len(s) \in Nat
  OBVIOUS
<1>2. t[Len(s) + 1] = j /\ \A i \in 1..Len(s) : t[i] = s[i]
  OBVIOUS
<1>3. \A i \in DOMAIN s : s[i] # j
  BY DEF Elements
<1> HIDE DEF t
<1>4. \A i, k \in DOMAIN t : t[i] = t[k] => i = k
  BY <1>1, <1>2, <1>3
<1> QED
  BY <1>4 DEF t

LEMMA ElementsOfTail ==
  ASSUME NEW s \in Seq(Jobs), s # <<>>
  PROVE  /\ Head(s) \in Jobs /\ Tail(s) \in Seq(Jobs)
         /\ Elements(s) = {Head(s)} \cup Elements(Tail(s))
<1>1. Head(s) = s[1] /\ Len(s) \in Nat \ {0} /\ DOMAIN s = 1..Len(s)
  OBVIOUS
<1>2. DOMAIN Tail(s) = 1..(Len(s) - 1) /\ \A i \in 1..(Len(s) - 1) : Tail(s)[i] = s[i + 1]
  OBVIOUS
<1>3. ASSUME NEW i \in DOMAIN s PROVE i = 1 \/ (i - 1 \in DOMAIN Tail(s) /\ s[i] = Tail(s)[i - 1])
  BY <1>1, <1>2
<1>4. \A i \in DOMAIN Tail(s) : i + 1 \in DOMAIN s /\ Tail(s)[i] = s[i + 1]
  BY <1>1, <1>2
<1>5. 1 \in DOMAIN s
  BY <1>1
<1>6. \A y : y \in Elements(s) <=> (y = Head(s) \/ y \in Elements(Tail(s)))
  <2>1. ASSUME NEW y, y \in Elements(s)
        PROVE  y = Head(s) \/ y \in Elements(Tail(s))
    BY <2>1, <1>1, <1>3 DEF Elements
  <2>2. ASSUME NEW y, y = Head(s) \/ y \in Elements(Tail(s))
        PROVE  y \in Elements(s)
    BY <2>2, <1>1, <1>4, <1>5 DEF Elements
  <2> QED
    BY <2>1, <2>2
<1>7. Head(s) \in Jobs /\ Tail(s) \in Seq(Jobs)
  OBVIOUS
<1> QED
  BY <1>6, <1>7

LEMMA NoneTwiceInTail ==
  ASSUME NEW s \in Seq(Jobs), s # <<>>,
         \A i, k \in DOMAIN s : s[i] = s[k] => i = k
  PROVE  /\ \A i, k \in DOMAIN Tail(s) : Tail(s)[i] = Tail(s)[k] => i = k
         /\ Head(s) \notin Elements(Tail(s))
<1>1. Head(s) = s[1] /\ Len(s) \in Nat \ {0} /\ DOMAIN s = 1..Len(s)
  OBVIOUS
<1>2. DOMAIN Tail(s) = 1..(Len(s) - 1) /\ \A i \in 1..(Len(s) - 1) : Tail(s)[i] = s[i + 1]
  OBVIOUS
<1>3. \A i, k \in DOMAIN Tail(s) : Tail(s)[i] = Tail(s)[k] => i = k
  BY <1>1, <1>2
<1>4. \A i \in DOMAIN Tail(s) : Tail(s)[i] # Head(s)
  BY <1>1, <1>2
<1> QED
  BY <1>3, <1>4 DEF Elements

-----------------------------------------------------------------------------
(* The steps of a worker. *)

\* A worker whose box is gone runs nothing.
LEMMA NothingAfterClose ==
  ASSUME IndInv, IndexInv, Closed, NEW w \in Workers, Indexer(w)
  PROVE  Closed' /\ UNCHANGED indexVars
<1> USE DEF IndInv, IndexInv, Closed, TypeOK, HandsDistinct, NothingLost
<1>1. ~ AllStopped
  BY DEF AllStopped, Stopped, Indexer, SendResult, StealJob, PopLocal, PopNothing,
    LoadInjector, StealInjector, RetryInjector, LoadPeer, StealPeer, RetryPeer,
    NoPeerLeft, Check, Return, Panic, Complete, Release
<1>2. injector = {} /\ \A v \in Workers : hand[v] = NoJob /\ local[v] = {}
  BY <1>1
<1>3. pc[w] \notin Working
  BY <1>2, JobsAssumption
<1>4. ~ SendResult(w) /\ ~ Panic(w) /\ ~ Complete(w)
  BY <1>3 DEF SendResult, Return, Panic, Complete, Working
<1>5. ~ PopLocal(w) /\ ~ StealInjector(w) /\ ~ StealPeer(w)
  BY <1>2 DEF PopLocal, StealInjector, StealPeer, Batches
<1>6. CASE Bookkeeping(w)
  BY <1>2, <1>4, <1>6, BookkeepingStep DEF Indexer
<1>7. CASE Release(w)
  BY <1>2, <1>4, <1>7 DEF Indexer, Release, queueVars
<1> QED
  BY <1>4, <1>5, <1>6, <1>7 DEF Indexer, StealJob, Bookkeeping

\* A steal hands a worker a job that did not run yet.
LEMMA StealStarts ==
  ASSUME IndInv, NEW w \in Workers, StealJob(w), ~ Bookkeeping(w)
  PROVE  \E j \in Jobs \ ran : Start(w, j) /\ pc[w] \notin Working /\ UNCHANGED born
<1> USE DEF IndInv, TypeOK, NothingLost, InQueues
<1>1. CASE PopLocal(w)
  BY <1>1 DEF PopLocal, Working
<1>2. CASE StealInjector(w)
  BY <1>2 DEF StealInjector, Batches, Working
<1>3. CASE StealPeer(w)
  BY <1>3 DEF StealPeer, Batches, HandsDistinct, Working
<1> QED
  BY <1>1, <1>2, <1>3 DEF StealJob, Bookkeeping

LEMMA WorkerKeepsResults ==
  ASSUME IndInv, IndexInv, NEW w \in Workers, Indexer(w)
  PROVE  IndexTypeOK' /\ SentOnce' /\ NoneDropped'
<1> USE DEF IndInv, TypeOK, HandsDistinct, IndexInv
<1>1. CASE SendResult(w)
  <2>1. /\ pc[w] = "run" /\ pc' = [pc EXCEPT ![w] = "ran"]
        /\ hand[w] \in ran /\ hand[w] \notin Sent
        /\ UNCHANGED <<hand, ran, merged, caller, joined>>
    BY <1>1 DEF SendResult, Return, Goto, Working, SentOnce, callerVars
  <2>2. CASE hand[w] \in Unreadable
    <3>1. errors' = errors \cup {hand[w]} /\ channel' = channel
      BY <1>1, <2>2 DEF SendResult
    <3>2. Sent' = Sent \cup {hand[w]}
      BY <2>1, <3>1 DEF Sent, Elements
    <3>3. IndexTypeOK'
      BY <2>1, <3>1 DEF IndexTypeOK
    <3>4. Elements(channel)' = Elements(channel) /\ Elements(merged)' = Elements(merged)
      BY <2>1, <3>1 DEF Elements
    <3>5. \A v \in Workers : pc'[v] = "run" => pc[v] = "run" /\ v # w /\ hand'[v] # hand[w]
      BY <2>1 DEF Working
    <3>6. SentOnce'
      BY <2>1, <2>2, <3>1, <3>2, <3>4, <3>5 DEF SentOnce
    <3>7. NoneDropped'
      BY <2>1, <3>2 DEF NoneDropped, Panicking
    <3> QED
      BY <3>3, <3>6, <3>7
  <2>3. CASE hand[w] \notin Unreadable
    <3>1. channel' = Append(channel, hand[w]) /\ errors' = errors
      BY <1>1, <2>3 DEF SendResult
    <3>2. /\ channel' \in Seq(Jobs)
          /\ Elements(channel)' = Elements(channel) \cup {hand[w]}
          /\ Elements(merged)' = Elements(merged)
      <4>1. channel \in Seq(Jobs) /\ hand[w] \in Jobs
        BY <2>1 DEF IndexTypeOK
      <4>2. /\ Append(channel, hand[w]) \in Seq(Jobs)
            /\ Elements(Append(channel, hand[w])) = Elements(channel) \cup {hand[w]}
        BY <4>1, ElementsOfAppend
      <4>3. Elements(channel)' = Elements(Append(channel, hand[w]))
        BY <3>1 DEF Elements
      <4>4. Elements(merged)' = Elements(merged)
        BY <2>1 DEF Elements
      <4> QED
        BY <3>1, <4>2, <4>3, <4>4
    <3>3. Sent' = Sent \cup {hand[w]}
      BY <2>1, <3>1, <3>2 DEF Sent
    <3>4. IndexTypeOK'
      BY <2>1, <3>1, <3>2 DEF IndexTypeOK
    <3>5. \A v \in Workers : pc'[v] = "run" => pc[v] = "run" /\ v # w /\ hand'[v] # hand[w]
      BY <2>1 DEF Working
    <3>6. \A i, k \in DOMAIN channel' : channel'[i] = channel'[k] => i = k
      <4>1. hand[w] \notin Elements(channel)
        BY <2>1 DEF Sent
      <4>2. channel \in Seq(Jobs) /\ hand[w] \in Jobs
        BY <2>1 DEF IndexTypeOK
      <4> QED
        BY <3>1, <4>1, <4>2, NoneTwiceInAppend DEF SentOnce
    <3>7. SentOnce'
      <4>1. hand[w] \notin Elements(merged) /\ hand[w] \notin Elements(channel)
        BY <2>1 DEF Sent
      <4>2. \A v \in Workers : pc'[v] = "run" => hand'[v] \notin Sent'
        BY <2>1, <3>3, <3>5 DEF SentOnce
      <4>3. \A i, k \in DOMAIN merged' : merged'[i] = merged'[k] => i = k
        BY <2>1 DEF SentOnce
      <4>4. /\ (Elements(channel) \cap Elements(merged))' = {}
            /\ ((Elements(channel) \cup Elements(merged)) \cap Unreadable)' = {}
            /\ errors' \subseteq Unreadable
            /\ Sent' \subseteq ran'
        BY <2>1, <2>3, <3>1, <3>2, <3>3, <4>1 DEF SentOnce
      <4> QED
        BY <3>6, <4>2, <4>3, <4>4 DEF SentOnce
    <3>8. NoneDropped'
      BY <2>1, <3>3 DEF NoneDropped, Panicking
    <3> QED
      BY <3>4, <3>7, <3>8
  <2> QED
    BY <2>2, <2>3
<1>2. ASSUME UNCHANGED indexVars
      PROVE  UNCHANGED <<Sent, Elements(channel), Elements(merged)>> /\ IndexTypeOK'
  BY <1>2 DEF indexVars, Sent, Elements, IndexTypeOK
<1>3. ASSUME UNCHANGED indexVars, ran \subseteq ran',
             \A v \in Workers : pc'[v] = "run" => hand'[v] \notin Sent
      PROVE  SentOnce'
  BY <1>3, <1>2 DEF SentOnce, indexVars
<1>4. CASE UNCHANGED indexVars /\ StealJob(w) /\ ~ Bookkeeping(w)
  <2>1. PICK j \in Jobs \ ran : Start(w, j) /\ pc[w] \notin Working
    BY <1>4, StealStarts
  <2>2. SentOnce'
    BY <1>3, <1>4, <2>1 DEF Start, Goto, SentOnce
  <2>3. NoneDropped'
    <3>1. pc[w] # "run" /\ pc' = [pc EXCEPT ![w] = "run"] /\ ran' = ran \cup {j}
      BY <2>1 DEF Start, Goto, Working
    <3>2. hand'[w] = j /\ \A v \in Workers \ {w} : hand'[v] = hand[v]
      BY <2>1 DEF Start
    <3>3. SUFFICES ASSUME \A v \in Workers : pc'[v] \notin Panicking,
                          NEW k \in ran \ Sent, k # j
                   PROVE  \E v \in Workers : pc'[v] = "run" /\ hand'[v] = k
      BY <1>2, <1>4, <3>1, <3>2 DEF NoneDropped
    <3>4. CASE \A v \in Workers : pc[v] \notin Panicking
      BY <3>1, <3>2, <3>4 DEF NoneDropped
    <3>5. CASE \E v \in Workers : pc[v] \in Panicking
      BY <1>4, <3>1, <3>3, <3>5 DEF StealJob, PopLocal, StealInjector, StealPeer, Bookkeeping,
        Panicking
    <3> QED
      BY <3>4, <3>5
  <2> QED
    BY <1>2, <1>4, <2>2, <2>3
<1>5. CASE UNCHANGED indexVars /\ Bookkeeping(w)
  <2>1. /\ UNCHANGED <<hand, ran>> /\ pc' = [pc EXCEPT ![w] = pc'[w]]
        /\ pc[w] \notin Working \cup {"unwind", "dead"} /\ pc'[w] \notin Working
    BY <1>5, BookkeepingStep DEF Bookkeeping, PopNothing, LoadInjector, RetryInjector,
      LoadPeer, RetryPeer, NoPeerLeft, Check
  <2>2. SentOnce'
    BY <1>3, <1>5, <2>1 DEF SentOnce, Working
  <2>3. NoneDropped'
    BY <1>2, <1>5, <2>1 DEF NoneDropped, Panicking, Working
  <2> QED
    BY <1>2, <1>5, <2>2, <2>3
<1>6. CASE UNCHANGED indexVars /\ (Panic(w) \/ Complete(w) \/ Release(w))
  <2>1. /\ ran' = ran /\ pc' = [pc EXCEPT ![w] = pc'[w]] /\ pc'[w] # "run"
        /\ \A v \in Workers \ {w} : hand'[v] = hand[v]
        /\ pc[w] = "run" => pc'[w] \in Panicking
        /\ pc[w] \in Panicking => pc'[w] \in Panicking
    BY <1>6 DEF Panic, Complete, Release, Goto, Panicking
  <2>2. SentOnce'
    BY <1>3, <1>6, <2>1 DEF SentOnce
  <2>3. NoneDropped'
    BY <1>2, <1>6, <2>1 DEF NoneDropped
  <2> QED
    BY <1>2, <1>6, <2>2, <2>3
<1> QED
  BY <1>1, <1>4, <1>5, <1>6 DEF Indexer, StealJob, Bookkeeping

LEMMA WorkerKeepsCaller ==
  ASSUME IndInv, IndexInv, NEW w \in Workers, Indexer(w)
  PROVE  CallerInv'
<1> USE DEF IndInv, TypeOK, IndexInv, CallerInv
<1>1. born' = born
  BY DEF Indexer, SendResult, StealJob, PopLocal, PopNothing, LoadInjector, StealInjector,
    RetryInjector, LoadPeer, StealPeer, RetryPeer, NoPeerLeft, Check, Return, Panic,
    Complete, Release
<1>2. UNCHANGED <<merged, caller, joined>>
  BY DEF Indexer, SendResult, callerVars, indexVars
<1>3. pc[w] # "exited" /\ pc' = [pc EXCEPT ![w] = pc'[w]]
  BY DEF Indexer, SendResult, StealJob, PopLocal, PopNothing, LoadInjector, StealInjector,
    RetryInjector, LoadPeer, StealPeer, RetryPeer, NoPeerLeft, Check, Return, Panic,
    Complete, Release, Start, Goto
<1>4. \A v \in Workers : hand'[v] = NoJob => pc'[v] \notin Working
  <2>1. ASSUME NEW v \in Workers, pc'[v] \in Working PROVE hand'[v] # NoJob
    <3>1. IndInv /\ [Next]_vars
      BY DEF Indexer, SendResult, Next, WorkerStep
    <3>2. IndInv'
      BY <3>1, InvStep
    <3> QED
      BY <2>1, <3>2, JobsAssumption DEF HandsDistinct
  <2> QED
    BY <2>1
<1>5. caller' # "merging" => Closed' /\ channel' = <<>>
  BY <1>2, NothingAfterClose DEF indexVars
<1>6. joined \in 0..NWorkers /\ \A v \in 1..joined : v \in Workers /\ v # w
  BY <1>3, SizesAssumption DEF IndexTypeOK, Workers
<1>7. (\A v \in 1..joined : pc[v] = "exited")'
  BY <1>2, <1>3, <1>6
<1>8. (caller = "done" => joined = NWorkers)' /\ (born = Initial)'
  BY <1>1, <1>2
<1> QED
  BY <1>4, <1>5, <1>7, <1>8 DEF CallerInv

-----------------------------------------------------------------------------
(* The steps of the calling thread. *)

LEMMA MergeKeepsInv ==
  ASSUME IndexInv, Merge
  PROVE  IndexInv'
<1> USE DEF IndexInv, Merge
<1>1. /\ channel \in Seq(Jobs) /\ merged \in Seq(Jobs)
      /\ Head(channel) \in Jobs /\ Tail(channel) \in Seq(Jobs)
      /\ Elements(channel) = {Head(channel)} \cup Elements(Tail(channel))
  BY ElementsOfTail DEF IndexTypeOK
<1>2. /\ Append(merged, Head(channel)) \in Seq(Jobs)
      /\ Elements(Append(merged, Head(channel))) = Elements(merged) \cup {Head(channel)}
  BY <1>1, ElementsOfAppend
<1>3. /\ Elements(channel)' = Elements(Tail(channel))
      /\ Elements(merged)' = Elements(merged) \cup {Head(channel)}
  BY <1>2 DEF Elements
<1>4. Sent' = Sent
  BY <1>1, <1>3 DEF Sent
<1>5. IndexTypeOK'
  BY <1>1, <1>2 DEF IndexTypeOK
<1>6. Head(channel) \notin Elements(merged)
  BY <1>1 DEF SentOnce
<1>7. \A i, k \in DOMAIN merged' : merged'[i] = merged'[k] => i = k
  BY <1>1, <1>6, NoneTwiceInAppend DEF SentOnce
<1>8. /\ \A i, k \in DOMAIN Tail(channel) : Tail(channel)[i] = Tail(channel)[k] => i = k
      /\ Head(channel) \notin Elements(Tail(channel))
  BY <1>1, NoneTwiceInTail DEF SentOnce
<1>9. SentOnce'
  BY <1>1, <1>3, <1>4, <1>7, <1>8 DEF SentOnce, vars
<1>10. NoneDropped'
  BY <1>4 DEF NoneDropped, vars
<1>11. CallerInv'
  BY DEF CallerInv, vars
<1> QED
  BY <1>5, <1>9, <1>10, <1>11

LEMMA CallerKeepsInv ==
  ASSUME IndInv, IndexInv, StopMerging \/ Join \/ Finish \/ UNCHANGED allVars
  PROVE  IndexInv'
<1> USE DEF IndexInv, StopMerging, Join, Finish, allVars, indexVars, vars
<1>1. UNCHANGED <<vars, channel, errors, merged>>
  OBVIOUS
<1>2. /\ SentOnce' /\ NoneDropped'
      /\ Closed' = Closed
  BY <1>1 DEF SentOnce, NoneDropped, Sent, Elements, Closed, AllStopped
<1>3. IndexTypeOK'
  BY <1>1, SizesAssumption DEF IndexTypeOK
<1>4. CASE StopMerging
  BY <1>1, <1>2, <1>3, <1>4 DEF CallerInv
<1>5. CASE Join
  <2>1. joined \in 0..NWorkers /\ joined < NWorkers /\ joined + 1 \in Workers
    BY <1>5, SizesAssumption DEF IndexTypeOK, Workers
  <2>2. ~ JoinFails(joined + 1) => pc[joined + 1] = "exited"
    BY <1>5 DEF JoinFails, Stopped
  <2>3. (\A w \in 1..joined : pc[w] = "exited")'
    BY <1>1, <1>5, <2>1, <2>2, SizesAssumption DEF CallerInv
  <2> QED
    BY <1>1, <1>2, <1>3, <1>5, <2>3 DEF CallerInv
<1>6. CASE Finish
  BY <1>1, <1>2, <1>3, <1>6 DEF CallerInv
<1>7. CASE UNCHANGED allVars
  BY <1>1, <1>2, <1>3, <1>7 DEF CallerInv
<1> QED
  BY <1>2, <1>3, <1>4, <1>5, <1>6, <1>7

LEMMA IndexInvStep == IndInv /\ IndexInv /\ [IndexNext]_allVars => IndexInv'
<1> SUFFICES ASSUME IndInv, IndexInv, [IndexNext]_allVars PROVE IndexInv'
  OBVIOUS
<1>1. CASE Merge
  BY <1>1, MergeKeepsInv
<1>2. CASE StopMerging \/ Join \/ Finish \/ UNCHANGED allVars
  BY <1>2, CallerKeepsInv
<1>3. ASSUME NEW w \in Workers, Indexer(w) PROVE IndexInv'
  BY <1>3, WorkerKeepsResults, WorkerKeepsCaller DEF IndexInv
<1> QED
  BY <1>1, <1>2, <1>3 DEF IndexNext, CallerStep, Over

-----------------------------------------------------------------------------
(* The theorems. *)

THEOREM IndexInvariant == IndexSpec => [](IndInv /\ IndexInv)
<1> QED
  BY QueueInvariant, IndexInitInv, IndexInvStep, PTL DEF IndexSpec

LEMMA AllExited ==
  ASSUME IndexInv, caller = "done"
  PROVE  \A w \in Workers : pc[w] = "exited"
BY DEF IndexInv, CallerInv, Workers

\* index_files cannot return normally when a job panicked: the handle of the
\* worker that ran it is joined, whatever else happened in between.
THEOREM PanicNeverSwallowed == IndexSpec => []PanicSurfaces
<1>1. IndInv /\ IndexInv => PanicSurfaces
  BY AllExited DEF PanicSurfaces
<1> QED
  BY <1>1, IndexInvariant, PTL

LEMMA DoneReturnsEverything ==
  ASSUME IndInv, IndexInv
  PROVE  ReturnsEverything
<1> SUFFICES ASSUME caller = "done"
             PROVE  /\ Elements(merged) \cup errors = Initial
                    /\ Elements(merged) \cap errors = {}
                    /\ \A i, k \in DOMAIN merged : merged[i] = merged[k] => i = k
                    /\ channel = <<>>
  BY DEF ReturnsEverything
<1>1. \A w \in Workers : pc[w] = "exited"
  BY AllExited
<1>2. born = ran /\ born = Initial
  BY <1>1, SizesAssumption DEF IndInv, ExitMeansDone, IndexInv, CallerInv, Workers
<1>3. channel = <<>>
  BY DEF IndexInv, CallerInv
<1>4. Sent = Elements(merged) \cup errors
  BY <1>3 DEF Sent, Elements
<1>5. Sent = ran
  BY <1>1 DEF IndexInv, SentOnce, NoneDropped, Panicking
<1> QED
  BY <1>2, <1>3, <1>4, <1>5 DEF IndexInv, SentOnce

\* When index_files returns normally every file it was given was merged once
\* or is among the errors, however the workers shared the files between them.
THEOREM EveryFileReturned == IndexSpec => []ReturnsEverything
BY DoneReturnsEverything, IndexInvariant, PTL
=============================================================================
