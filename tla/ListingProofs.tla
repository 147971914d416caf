---------------------------- MODULE ListingProofs ----------------------------
(***************************************************************************)
(* Proofs about Listing, for every file system that FileSystemAssumption   *)
(* describes, any number of workers and any choice of paths: a listing     *)
(* that is returned is complete, and an excluded directory is entered      *)
(* through links only.                                                     *)
(***************************************************************************)
EXTENDS Listing, JobQueueProofs

-----------------------------------------------------------------------------
(* The file system: what a walk reaches, and what lies in a directory *)

LEMMA ExcludedPlaces == Excluded = OffLimits \ {Missing}
BY DEF Excluded, OffLimits

LEMMA CanonicalPlaces ==
  \A p \in Paths \cup {Missing} : Canonical(p) \in Paths \cup {Missing}
BY FileSystemAssumption DEF Canonical

LEMMA FirstPlace ==
  ASSUME NEW p
  PROVE  <<p>> # <<>> /\ 1 \in DOMAIN <<p>> /\ <<p>>[1] = p /\ Place(<<p>>) = p
BY DEF Place

\* What one job pushes is a part of what the walk visits next.
LEMMA PushedVisited ==
  ASSUME NEW S \in SUBSET Paths, NEW p \in S
  PROVE  /\ Pushed(p) \subseteq Visit(S)
         /\ Pushed(p) \subseteq Paths \ Excluded
<1>1. Opened(p) \subseteq Paths
  BY FileSystemAssumption DEF Opened
<1>2. Opened(p) \subseteq UNION {Opened(d) : d \in S}
  OBVIOUS
<1>3. Missing \notin Directories
  BY FileSystemAssumption DEF Directories
<1>4. HandleSymlink(Opened(p)) \subseteq Paths \ Excluded
  BY <1>1, CanonicalPlaces DEF HandleSymlink
<1>5. HandleSymlink(Opened(p)) \subseteq Visit(S)
  BY <1>2, ExcludedPlaces DEF HandleSymlink, Visit
<1>6. Opened(p) \cap (Directories \ Excluded) \subseteq Visit(S)
  BY <1>2, <1>3, ExcludedPlaces DEF Visit
<1> QED
  BY <1>1, <1>4, <1>5, <1>6 DEF Pushed

\* The requested paths are to be visited, and what a visited directory leads to.
LEMMA ReachableClosed ==
  /\ Reachable \subseteq Paths
  /\ Roots \subseteq Reachable
  /\ \A p \in Reachable : Pushed(p) \subseteq Reachable
<1>1. Reachable \subseteq Paths
  BY DEF Reachable
<1>2. Roots \subseteq Paths
  BY FileSystemAssumption, CanonicalPlaces DEF Roots
<1>3. Roots \subseteq Reachable
  BY <1>2 DEF Reachable
<1>4. ASSUME NEW p \in Reachable, NEW q \in Pushed(p)
      PROVE  q \in Reachable
  <2>1. q \in Paths
    BY <1>1, <1>4, PushedVisited
  <2>2. ASSUME NEW S \in SUBSET Paths, Roots \cup Visit(S) \subseteq S
        PROVE  q \in S
    <3>1. p \in S
      BY <1>4, <2>2 DEF Reachable
    <3> QED
      BY <1>4, <2>2, <3>1, PushedVisited
  <2> QED
    BY <2>1, <2>2 DEF Reachable
<1> QED
  BY <1>1, <1>3, <1>4

\* Nothing else is to be visited.
LEMMA ReachableLeast ==
  ASSUME NEW S \in SUBSET Paths, Roots \subseteq S,
         \A p \in S : Pushed(p) \subseteq S
  PROVE  Reachable \subseteq S
<1>1. ASSUME NEW q \in Visit(S)
      PROVE  q \in S
  <2>1. PICK d \in S : \/ q \in Opened(d) \cap Directories
                       \/ \E l \in Opened(d) \cap Links : q = Canonical(l)
    BY <1>1 DEF Visit
  <2>2. q \notin OffLimits \cup {Missing}
    BY <1>1 DEF Visit
  <2>3. q \in Pushed(d)
    BY <2>1, <2>2, ExcludedPlaces DEF Pushed, HandleSymlink
  <2> QED
    BY <2>3
<1> QED
  BY <1>1 DEF Reachable

\* What lies below a directory is an entry of it or of a directory below it.
LEMMA BelowEntries ==
  ASSUME NEW d \in Directories, NEW p \in Below[d]
  PROVE  p \in Entries[d] \/ \E q \in Below[d] \cap Directories : p \in Entries[q]
<1> DEFINE Tree(S) == Entries[d] \cup UNION {Entries[q] : q \in S \cap Directories} \subseteq S
           T == Entries[d] \cup UNION {Entries[q] : q \in Below[d] \cap Directories}
<1>1. Below[d] = {r \in Paths : \A S \in SUBSET Paths : Tree(S) => r \in S}
  BY DEF Below
<1>2. T \in SUBSET Paths
  BY FileSystemAssumption
<1>3. T \subseteq Below[d]
  <2> SUFFICES ASSUME NEW r \in T, NEW S \in SUBSET Paths, Tree(S)
               PROVE  r \in S
    BY <1>1, <1>2
  <2>1. Below[d] \subseteq S
    BY <1>1
  <2> QED
    BY <2>1
<1>4. Tree(T)
  BY <1>3
<1>5. p \in T
  BY <1>1, <1>2, <1>4
<1> QED
  BY <1>5

\* The parent of what lies below an excluded directory is that directory or
\* lies below it too: a path has one parent.
LEMMA BelowParent ==
  ASSUME NEW d \in Directories, NEW q \in Paths, NEW p \in Opened(q), p \in Below[d]
  PROVE  q = d \/ q \in Below[d]
<1>1. q \in Directories /\ p \in Entries[q]
  BY DEF Opened
<1>2. \A e \in Directories : p \in Entries[e] => e = q
  BY <1>1, FileSystemAssumption
<1> QED
  BY <1>2, BelowEntries

-----------------------------------------------------------------------------
(* The invariant *)

\* How the walk came into directory d on the trail of a job: by a requested
\* path or by the target of a link.
EnteredFromTheSide(job, d) ==
    \E i \in DOMAIN job :
        /\ job[i] \in Below[d]
        /\ job[i] \in Requested \/ \E l \in Links : Target[l] = job[i]

\* A job is at a place the walk is to visit, and came there lawfully.
JobsVisit ==
    \A j \in born :
        /\ j \in Seq(Paths) /\ j # <<>>
        /\ Place(j) \in Reachable \ Excluded
        /\ \A d \in OffLimits \cap Directories :
             Place(j) \in Below[d] => EnteredFromTheSide(j, d)

\* What the channels hold was sent by a job about its place, or by the caller.
MessagesFromJobs ==
    /\ \A r \in sent : r.job \in ran /\ r.path \in HandleFile(Place(r.job))
    /\ \A r \in failed :
        \/ r.path \in Requested /\ Canonical(r.path) = Missing
        \/ r.job \in ran /\ r.path \in SendError(Place(r.job))

\* All that a job has to push and to send is pushed and sent.
Settled(j) ==
    /\ Spawns[j] \subseteq born
    /\ \A p \in HandleFile(Place(j)) : [job |-> j, path |-> p] \in sent
    /\ \A p \in SendError(Place(j)) : [job |-> j, path |-> p] \in failed

\* Unless a job panicked, one that was started is settled or being run.
JobsSettle ==
    /\ Initial \subseteq born
    /\ \A p \in Requested : Canonical(p) = Missing => [job |-> NoJob, path |-> p] \in failed
    /\ \A j \in ran :
        \/ Settled(j)
        \/ \E w \in Workers : pc[w] \in {"run", "pushing"} /\ hand[w] = j
        \/ \E w \in Workers : pc[w] \in {"panicked", "unwind", "dead"}

ListingInv == IndInv /\ JobsVisit /\ MessagesFromJobs /\ JobsSettle

LEMMA ListingInitInv == ListingInit => ListingInv
<1> SUFFICES ASSUME ListingInit PROVE ListingInv
  OBVIOUS
<1>1. IndInv
  BY InitInv DEF ListingInit
<1>2. JobsVisit
  <2> SUFFICES ASSUME NEW j \in born
               PROVE  /\ j \in Seq(Paths) /\ j # <<>>
                      /\ Place(j) \in Reachable \ Excluded
                      /\ \A d \in OffLimits \cap Directories :
                           Place(j) \in Below[d] => EnteredFromTheSide(j, d)
    BY DEF JobsVisit
  <2>1. PICK p \in Roots : j = <<p>>
    BY JobsAreTrails DEF ListingInit, Init
  <2>2. j # <<>> /\ 1 \in DOMAIN j /\ j[1] = p /\ Place(j) = p
    BY <2>1, FirstPlace
  <2>3. p \in Reachable /\ p \in Paths /\ p \notin Excluded
    BY ReachableClosed DEF Roots
  <2>4. p \in Requested \/ \E l \in Links : Target[l] = p
    BY DEF Roots, Canonical
  <2>5. j \in Seq(Paths)
    BY <2>1, <2>3
  <2>6. ASSUME NEW d \in OffLimits \cap Directories, p \in Below[d]
        PROVE  EnteredFromTheSide(j, d)
    BY <2>2, <2>4, <2>6 DEF EnteredFromTheSide
  <2> QED
    BY <2>2, <2>3, <2>5, <2>6
<1>3. MessagesFromJobs
  BY DEF ListingInit, MessagesFromJobs
<1>4. JobsSettle
  BY DEF ListingInit, Init, JobsSettle
<1> QED
  BY <1>1, <1>2, <1>3, <1>4 DEF ListingInv

\* The steps of a listing are steps of the queue.
LEMMA ListingSteps == [ListingNext]_<<vars, listingVars>> => [Next]_vars
BY DEF ListingNext, ListingOver, Joined, Discoverer, Report, ReportThenPanic, Next, WorkerStep

\* A job that runs was pushed.
LEMMA RunnerBorn ==
  ASSUME IndInv, NEW w \in Workers, pc[w] \in Working
  PROVE  hand[w] \in ran /\ hand[w] \in born /\ hand[w] \in Jobs
BY DEF IndInv, HandsDistinct, TypeOK

\* Only CountChild brings a job into the world; it is one of those the running
\* job has to push.
LEMMA BornStep ==
  ASSUME NEW w \in Workers, Discoverer(w)
  PROVE  \/ UNCHANGED born
         \/ /\ pc[w] = "run"
            /\ \E j \in Spawns[hand[w]] : born' = born \cup {j}
BY DEF Discoverer, Report, ReportThenPanic, Return, Panic, StealJob, PopLocal, PopNothing,
  LoadInjector, StealInjector, RetryInjector, LoadPeer, StealPeer, RetryPeer, NoPeerLeft,
  Check, CountChild, InjectChild, Complete, Release, Start

LEMMA VisitStep ==
  ASSUME IndInv, JobsVisit, NEW w \in Workers, Discoverer(w)
  PROVE  JobsVisit'
<1>1. CASE UNCHANGED born
  BY <1>1 DEF JobsVisit, EnteredFromTheSide
<1>2. CASE pc[w] = "run" /\ \E j \in Spawns[hand[w]] : born' = born \cup {j}
  <2> DEFINE parent == hand[w]
  <2>1. parent \in born /\ parent \in Jobs
    BY <1>2, RunnerBorn DEF Working
  <2>2. /\ parent \in Seq(Paths) /\ parent # <<>>
        /\ Place(parent) \in Reachable \ Excluded
    BY <2>1 DEF JobsVisit
  <2>3. PICK p \in Pushed(Place(parent)) : born' = born \cup {Append(parent, p)}
    BY <1>2, <2>1, JobsAreTrails DEF SpawnsOf
  <2>4. p \in Reachable \ Excluded /\ p \in Paths
    BY <2>2, ReachableClosed, PushedVisited
  <2> DEFINE j == Append(parent, p)
  <2>5. /\ j \in Seq(Paths) /\ j # <<>>
        /\ Len(j) \in DOMAIN j /\ j[Len(j)] = p
        /\ Place(j) = p
        /\ \A i \in DOMAIN parent : i \in DOMAIN j /\ j[i] = parent[i]
    BY <2>2, <2>4 DEF Place
  <2>6. ASSUME NEW d \in OffLimits \cap Directories, p \in Below[d]
        PROVE  EnteredFromTheSide(j, d)
    <3>1. CASE p \in Opened(Place(parent))
      <4>1. Place(parent) # d
        BY <2>2, FileSystemAssumption, ExcludedPlaces DEF Directories
      <4>2. Place(parent) \in Below[d]
        BY <2>2, <2>6, <3>1, <4>1, BelowParent, ReachableClosed
      <4>3. EnteredFromTheSide(parent, d)
        BY <2>1, <4>2 DEF JobsVisit
      <4> QED
        BY <2>5, <4>3 DEF EnteredFromTheSide
    <3>2. CASE \E l \in Links : p = Target[l]
      BY <2>5, <2>6, <3>2 DEF EnteredFromTheSide
    <3> QED
      BY <2>3, <3>1, <3>2 DEF Pushed, HandleSymlink, Canonical
  <2>7. ASSUME NEW k \in born'
        PROVE  /\ k \in Seq(Paths) /\ k # <<>>
               /\ Place(k) \in Reachable \ Excluded
               /\ \A d \in OffLimits \cap Directories :
                    Place(k) \in Below[d] => EnteredFromTheSide(k, d)
    <3>1. CASE k \in born
      BY <3>1 DEF JobsVisit
    <3>2. CASE k = j
      BY <2>4, <2>5, <2>6, <3>2
    <3> QED
      BY <2>3, <2>7, <3>1, <3>2
  <2> QED
    BY <2>7 DEF JobsVisit, EnteredFromTheSide
<1> QED
  BY <1>1, <1>2, BornStep

\* A job is run by a worker that starts it, and stays run.
LEMMA RanGrows ==
  ASSUME NEW w \in Workers, Discoverer(w)
  PROVE  ran \subseteq ran'
BY DEF Discoverer, Report, ReportThenPanic, Return, Panic, StealJob, PopLocal, PopNothing,
  LoadInjector, StealInjector, RetryInjector, LoadPeer, StealPeer, RetryPeer, NoPeerLeft,
  Check, CountChild, InjectChild, Complete, Release, Start

LEMMA MessagesStep ==
  ASSUME IndInv, MessagesFromJobs, NEW w \in Workers, Discoverer(w)
  PROVE  MessagesFromJobs'
<1>1. ran \subseteq ran'
  BY RanGrows
<1>2. CASE UNCHANGED listingVars
  BY <1>1, <1>2 DEF listingVars, MessagesFromJobs
<1>3. CASE Report(w)
  <2>1. hand[w] \in ran
    BY <1>3, RunnerBorn DEF Report, Return, Working
  <2>2. \A r \in sent' : \/ r \in sent
                         \/ r.job = hand[w] /\ r.path \in HandleFile(Place(hand[w]))
    BY <1>3 DEF Report
  <2>3. \A r \in failed' : \/ r \in failed
                           \/ r.job = hand[w] /\ r.path \in SendError(Place(hand[w]))
    BY <1>3 DEF Report
  <2> QED
    BY <1>1, <2>1, <2>2, <2>3 DEF MessagesFromJobs
<1>4. CASE ReportThenPanic(w)
  <2>1. hand[w] \in ran
    BY <1>4, RunnerBorn DEF ReportThenPanic, Panic, Working
  <2>2. \A r \in sent' : \/ r \in sent
                         \/ r.job = hand[w] /\ r.path \in HandleFile(Place(hand[w]))
    BY <1>4 DEF ReportThenPanic
  <2> QED
    BY <1>1, <1>4, <2>1, <2>2 DEF MessagesFromJobs, ReportThenPanic
<1> QED
  BY <1>2, <1>3, <1>4 DEF Discoverer

\* The channels and the set of jobs ever pushed only grow.
LEMMA NothingTakenBack ==
  ASSUME NEW w \in Workers, Discoverer(w)
  PROVE  born \subseteq born' /\ sent \subseteq sent' /\ failed \subseteq failed'
<1>1. born \subseteq born'
  BY BornStep
<1>2. sent \subseteq sent' /\ failed \subseteq failed'
  BY DEF Discoverer, Report, ReportThenPanic, listingVars
<1> QED
  BY <1>1, <1>2

\* A step concerns one worker.
LEMMA OthersUnmoved ==
  ASSUME IndInv, NEW w \in Workers, Discoverer(w)
  PROVE  \A v \in Workers \ {w} : pc'[v] = pc[v] /\ hand'[v] = hand[v]
<1> USE DEF IndInv, TypeOK, Goto, Start
<1>1. CASE Report(w) \/ ReportThenPanic(w)
  BY <1>1 DEF Report, ReportThenPanic, Return, Panic
<1>2. CASE StealJob(w)
  BY <1>2 DEF StealJob, PopLocal, PopNothing, LoadInjector, StealInjector, RetryInjector,
    LoadPeer, StealPeer, RetryPeer, NoPeerLeft
<1>3. CASE Check(w) \/ CountChild(w) \/ InjectChild(w) \/ Complete(w) \/ Release(w)
  BY <1>3 DEF Check, CountChild, InjectChild, Complete, Release
<1> QED
  BY <1>1, <1>2, <1>3 DEF Discoverer

\* Where the worker that takes a step stands afterwards: the job it was running
\* is still in its hands, settled, or lost to a panic; a job it starts is in
\* its hands.
LEMMA RunnerStep ==
  ASSUME IndInv, NEW w \in Workers, Discoverer(w)
  PROVE  /\ pc[w] \in {"run", "pushing"} =>
              \/ pc'[w] \in {"run", "pushing"} /\ hand'[w] = hand[w]
              \/ Report(w)
              \/ pc'[w] = "panicked"
         /\ pc[w] \in {"panicked", "unwind", "dead"} =>
              pc'[w] \in {"panicked", "unwind", "dead"}
         /\ \/ ran' = ran
            \/ pc'[w] = "run" /\ ran' = ran \cup {hand'[w]}
<1> USE DEF IndInv, TypeOK, Goto, Start
<1>1. CASE Report(w)
  BY <1>1 DEF Report, Return
<1>2. CASE ReportThenPanic(w)
  BY <1>2 DEF ReportThenPanic, Panic
<1>3. CASE StealJob(w)
  BY <1>3 DEF StealJob, PopLocal, PopNothing, LoadInjector, StealInjector, RetryInjector,
    LoadPeer, StealPeer, RetryPeer, NoPeerLeft
<1>4. CASE Check(w)
  BY <1>4 DEF Check
<1>5. CASE CountChild(w)
  BY <1>5 DEF CountChild
<1>6. CASE InjectChild(w)
  BY <1>6 DEF InjectChild
<1>7. CASE Complete(w)
  BY <1>7 DEF Complete
<1>8. CASE Release(w)
  BY <1>8 DEF Release
<1> QED
  BY <1>1, <1>2, <1>3, <1>4, <1>5, <1>6, <1>7, <1>8 DEF Discoverer

LEMMA SettleStep ==
  ASSUME IndInv, JobsSettle, NEW w \in Workers, Discoverer(w)
  PROVE  JobsSettle'
<1>1. \A j : Settled(j) => Settled(j)'
  BY NothingTakenBack DEF Settled
<1>2. ASSUME Report(w), NEW j, j = hand[w]
      PROVE  Settled(j)'
  BY <1>2 DEF Report, Return, Settled
<1>3. ASSUME NEW j \in ran'
      PROVE  \/ Settled(j)'
             \/ \E v \in Workers : pc'[v] \in {"run", "pushing"} /\ hand'[v] = j
             \/ \E v \in Workers : pc'[v] \in {"panicked", "unwind", "dead"}
  <2>1. CASE j \notin ran
    BY <1>3, <2>1, RunnerStep
  <2>2. CASE Settled(j)
    BY <1>1, <2>2
  <2>3. ASSUME NEW v \in Workers, pc[v] \in {"run", "pushing"}, hand[v] = j
        PROVE  \/ Settled(j)'
               \/ \E u \in Workers : pc'[u] \in {"run", "pushing"} /\ hand'[u] = j
               \/ \E u \in Workers : pc'[u] \in {"panicked", "unwind", "dead"}
    <3>1. CASE v = w
      BY <1>2, <2>3, <3>1, RunnerStep
    <3>2. CASE v # w
      BY <2>3, <3>2, OthersUnmoved
    <3> QED
      BY <3>1, <3>2
  <2>4. ASSUME NEW v \in Workers, pc[v] \in {"panicked", "unwind", "dead"}
        PROVE  pc'[v] \in {"panicked", "unwind", "dead"}
    BY <2>4, RunnerStep, OthersUnmoved
  <2> QED
    BY <2>1, <2>2, <2>3, <2>4 DEF JobsSettle
<1>4. Initial \subseteq born'
  BY NothingTakenBack DEF JobsSettle
<1>5. \A p \in Requested : Canonical(p) = Missing => [job |-> NoJob, path |-> p] \in failed'
  BY NothingTakenBack DEF JobsSettle
<1> QED
  BY <1>3, <1>4, <1>5 DEF JobsSettle

LEMMA ListingInvStep ==
  ListingInv /\ [ListingNext]_<<vars, listingVars>> => ListingInv'
<1> SUFFICES ASSUME ListingInv, [ListingNext]_<<vars, listingVars>>
             PROVE  ListingInv'
  OBVIOUS
<1>1. IndInv'
  BY ListingSteps, InvStep DEF ListingInv
<1>2. ASSUME UNCHANGED <<vars, listingVars>>
      PROVE  JobsVisit' /\ MessagesFromJobs' /\ JobsSettle'
  BY <1>2 DEF ListingInv, vars, listingVars, JobsVisit, EnteredFromTheSide,
    MessagesFromJobs, JobsSettle, Settled
<1>3. ASSUME NEW w \in Workers, Discoverer(w)
      PROVE  JobsVisit' /\ MessagesFromJobs' /\ JobsSettle'
  BY <1>3, VisitStep, MessagesStep, SettleStep DEF ListingInv
<1>4. ListingOver => UNCHANGED <<vars, listingVars>>
  BY DEF ListingOver, Joined
<1> QED
  BY <1>1, <1>2, <1>3, <1>4 DEF ListingNext, ListingInv

\* The invariant holds in every state of a listing, whatever the file system.
THEOREM ListingInvariant == ListingSpec => []ListingInv
BY ListingInitInv, ListingInvStep, PTL DEF ListingSpec

-----------------------------------------------------------------------------
(* What the caller gets *)

\* Once every worker has left, the jobs are the places that were to be visited
\* and each of them is settled.
LEMMA WalkComplete ==
  ASSUME ListingInv, \A w \in Workers : pc[w] = "exited"
  PROVE  /\ \A j \in born : Settled(j)
         /\ Reachable = {Place(j) : j \in born}
<1>1. born = ran
  <2>1. 1 \in Workers
    BY SizesAssumption DEF Workers
  <2> QED
    BY <2>1 DEF ListingInv, IndInv, ExitMeansDone
<1>2. \A j \in born : Settled(j)
  BY <1>1 DEF ListingInv, JobsSettle
<1> DEFINE S == {Place(j) : j \in born}
<1>3. S \subseteq Reachable /\ S \in SUBSET Paths
  BY ReachableClosed DEF ListingInv, JobsVisit
<1>4. Roots \subseteq S
  <2> SUFFICES ASSUME NEW p \in Roots PROVE p \in S
    OBVIOUS
  <2> DEFINE job == <<p>>
  <2>1. job \in born
    BY JobsAreTrails DEF ListingInv, JobsSettle
  <2>2. Place(job) = p
    BY FirstPlace
  <2> HIDE DEF job
  <2> QED
    BY <2>1, <2>2
<1>5. ASSUME NEW j \in born, NEW p \in Pushed(Place(j))
      PROVE  p \in S
  <2>1. j \in Jobs /\ j \in Seq(Paths) /\ p \in Paths
    <3>1. j \in Jobs /\ j \in Seq(Paths)
      BY <1>5 DEF ListingInv, IndInv, TypeOK, JobsVisit
    <3>2. Place(j) \in S
      BY <1>5
    <3> QED
      BY <1>3, <1>5, <3>1, <3>2, PushedVisited
  <2>2. Append(j, p) \in born
    BY <1>2, <2>1, JobsAreTrails DEF Settled, SpawnsOf
  <2>3. Place(Append(j, p)) = p
    BY <2>1 DEF Place
  <2> QED
    BY <2>2, <2>3
<1>6. Reachable \subseteq S
  BY <1>3, <1>4, <1>5, ReachableLeast
<1> QED
  BY <1>2, <1>3, <1>6

\* collect_file_paths returns only with every Ruby file that can be reached and
\* every failure on the way, and with nothing else, for every file system,
\* number of workers and interleaving.
THEOREM ListingReturned == ListingSpec => []ReturnsListing
<1>1. ListingInv => ReturnsListing
  <2> SUFFICES ASSUME ListingInv, \A w \in Workers : pc[w] = "exited"
               PROVE  /\ Listed = Ruby \cap (Reachable \cup Found)
                      /\ Reported = {p \in Requested : Canonical(p) = Missing}
                           \cup (Reachable \cap Unreadable)
                           \cup {p \in Reachable \cup Found :
                                   \/ Kind[p] = "other"
                                   \/ p \in Links /\ Target[p] = Missing}
    BY DEF ReturnsListing
  <2>1. /\ \A j \in born : Settled(j)
        /\ Reachable = {Place(j) : j \in born}
        /\ ran \subseteq born
    BY WalkComplete DEF ListingInv, IndInv, HandsDistinct
  <2>2. \A p : p \in Listed <=> \E q \in Reachable : p \in HandleFile(q)
    <3>1. ASSUME NEW p \in Listed
          PROVE  \E q \in Reachable : p \in HandleFile(q)
      BY <2>1, <3>1 DEF Listed, ListingInv, MessagesFromJobs
    <3>2. ASSUME NEW q \in Reachable, NEW p \in HandleFile(q)
          PROVE  p \in Listed
      <4>1. PICK j \in born : q = Place(j)
        BY <2>1
      <4>2. [job |-> j, path |-> p] \in sent
        BY <2>1, <3>2, <4>1 DEF Settled
      <4> QED
        BY <4>2 DEF Listed
    <3> QED
      BY <3>1, <3>2
  <2>3. Listed = Ruby \cap (Reachable \cup Found)
    BY <2>2 DEF HandleFile, Found
  <2>4. \A p : p \in Reported <=> \/ p \in Requested /\ Canonical(p) = Missing
                                 \/ \E q \in Reachable : p \in SendError(q)
    <3>1. ASSUME NEW p \in Reported
          PROVE  \/ p \in Requested /\ Canonical(p) = Missing
                 \/ \E q \in Reachable : p \in SendError(q)
      BY <2>1, <3>1 DEF Reported, ListingInv, MessagesFromJobs
    <3>2. ASSUME NEW p \in Requested, Canonical(p) = Missing
          PROVE  p \in Reported
      <4>1. [job |-> NoJob, path |-> p] \in failed
        BY <3>2 DEF ListingInv, JobsSettle
      <4> QED
        BY <4>1 DEF Reported
    <3>3. ASSUME NEW q \in Reachable, NEW p \in SendError(q)
          PROVE  p \in Reported
      <4>1. PICK j \in born : q = Place(j)
        BY <2>1
      <4>2. [job |-> j, path |-> p] \in failed
        BY <2>1, <3>3, <4>1 DEF Settled
      <4> QED
        BY <4>2 DEF Reported
    <3> QED
      BY <3>1, <3>2, <3>3
  <2>5. \A p : (\E q \in Reachable : p \in SendError(q)) <=>
                \/ p \in Reachable \cap Unreadable
                \/ /\ p \in Reachable \cup Found
                   /\ \/ Kind[p] = "other"
                      \/ p \in Links /\ Target[p] = Missing
    BY DEF SendError, Found, Canonical
  <2> QED
    BY <2>3, <2>4, <2>5
<1> QED
  BY <1>1, ListingInvariant, PTL

\* A file of an excluded directory is listed only if the walk came into the
\* directory by a link or a requested path inside it.
THEOREM ExcludedSkipped == ListingSpec => []ExcludedUnlessLinked
<1>1. ListingInv => ExcludedUnlessLinked
  <2> SUFFICES ASSUME ListingInv, NEW r \in sent, NEW d \in OffLimits \cap Directories,
                      r.path \in Below[d]
               PROVE  EnteredFromTheSide(r.job, d)
    BY DEF ExcludedUnlessLinked, EnteredFromTheSide
  <2>1. r.job \in born /\ r.path \in HandleFile(Place(r.job))
    BY DEF ListingInv, MessagesFromJobs, IndInv, HandsDistinct
  <2>2. Place(r.job) \in Reachable \ Excluded /\ Place(r.job) \in Paths
    BY <2>1, ReachableClosed DEF ListingInv, JobsVisit
  <2>3. Place(r.job) # d
    BY <2>2, FileSystemAssumption, ExcludedPlaces DEF Directories
  <2>4. Place(r.job) \in Below[d]
    BY <2>1, <2>2, <2>3, BelowParent DEF HandleFile
  <2> QED
    BY <2>1, <2>4 DEF ListingInv, JobsVisit
<1> QED
  BY <1>1, ListingInvariant, PTL
=============================================================================
