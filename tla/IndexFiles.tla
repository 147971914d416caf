----------------------------- MODULE IndexFiles -----------------------------
(***************************************************************************)
(* `index_files` of rust/rubydex/src/indexing.rs: one IndexingJob per file *)
(* on the job queue, a channel that carries the local graph of each file,  *)
(* and the calling thread, which merges the graphs as they arrive, joins   *)
(* the workers and collects the errors.                                    *)
(*                                                                         *)
(* The channel has a sender in every box, and `recv` fails only when the   *)
(* last box is dropped.  A box is dropped at the end of the iteration that *)
(* ran it; a box in a deque is dropped with the deques, when the last      *)
(* worker has ended; a box on the injector is dropped with the queue,      *)
(* which `index_files` itself holds until it returns.                      *)
(***************************************************************************)
EXTENDS JobQueue, Sequences

CONSTANT Unreadable     \* the files whose job sends an error, not a graph

\* An indexing job pushes no job of its own.
ASSUME FilesAssumption ==
    /\ Unreadable \subseteq Jobs
    /\ \A j \in Jobs : Spawns[j] = {}

VARIABLES
    channel,    \* local graphs sent and not received, oldest first
    errors,     \* files reported on the errors channel
    merged,     \* files passed to graph.consume_document_changes, in order
    caller,     \* where the calling thread is in index_files
    joined      \* how many handles the calling thread has joined

callerVars == <<merged, caller, joined>>
indexVars == <<channel, errors, merged, caller, joined>>
allVars == <<vars, indexVars>>

IndexInit ==
    /\ Init
    /\ channel = <<>>
    /\ errors = {}
    /\ merged = <<>>
    /\ caller = "merging"
    /\ joined = 0

\* IndexingJob::run, as far as the channels see it: it sends once, last.
SendResult(w) ==
    /\ Return(w)
    /\ IF hand[w] \in Unreadable
         THEN /\ errors' = errors \cup {hand[w]}
              /\ UNCHANGED channel
         ELSE /\ channel' = Append(channel, hand[w])
              /\ UNCHANGED errors
    /\ UNCHANGED callerVars

Indexer(w) ==
    \/ SendResult(w)
    \/ /\ \/ StealJob(w) \/ Check(w) \/ Panic(w) \/ Complete(w) \/ Release(w)
       /\ UNCHANGED indexVars

\* mutated form: the channel closes once every job has been started
Closed_AllStarted == InQueues = {}
\* No sender is left: every box has been dropped.
Closed ==
    /\ injector = {}
    /\ \A w \in Workers : hand[w] = NoJob
    /\ AllStopped \/ \A w \in Workers : local[w] = {}

\* while let Ok(local_graph) = local_graphs_rx.recv()
Merge ==
    /\ caller = "merging"
    /\ channel # <<>>
    /\ merged' = Append(merged, Head(channel))
    /\ channel' = Tail(channel)
    /\ UNCHANGED <<vars, errors, caller, joined>>

StopMerging ==
    /\ caller = "merging"
    /\ channel = <<>>
    /\ Closed
    /\ caller' = "joining"
    /\ UNCHANGED <<vars, channel, errors, merged, joined>>

\* mutated form: the result of join is ignored
JoinFails_Ignored(w) == FALSE
\* handle.join().expect("Worker thread panicked")
JoinFails(w) == pc[w] = "dead"

\* The handles are joined in the order of the workers.
Join ==
    /\ caller = "joining"
    /\ joined < NWorkers
    /\ pc[joined + 1] \in Stopped
    /\ IF JoinFails(joined + 1)
         THEN /\ caller' = "panicked"
              /\ UNCHANGED joined
         ELSE /\ joined' = joined + 1
              /\ UNCHANGED caller
    /\ UNCHANGED <<vars, channel, errors, merged>>

\* errors_rx.iter().collect(), whose senders are gone with the boxes.
Finish ==
    /\ caller = "joining"
    /\ joined = NWorkers
    /\ caller' = "done"
    /\ UNCHANGED <<vars, channel, errors, merged, joined>>

CallerStep == Merge \/ StopMerging \/ Join \/ Finish

Finished == caller \in {"done", "panicked"} /\ AllStopped
\* index_files has returned or panicked, and no worker runs any more.
Over == Finished /\ UNCHANGED allVars

IndexNext == CallerStep \/ Over \/ \E w \in Workers : Indexer(w)

IndexSpec == IndexInit /\ [][IndexNext]_allVars

IndexFairness ==
    /\ WF_allVars(CallerStep)
    /\ \A w \in Workers : WF_allVars(Indexer(w))
FairIndexSpec == IndexSpec /\ IndexFairness

-----------------------------------------------------------------------------
(* Properties *)

Elements(s) == {s[i] : i \in DOMAIN s}

\* When index_files returns normally nothing was left out and nothing counted
\* twice: every file it was given was merged once or is in the errors it
\* returns, and no result came after the loop had seen the channel close.
ReturnsEverything ==
    caller = "done" =>
        /\ Elements(merged) \cup errors = Initial
        /\ Elements(merged) \cap errors = {}
        /\ \A i, k \in DOMAIN merged : merged[i] = merged[k] => i = k
        /\ channel = <<>>

\* A panic in a job is never swallowed: index_files cannot return normally
\* ("capture any panics so we can propagate them safely").
PanicSurfaces ==
    caller = "done" => \A w \in Workers : pc[w] \notin {"panicked", "unwind", "dead"}

\* index_files returns or panics: the calling thread does not wait for ever.
\* It holds while at least one worker survives (see the README for the other
\* case).
CallerReturns == <>(caller \in {"done", "panicked"})
=============================================================================
