------------------------------ MODULE Listing ------------------------------
(***************************************************************************)
(* File discovery, rust/rubydex/src/listing.rs: `collect_file_paths` pushes*)
(* one FileDiscoveryJob per requested path on the job queue; a job lists a *)
(* directory, sends the Ruby files it finds and pushes a job per           *)
(* subdirectory and per symbolic link.                                     *)
(*                                                                         *)
(* A path is the physical place of a file or a directory.  Every path that *)
(* is pushed is canonical or an entry of a canonical directory, so a job   *)
(* is identified by its trail: the paths that led to it, from a requested  *)
(* one.  The receivers are read after the workers have been joined, so a   *)
(* job's messages are sent in one step, at the end of its run.             *)
(***************************************************************************)
EXTENDS JobQueue, Sequences

CONSTANTS
    Paths,          \* the paths of the file system
    Kind,           \* what file_type says of each path
    Entries,        \* Entries[d]: the entries of directory d
    Target,         \* Target[l]: what link l resolves to, or Missing
    Missing,        \* no such path
    Unreadable,     \* directories that read_dir cannot open
    Ruby,           \* files whose extension is rb or rbs
    Requested,      \* the `paths` argument
    ExcludedArgs    \* the `excluded` argument

Directories == {p \in Paths : Kind[p] = "dir"}
Links == {p \in Paths : Kind[p] = "link"}

\* A path is an entry of one directory.
\* Links lead nowhere or to a path that is no link: fs::canonicalize follows
\* chains of links to their end.
ASSUME FileSystemAssumption ==
    /\ Kind \in [Paths -> {"dir", "file", "link", "other"}]
    /\ Entries \in [Directories -> SUBSET Paths]
    /\ \A d, e \in Directories : d # e => Entries[d] \cap Entries[e] = {}
    /\ Target \in [Links -> (Paths \ Links) \cup {Missing}]
    /\ Missing \notin Paths
    /\ Unreadable \subseteq Directories
    /\ Ruby \subseteq {p \in Paths : Kind[p] = "file"}
    /\ Requested \subseteq Paths \cup {Missing}
    /\ ExcludedArgs \subseteq Paths \cup {Missing}

VARIABLES
    sent,       \* [job, path] for each file sent on the files channel
    failed      \* [job, path] for each path reported on the errors channel

listingVars == <<sent, failed>>

\* fs::canonicalize
Canonical(p) == IF p \in Links THEN Target[p] ELSE p

\* mutated form: the excluded paths are compared as they were given
Excluded_AsGiven == ExcludedArgs
Excluded == {Canonical(p) : p \in ExcludedArgs} \ {Missing}

\* The requested paths that become jobs; a missing one is an error.
Roots == {Canonical(p) : p \in Requested} \ (Excluded \cup {Missing})

Place(job) == job[Len(job)]

Opened(p) == IF p \in Directories \ Unreadable THEN Entries[p] ELSE {}

\* mutated form: every link is followed, without asking whether it is excluded
HandleSymlink_Any(entries) == {Canonical(l) : l \in entries \cap Links} \ {Missing}
\* handle_symlink: the paths pushed for the links among the entries.
HandleSymlink(entries) ==
    {Canonical(l) : l \in entries \cap Links} \ (Excluded \cup {Missing})

\* What run() pushes.
Pushed(p) ==
    (Opened(p) \cap (Directories \ Excluded)) \cup HandleSymlink(Opened(p))

SpawnsOf(job) == {Append(job, p) : p \in Pushed(Place(job))}

\* handle_file: what run() sends; a directory's files are not looked up among
\* the excluded paths.
HandleFile(p) == (Opened(p) \cup {p}) \cap Ruby

\* What run() reports: a directory it cannot open, a dangling link, and a path
\* that is neither file nor directory (or that cannot be read).
SendError(p) ==
    {q \in Opened(p) \cup {p} :
        \/ Kind[q] = "other"
        \/ q \in Links /\ Canonical(q) = Missing}
    \cup ({p} \cap Unreadable)

ASSUME JobsAreTrails ==
    /\ Initial = {<<p>> : p \in Roots}
    /\ \A j \in Jobs : Spawns[j] = SpawnsOf(j)

ListingInit ==
    /\ Init
    /\ sent = {}
    /\ failed = {[job |-> NoJob, path |-> p] :
                    p \in {q \in Requested : Canonical(q) = Missing}}

\* FileDiscoveryJob::run, as far as the channels see it.
Report(w) ==
    /\ Return(w)
    /\ sent' = sent \cup {[job |-> hand[w], path |-> p] : p \in HandleFile(Place(hand[w]))}
    /\ failed' = failed \cup {[job |-> hand[w], path |-> p] : p \in SendError(Place(hand[w]))}

\* entry.file_type().unwrap(): the job panics after any part of its work.
ReportThenPanic(w) ==
    /\ Panic(w)
    /\ \E found \in SUBSET HandleFile(Place(hand[w])) :
         sent' = sent \cup {[job |-> hand[w], path |-> p] : p \in found}
    /\ UNCHANGED failed

Discoverer(w) ==
    \/ Report(w) \/ ReportThenPanic(w)
    \/ /\ \/ StealJob(w) \/ Check(w) \/ CountChild(w) \/ InjectChild(w)
          \/ Complete(w) \/ Release(w)
       /\ UNCHANGED listingVars

ListingOver == Joined /\ UNCHANGED listingVars

ListingNext == ListingOver \/ \E w \in Workers : Discoverer(w)

\* The operating system keeps scheduling every thread.
ListingSpec ==
    /\ ListingInit
    /\ [][ListingNext]_<<vars, listingVars>>
    /\ \A w \in Workers : WF_<<vars, listingVars>>(Discoverer(w))

-----------------------------------------------------------------------------
(* Properties *)

\* What the caller excludes, wherever the links it names lead.
OffLimits == {Canonical(p) : p \in ExcludedArgs}

\* What the walk is to visit, without jobs: the least set with the requested
\* paths and, of the entries and link targets of its directories, those that
\* are not excluded.
Visit(S) ==
    LET entries == UNION {Opened(d) : d \in S}
    IN  ((entries \cap Directories) \cup {Canonical(l) : l \in entries \cap Links})
          \ (OffLimits \cup {Missing})
Reachable ==
    LET visited == {S \in SUBSET Paths : Roots \cup Visit(S) \subseteq S}
    IN  {p \in Paths : \A S \in visited : p \in S}

\* The entries of the directories to visit.
Found == UNION {Opened(d) : d \in Reachable}

Listed == {r.path : r \in sent}
Reported == {r.path : r \in failed}

\* collect_file_paths returns (no job panicked) only with every Ruby file that
\* can be reached and with every failure on the way, whichever worker listed
\* which directory and in whatever order.
ReturnsListing ==
    AllStopped /\ (\A w \in Workers : pc[w] = "exited") =>
        /\ Listed = Ruby \cap (Reachable \cup Found)
        /\ Reported = {p \in Requested : Canonical(p) = Missing}
             \cup (Reachable \cap Unreadable)
             \cup {p \in Reachable \cup Found :
                     \/ Kind[p] = "other"
                     \/ p \in Links /\ Target[p] = Missing}

\* What lies in each directory, at any depth.
Below == [d \in Directories |->
    LET trees == {S \in SUBSET Paths :
                    Entries[d] \cup UNION {Entries[q] : q \in S \cap Directories} \subseteq S}
    IN  {p \in Paths : \A S \in trees : p \in S}]

\* "Excluded directories will be skipped entirely during file discovery"
\* (graph.rs), as far as it goes: a file of an excluded directory is listed
\* only if the walk came into the directory by a link to something inside it.
ExcludedUnlessLinked ==
    \A r \in sent : \A d \in OffLimits \cap Directories : r.path \in Below[d] =>
        \E i \in DOMAIN r.job :
            /\ r.job[i] \in Below[d]
            /\ r.job[i] \in Requested \/ \E l \in Links : Target[l] = r.job[i]
=============================================================================
