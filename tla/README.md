# Verification of rubydex

rubydex is a static analyser for Ruby: it lists and parses files in parallel,
merges what each file defines and mentions into one in-memory graph, resolves
constants, methods and ancestors over that graph, keeps the result up to date
when documents change, and answers queries from a Ruby extension and from an
MCP server.  This directory holds TLA+ models of it, TLC configurations that
check them, and proofs about them.  Paths below are relative to
`src/rust/rubydex/src/` unless they start with `src/`.

## 1. Inventory

| component | source | state | operations | modules |
|---|---|---|---|---|
| Job queue | `job_queue.rs` | injector, one deque per worker, `in_flight` | `push`, `worker_loop`, `steal_job` | `JobQueue`, `JobPool`, `JobQueueProofs` |
| Indexing pipeline | `indexing.rs` | two channels, the worker handles | `IndexingJob::run`, `index_files` | `IndexFiles`, `IndexFilesProofs` |
| File discovery | `listing.rs` | two channels, the excluded paths | `FileDiscoveryJob::run`, `handle_symlink`, `collect_file_paths` | `Listing`, `ListingProofs` |
| Local graph | `indexing/local_graph.rs` | definitions, references, names and strings of one file | `add_*`, `intern_string`, `into_parts` | `LocalGraph`, `VisitorProofs` |
| Ruby indexer | `indexing/ruby_indexer.rs` | the stacks of nestings and visibilities | one `visit_*` per kind of node | `Visitor`, `RubyIndexer`, `RubyIndexerProofs` |
| RBS indexer | `indexing/rbs_indexer.rs` | the same, for signatures | one `visit_*` per kind of node | `Visitor`, `RbsIndexer`, `RbsIndexerProofs` |
| Graph | `model/graph.rs` | documents, definitions, references, names, declarations, `name_dependents`, `pending_work` | `consume_document_changes`, `delete_document`, `add_declaration`, `record_resolved_*`, the invalidation engine, visibility | `Graph`, `GraphProofs` |
| Declarations and names | `model/declaration.rs`, `model/name.rs`, `model/definitions.rs`, `model/references.rs` | members, ancestors, descendants, references; counts | their accessors | `Graph`, `LocalGraph` |
| Built-ins | `model/built_in.rs` | the `rubydex:built-in` document | `add_built_in_data` | `Graph`, `MCResolution` |
| Resolver | `resolution.rs` | the unit queue, `made_progress` | `resolve`, the handlers of units, linearisation, singleton classes, `handle_remaining_definitions` | `Ancestors`, `Constants`, `Members`, `Resolution` |
| Integrity | `integrity.rs` | none | `check_integrity` | `Handles` |
| Queries | `query.rs` | none | `find_member_in_ancestors`, `follow_method_alias`, completion, searches | `Query` |
| Foreign interface | `src/rust/rubydex-sys` | handles into one graph | one C function per query | `Handles` |
| Ruby extension | `src/ext`, `src/lib` | wrappers of handles | one method per C function | |
| MCP server | `src/rust/rubydex-mcp` | `RwLock<ServerState>` | `spawn_indexer`, `ensure_graph_ready`, one tool per query | `McpServer`, `McpServerProofs` |
| Command line | `main.rs`, `stats*`, `visualization*` | none | listing, indexing, resolution, reports | |

**How they interact.**  `collect_file_paths` runs discovery jobs on a job queue
and returns paths.  `index_files` runs one `IndexingJob` per path on another
queue; each runs an indexer, which builds a `LocalGraph`, and sends it to the
calling thread, which passes it to `Graph::consume_document_changes` while
workers are still running.  Everything after that is single threaded: the graph
removes what the old version of the document contributed, merges the new one
and records the *units* (definitions, references, ancestor chains) that have to
be resolved again; `Resolver::resolve` consumes the units, creates
declarations, linearises ancestors, binds names and references, and places
methods and variables.  Queries read the result, through the foreign interface
or from the MCP server, which runs the whole pipeline on a background thread
and serves its tools from another.

**What is hard.**

* *Job queue*: the counter and the queues are separate atomics; a worker
  decides to leave from one of them while others push, steal and die.
* *Pipeline*: the end of the merge loop is the drop of the last sender, which
  depends on who owns the boxes when workers die.
* *Discovery*: links lead into excluded directories and back to visited ones;
  a job can panic after it has sent part of a directory.
* *Indexers*: what a file counts of a name or a string must be what its removal
  releases, over some ninety kinds of nodes that each intern in their own way.
* *Graph*: an edit may invalidate a name in another document through lexical
  scope, inheritance or an alias; the invalidation must reach exactly the
  state that a fresh index would not contain, while iterating hash maps in an
  unspecified order.  What it leaves dangling shows up only in a later edit.
* *Resolver*: a fixed point over units that may not be resolvable yet, with
  partial ancestor chains, placeholders for unknown parents, aliases and
  cycles, and singleton classes that come into being on demand; its answer must
  not depend on the order in which files arrived.
* *Queries*: completion walks the same graph as the resolver, on its own way,
  and must agree with it; every call unwraps what an identifier leads to.
* *Server*: tools run while the graph is being built and published.

**What makes each component correct.**

* *Job queue*: every job pushed is run exactly once; a worker leaves only when
  nothing is left; the run ends.
* *Pipeline*: every file is merged once or reported once; a panic is reported;
  the caller returns.
* *Discovery*: every Ruby file reachable from the given paths and not excluded
  is listed; the walk ends.
* *Indexers*: no name or string is released more often than it was counted, the
  reverse index of names is complete, the scope of a name in use is kept.
* *Graph*: after every edit the invalidated graph, resolved again, equals a
  fresh index of the documents; its indices are what the documents add up to.
* *Resolver*: ownership is well founded (`integrity.rs`), Ruby's lookup order is
  respected, methods and variables belong where Ruby puts them, the answer is
  independent of arrival order.
* *Queries and handles*: completion offers what lookup and resolution find; no
  call on a live entity panics; a question leaves nothing behind (for one kind it
  does: section 6).
* *MCP server*: a tool answers from the whole graph or not at all; pages add up;
  the client is served.

## 2. Plan

| order | module | models | state |
|---|---|---|---|
| 1 | `JobPool` | what a job queue promises: a pool of jobs, each taken once | done |
| 2 | `JobQueue` | `job_queue.rs`, one action per atomic access; implements `JobPool` | done |
| 3 | `JobQueueProofs` | safety and refinement of `JobQueue` for every number of workers and jobs | done |
| 4 | `IndexFiles` (over `JobQueue`) | `index_files` and its channels | done |
| 5 | `Graph` | documents, names, declarations and the invalidation worklist | done |
| 6 | `Ancestors`, `Constants`, `Members`, `Resolution` | the resolver over `Graph`, and edits between two runs of it | done |
| 7 | `Query`, `Handles` (over `Resolution`) | lookup, aliases, visibility and completion; the calls of the extension | done but for searches and arguments |
| 8 | `Listing` (over `JobQueue`) | `FileDiscoveryJob`: directories, symbolic links, exclusion | done |
| 9 | `McpServer` (over `IndexFiles`) | `spawn_indexer`, readiness, tools against the write lock | done |
| 10 | `LocalGraph`, `Visitor`, `RubyIndexer`, `RbsIndexer` | the local graph and the visitors that fill it | done but for comments and diagnostics |
| 11 | `IndexFilesProofs`, `McpServerProofs` | the safety of the pipeline and of the server for every number of files and workers, from the theorems about the queue | done |
| 12 | `GraphProofs` | `IndexExact` of `Graph` for every code base, with lemmas on `Extend` and `RemoveDocumentData` | done |
| 13 | `ListingProofs` | what discovery returns, for every file system | done |
| 14 | `VisitorProofs`, `RubyIndexerProofs`, `RbsIndexerProofs` | the stacks, the scopes, the reverse index and the counts, for every program | done |
| 15 | searches and require paths of `query.rs` | as operators against a reference definition | to do |

The modules compose: `Listing`, and `IndexFiles` below `McpServer`, extend
`JobQueue`; the resolver, the queries and the handles extend `Graph` one over
the other, and run in one state machine with the edits; the two indexers share
`Visitor` and run in one machine in `MCIndexers`.  Each module of proofs extends
the module it is about, and the proofs below it.

*Abstract specifications.*  `JobPool` for the queue (a refinement).  `GraphSpec`
of `Graph` for the whole program (`ImplementsGraph`): documents change as the
code changes them, and a run of the resolver may do anything to what is resolved
but leaves the index alone.  For the graph and the resolver together the
specification is a function: the graph that indexing the present documents from
nothing gives (`Fresh`), and the invariant `IncrementalIsFresh` says that every
history ends there.  For discovery it is the fixed point `Reachable`, computed
without jobs; for completion it is the resolver itself; for a tool it is its
answer over the set of all readable files.

*Theorems.*  Done: what `JobQueue`, `IndexFiles`, `Listing` and `McpServer` promise
about safety; that the index of `Graph` is exact; the stacks, scopes, dependents
and counts of both indexers.  The properties of the resolver and of what reads it
would need its recursive operators written as recursive functions over graphs,
and a proof that the passes end for these to exist, which is out of reach
(section 7).

*Runs.*  The twelve of section 5, one per question.

## 3. Concurrency: the queue, the pipeline, discovery, the server

### `JobQueue.tla`

| in the model | in the code |
|---|---|
| `inFlight` | `in_flight: AtomicUsize` |
| `injector`, `local[w]` | the `Injector` and the deque of each worker |
| `pc[w]`, `hand[w]`, `child[w]` | where a worker is in `worker_loop`, the job it runs, the job it is pushing |
| `seen[w]`, `victim[w]` | what a batch steal loaded before its CAS, and the index in `for stealer in stealers` |
| `born`, `ran` | history: jobs ever pushed, jobs ever started |

One action is one atomic access that other threads can observe.  A push is two
(`CountChild`, `InjectChild`); a steal is a load of the victim and a CAS that
fails with `Steal::Retry` when another thief took something in between.  The
deques are crossbeam's: a batch steal moves some of the jobs seen, at most
`MaxBatch`, in any order.  A job is a model value; `Spawns` says what it pushes
while it runs and `MayPanic` which jobs may panic, at any point of their run.
`drop` of the job's box is an action of its own (`Release`), because the
senders inside it decide when the merge loop of `index_files` ends.

The interleaving is sequentially consistent, and the code's accesses are weaker:
`push` (`job_queue.rs` 38) and the decrement (132) are `Relaxed`, only the load
(116) is `Acquire`.  For the counter this makes no difference to what is checked.
It is one location, so its values have one order, in which the read-modify-writes
of a thread come in program order: a job's pushes are counted before the job is
counted off, and the first pushes happen before the threads are spawned.  Zero is
therefore the last value of that order, and a worker that loads it, however late,
has loaded the end; a load that is stale only makes it try once more.  What the
`Relaxed` decrement does not give is that a leaving worker sees what the jobs of
others wrote; the code reads that through channels and after `join`, which do.
The orderings inside the deques are crossbeam's.

### `IndexFiles.tla`

Extends `JobQueue` with the calling thread (`caller`, `merged`, `joined`) and
the two channels.  A job sends once: a local graph, or an error for a file in
`Unreadable`.  `Closed` says that every sender is dropped: no box on the
injector, in a live deque or in a worker's hands.  A deque is dropped when all
threads are gone (the stealers are shared); the injector belongs to the queue,
which the calling thread keeps alive: this is what makes the hang of section 6
possible.

### `Listing.tla`

Extends `JobQueue` with the two channels of `collect_file_paths`.  The file
system is given by constants: kinds of paths, entries of directories (a path is
an entry of one directory), targets of links.  A job is the trail of paths that
led to it, from a requested path, since the code keeps no set of visited
directories and may come to one twice. `Pushed`, `HandleFile` and `SendError`
are what one `run()` pushes, sends and reports; a job that panics
(`entry.file_type().unwrap()`) has sent any part of what it found.  The
receivers are read after the workers have been joined, so the order of messages
within a job does not matter.

### `McpServer.tla`

Extends `IndexFiles` with the background thread (`indexer`: indexing, resolving,
publishing or failing; a panic of `index_files` and one of the resolver are both
caught, and published as an error), the `RwLock` (`lock`), the published `state`, and one
client.  A graph is the set of the files merged into it; what each file declares
and mentions is a constant.  Tools are functions of a graph, with their filters,
limits, errors (an unknown name, a kind that has no descendants, a match mode or
a path that is none) and pages (`Paginate` is `paginate!`, over the list of a set: the
tools answer from maps of the graph).  An answer carries the offset it was asked
for, and `received` is what the client has of the list so far.  rmcp runs the tools on a
`current_thread` runtime, and their bodies have no `await` between taking and
dropping the lock: calls of tools are answered one at a time, and one reader is
enough.  What a client wants is chosen when the server is ready to answer it;
before that, every tool answers the same.

### Properties

* `Accounting`, `NothingLost`, `ExitMeansDone`: the counter is at each instant
  the number of jobs between `push` and the end of `run`; a steal neither loses
  nor copies; a worker that left on reading zero left nothing behind.
* `ImplementsPool`: the queue implements the abstract pool `JobPool`.
* `ReturnsListing`: what discovery returns is what a sequential walk finds
  (`Reachable`, a fixed point without jobs), files and errors, whichever worker
  visits which directory.  `ExcludedUnlessLinked`: a file of an excluded
  directory is listed only if the walk came in by a link or by a requested path
  inside it.  `Termination`: the walk ends.
* `ReturnsEverything`, `PanicSurfaces`, `CallerReturns`: each file is merged or
  reported once, a panic is not swallowed, the caller is not left waiting (while
  a worker survives).
* `AnswersFromWholeGraph`: a tool never answers from a graph that is still being
  filled, and each page is the one that follows the results before it.
  `PagesComplete`: the pages together are the whole list, with nothing twice.
  `ClientServed`: the client gets its answer.

**Fairness.**  Weak fairness of each worker's steps, of the calling thread's and
of the background thread's: the operating system keeps scheduling every runnable
thread.  Nothing is assumed about which steal succeeds.  Strong fairness of
taking the lock (`LockRead`, `LockWrite`): the standard library's lock queues its
waiters, so a thread that waits gets it although others take it in between.  The
client keeps asking: a client that stops is not waiting for anything.

## 4. The graph, the resolver and what reads them

### `Graph.tla`

The graph is one record, `graph`, with the maps of `Graph`:

| field | in the code |
|---|---|
| `docs`, `defs`, `refs` | `documents`, `definitions`, `constant_references` |
| `decls` | `declarations`: kind, definitions, references, members, ancestors, descendants, singleton class |
| `resolved`, `count` | `names`: `NameRef::Resolved` or not, and the reference count |
| `users`, `edges` | `name_dependents`: `Definition`/`Reference` entries in order, `ChildName`/`NestedName` entries |
| `pending` | `pending_work` |

A name is merged with the count of the file's own table (`RefCount`), which is
not the number of its uses: `FOO ||= 1` counts one name once for two uses, and a
signature counts the segments of a qualified name and uses the last only.  A
removal counts down once for each use, as the code does (`CountLeft`).  A count
is bounded by `MaxCount`, where what is never used is never counted down.

A definition has a kind (classes, modules, singleton classes, constants,
constant aliases, methods, attributes, method aliases, instance, class and
global variables, and the definitions that change a visibility), the definition
it is nested in, and a receiver; a declaration is its fully qualified name.

A change of a document is not one step.  `ConsumeDocumentChanges` and
`DeleteDocument` compute what is to be invalidated, the three actions of
`InvalidateStep` take one item each from the worklist, and `Finish` removes the
old data and merges the new.  `GraphSpec` is made of these, and of `ResolverRuns`:
a step that leaves the fields of the index (`IndexFields`: documents, counts,
definitions, references, dependents) alone.  The code fills the worklist from hash maps and
sets, so an item of one batch may come before or after another: the worklist is
a stack of *frames*, popped last in first out, and within a frame in any order.
TLC explores all of those orders.

An identifier is the value the code hashes; collisions of hashes are not
modelled.  Two uses of one name in one lexical context share a `NameId`, within
a file and across files, as in the code; most of what is hard comes from this.

### `Ancestors`, `Constants`, `Members`, `Resolution`

The resolver, one module per phase: linearisation with `include`, `prepend` and
`extend`, singleton classes and their chains; constants, aliases, placeholders
and promotion; what `handle_remaining_definitions` places after the fixed point
(methods, variables, aliases, visibility); and the run itself with the order of
its work.  `Resolver::resolve` borrows the graph mutably until it returns, so a
run is one action, `Resolve`; every method is an operator from graph to graph
with a result.  `Edit` begins a change of a document, at most `MaxEdits` of them
between two runs of the resolver.

Where the code unwraps a lookup, expects a result or panics, the model applies a
function, or has a CASE that lacks the impossible; outside its domain TLC reports
an error.  This holds of what `add_member` is given (`AddMember`), of ancestors
that get a descendant (`AddDescendants`), of the singleton class of a body
(`Expected`) and of the owner of an alias (`AliasTarget`).  A run that completes
shows that none of these can fail in it.

*What is collapsed.*  `BasicObject` and `Kernel` into `Object`: no file of a code
base defines them.  `pending_work` is a set where the code has a vector that
`prepare_units` sorts and dedups.  The order of the units that come from hash
maps is free: `Resolve` chooses any.  Definitions and references are sorted by
URI, methods and variables by the hash of it, for which `UriHash` gives any order.  An empty file is the same as an absent
one.  Two pushes of one item by one handler are one: the second visit finds the
item gone, visited or unresolved.  Where the code takes the smallest
`DefinitionId` (a hash), the model takes the first definition by file and offset.

### `Query`, `Handles`

`Query` holds the lookup of members on the chain of ancestors, method aliases,
`visibility`, and the three completions, as operators over the graph; an outcome
is "ok", "error" or "panic".  `module_function` counts as private there.
`Handles` holds the calls of the foreign interface: each is given an identifier
from an earlier call and reads the graph as it is now; where the code unwraps
what is not there, the answer is `Panic`.  It also has the names that
`resolve_constant` and completion register for the time of one question, and
`check_integrity`.  A question is a stack of strings: it registers names part by
part and stands for the last of them (`Asking`), or, when it ends in an empty
part as `Foo::` does, for none (`Unfinished`).  Questions are asked of every graph
a run reaches and are no steps of it: those of the first kind leave no trace
(`LookupLeavesNoTrace`), and what those of the second kind leave behind
(section 6) is in no run.

### `LocalGraph`, `Visitor`, `RubyIndexer`, `RbsIndexer`

A behaviour is the traversal of one syntax tree that is chosen on the way: an
action is the visit of a node, or its beginning and its end when the visitor
descends into a body.  The paths that may be written are constants; a path has at
least one segment, and one of RBS begins at no expression (`PathsAssumption`).
`nesting_stack` and `visibility_stack` are the code's,
`frames` its recursion.  `LocalGraph` counts names and strings, and records
definitions, references, members, mixins and `name_dependents`; it ends with the
contract between a file and the global graph, whose `remove_document_data` later
releases what the file counted.  Two parts of it, `UsedNamesCounted` (a name that
is used is counted) and `ScopesOutlive` (the scope and the nesting of a counted
name are counted), are `Closed` in `Graph.tla`, what `FilesAssumption` asks of
names; that every use has a count of its own (`CountsCoverUses`) is not true of
the code, and nothing in `Graph.tla` assumes it.  `written` is history: it says
of a mixin and of an alias of a method in which form the source has it.

### Properties

Over the graph and the resolver, for every history of edits and every order of
the worklist:

* `IncrementalIsFresh`: resolving gives the declarations, members, references,
  singleton classes and ancestors that a fresh index of the same documents
  gives.  A test of `graph.rs` makes this comparison for one history (line 3720).
  Placeholders, members that lost their definitions, and singleton classes that
  only were needed are not compared (section 6).
* `ResolutionIsCurrent`: looking a constant up again finds what it resolved to.
* `NothingForgotten`: what is unresolved has a unit pending.  `IndexExact`: the
  tables of definitions and references are those of the documents; a name that no
  file uses more often than it counts it (`Covered`) has every count, user and
  edge that the documents add, and one that every file counts as often as it uses
  it (`Exact`) has no more.  What `FOO ||= 1` loses and what a signature leaves
  behind is not claimed to be exact.
  `ImplementsGraph`: every step of the program is a step of `GraphSpec`, so that
  what is proved of that specification holds of the program.
* `OwnersKnowMembers`, `ReferencesRecorded`, `AncestorsKnowDescendants`,
  `SingletonsAttached`: the maps of the graph mirror each other.
* `MembersPlaced`: a method or a variable is recorded in one declaration or waits
  for its owner, never both and never neither.  `VisibilityApplied`,
  `SingletonsFollowClasses`: private inherited methods get a declaration of their
  own; class methods are inherited.
* `ResolveIsIdempotent`: a second run changes nothing but singleton chains.

Over what reads them:

* `EveryReadAnswers`: no call on a handle of what is in the graph panics, between
  any two calls, and integrity has no complaint after a run.  Left out are
  descendants and the visibility of a declaration (section 6).
  `LookupLeavesNoTrace`: a question that stands for a name changes no count, name
  or dependent.
* `CompletionAgreesWithLookup`, `ProtectedReachesFamily`,
  `ScopeReachesWhatResolves`, `NamespaceOffersWhatResolves`, `AliasesFollowed`:
  completion walks the graph on its own, and offers what lookup, Ruby's rule for
  protected methods, and the resolver find.

Over an indexer, for every program within the bounds:

* `NamesCovered`, `StringsCovered`: what the file's removal releases, the file
  counted.  The exceptions are named one by one in `CountedOnce` (the target of
  `A ||= value` and what self is mixed in as) and `StringsCountedOnce` (the
  strings of these, the old name in a call of `alias_method`, and the name of a
  method under `module_function`).
* `ScopesKept`: a name in use is counted, and the scope and the nesting of a
  counted name are counted.
* `DependentsComplete`: `name_dependents` has exactly the uses.

`GraphTypeOK`, `IndexerTypeOK` and `TypeOK` are the type invariants.

## 5. Runs

| run | expects | what it asks |
|---|---|---|
| `job_queue` | pass | three workers, four jobs (two pushed by a running job, two that may panic): the safety of the queue and the refinement of the pool; 742 000 states |
| `listing` | pass | two workers and one file system: what the walk returns, and, under fairness, that it ends |
| `mcp_server` | pass | three files, one unreadable and one that may panic, on two workers; one client: the pipeline, the tools and their pages; 48 000 states |
| `incremental` | pass | fourteen code bases, 309 000 states: the incremental graph is the fresh one, and what reads it agrees with it |
| `history` | pass | four code bases whose graph depends on its history or whose counts differ from their uses, 100 000 states: the maps of the graph mirror each other, and the program implements `GraphSpec` |
| `indexers` | pass | every Ruby and RBS program within the bounds: what a file counts, links and records |
| `index_files_hang`, `shared_name`, `emptied_members`, `protected_reach`, `indexers_counts`, `indexers_panics` | violation | section 6 |

**Code bases.**  `MCResolution.tla` and `MCMembers.tla` hold them.  Each is two
to four files, and each file has up to three contents it may change between, or
be deleted; a comment at each says what it is about.  `incremental` runs over
superclasses, mixins, nested scopes, aliases, singleton classes opened, needed
or called (`singleton`, `eigenclass`), variables, receivers, visibility,
`extend`, class methods of an unknown superclass, aliases as owners, constants
that methods promote, and lookup with overriding, aliases of aliases and private
constants.  `history` runs over classes that may inherit from each other,
constants that are assigned and also opened, scopes nobody defines, and
signatures, which count the scopes they name without using them.

**Bounds.**

* *Queue*: two thieves and an owner are the most that meet on one deque, so
  three workers; a batch of two is the smallest of which something stays in the
  thief's deque; four jobs let two be queued while one is run and one pushed.
* *Discovery, server*: two workers, because with liveness every wait is of one
  for the other.  The file system has one of each: a link to, past and into an
  excluded directory, a dangling link, a directory that cannot be opened, a path
  that is neither file nor directory, a job that panics.  `Jobs` is the finite
  set of trails in it.  Three files let the graph be whole, partly merged or
  failed; limits of 2, 3 and 1 make pages end before, at and after the list.
* *Graph*: `MaxEdits` = 3 bounds the changes between two runs of the resolver,
  not their number: histories are unbounded, and the state space is finite
  because what is left of them is.  `MaxCount` = 4 is more than the files of a
  code base can count of one name, and bounds the names that a signature leaves
  behind with each edit: an edit that would count beyond it is not made.
* *Indexers*: `MaxNodes` = 3, `MaxDepth` = 2, `MaxLeaves` = 1: a program is a
  body in a body and one node in it, or a bare visibility call between them.
  The visitors keep no state but the two stacks, of which they read the top and
  the innermost scope, so that what one node does depends on what is around it,
  not on its siblings, except for a visibility call, which does not count as a
  leaf.  `indexers_panics` has no mixins (`MixinKinds` is empty), so that what it
  finds is the collision of definitions and not the unwrap of `SelfHasName`
  (section 6).

`CHECK_DEADLOCK FALSE` appears in `MCIndexFilesHang.cfg`, where the state in
which the caller waits for ever has no successor, and in the configurations of
the indexers, where a program ends.

**Why `history` is a run of its own.**  For classes that inherit from each other
and for promoted constants the graph depends on the order of events in the code
as it is (section 6), so the comparison with a fresh index is not made there.

## 6. Where the code and what is said of it differ

| run | what happens |
|---|---|
| `index_files_hang` | All worker threads die of panics while jobs are left on the injector.  Their boxes hold senders, the calling thread keeps the injector alive, and its `recv` waits for a sender that nobody will drop: the `expect` that would report the panic is not reached. |
| `shared_name` | `unresolve_dependent_references` means to keep the name resolved, but the `unresolve_reference` it calls unresolves it.  A definition that shares the `NameId` is then unresolved with nothing pending. |
| `emptied_members` | `definition_to_declaration_id` looks an instance variable of a class body up where the resolver did not put it.  The definition is taken out of its declaration after the worklist is done, and the declaration stays, with no definition. |
| `protected_reach` | The removal of a declaration leaves it in the descendants of its ancestors.  When the class is back without its superclass, completion offers it the protected methods of that superclass. |
| `indexers_counts` | `FOO \|\|= 1` and `include self` count a name once and use it twice; removing the file releases it twice. |
| `indexers_panics` | Outside any class or module, `def` under `module_function` makes two definitions with one `DefinitionId`: neither has a receiver. |

The code bases of `incremental` and `history` are chosen so that none of these,
nor of the following, occurs in them: those runs show what the code does right.

Met while modelling, with a property that TLC finds violated, and a code base
that shows it (replace `Bases` and the property in `MCResolutionSharedName.cfg`, or
in `MCMembersEmptied.cfg` for the second and third):

* `outlived_scope`, `NamesOfRemovedUnresolved`: a signature inside `module Mix`
  counts the name `Foo` for `class Foo::Qux` and has no definition or reference
  with it.  `names_for_declaration` (`graph.rs` 1395) looks among those only: when
  `Foo` is removed its name stays resolved to it, and the next `resolve` panics
  (`resolution.rs` 1611).
* `alias_receiver`, `AliasOwnersAreNamespaces`: for `Foo.alias_method :b, :a` where
  `Foo = Bar`, `resolve_constant_receiver` (`resolution.rs` 527, 727) does not
  follow the alias, and `add_member` (`graph.rs` 888) panics for what is no
  namespace.
* `inherit` (or any other), `EveryQuestionUntracked`: `nesting_stack_to_name_id`
  returns nothing for a stack that ends in an empty part (`Foo::`), when it has
  registered the rest (`name_api.rs` 39–41); its callers (`graph_api.rs` 138, 807,
  917) return without untracking it, and the names stay counted for ever.
* `SelfHasName`, in `MCIndexersPanics.cfg` as a `PROPERTY` and with `extend` in
  `MixinKinds`: `extend self` in the block of a `Class.new` or `Module.new` outside
  any class or module passes the guard for the top level, and the unwrap of the
  name of the lexical scope (`ruby_indexer.rs` 985) fails.
* `moved_reference`: `names_for_declaration` looks for resolved names in what is
  recorded at the declaration.  A reference merged and not yet resolved is not
  recorded, so its name stays resolved to a declaration that is removed, and the
  next `resolve` panics.
* `tentative`: a constant read through an incomplete chain is resolved at the top
  level for the time being and never looked up again (`IncrementalIsFresh`).
* `shadowed`: a compact definition (`class Foo::Qux`) brings a name that was not
  in the graph, so a `Qux` inside `Foo` that is resolved at the top level is not
  invalidated (`ResolutionIsCurrent`).
* `inherited_scope`: a class whose owner is found through an incomplete chain
  loses its own unit for ancestors to that of the owner.
* `subclass`: the cause of `protected_reach`, without methods.

Met while modelling and without a code base.  *Resolution and invalidation*:

* A promoted constant keeps its kind when what promoted it is gone; which kind a
  constant has that one file opens as a class and another as a module, or
  assigns an alias, depends on the order of the files.  The doc of
  `get_or_create_singleton_class` says "promoted to a `Class`" (`resolution.rs`
  847); the code promotes to a module.
* The visibility of a method defined in two files depends on the order of edits;
  a `private :m` whose method is in another file stays stale or is dropped.
* A method on a constant alias whose target is unknown is dropped.
* A synthetic singleton class is not linearised again when `class << self` comes
  to include a module; a chain of singleton classes may stay partial after one
  run, because creating one is no progress (`ResolveIsIdempotent` compares what
  lasts).
* A definition of an instance variable in `def self.x` is left behind when an
  instance variable of the same name exists.
* `alias $new $old` declares `Object#$new` where `$new = 1` declares `$new`.
* `class << self` in `class Object` declares `<Object>` or `Object::<Object>`.
* The `expect` for a receiver `self` (`resolution.rs` 381, 519) and the unwraps of
  `find_self_receiver_declaration` (`graph.rs` 445–459) fail when the class around
  the method could not be declared.
* The chains of classes that inherit from each other depend on where the first
  linearisation began; `AncestorsKnowDescendants` is about complete chains.

*Indexers*:

* `alias_method` and `module_function` release a string more often than they
  count it; constant visibilities and parameters never release theirs
  (`string_ref.rs` 5–8 says that every use is counted).
* `foo::A::B` indexes `B` without its parent scope.
* Names that are interned and then dropped, and the segments of RBS paths, are
  never released.
* A comment at the end of a line of code is taken for the documentation of the
  next definition.

*Queries and handles*:

* Completion of an expression unwraps its scopes (`query.rs` 471–476): with a
  self given and a scope that is an alias, it panics.
* Inside `module Foo; class Bar`, completion offers the outermost `Qux` also
  where `Foo::Qux` hides it; `ScopeReachesWhatResolves` counts declarations per
  name.
* `rdx_declaration_descendants` unwraps the stale descendants of
  `protected_reach`; `EveryReadAnswers` leaves it out for this reason.
* A handle of a declaration that was removed, or that became a constant, reaches
  an `unreachable!` (`declaration_api.rs` 205) or an unwrap of the owner.
* `rdx_graph_resolve_constant` resolves a name that a document uses without
  recording a reference: when the declaration goes before the next `resolve`,
  the name stays resolved to it.  `Foo::<Foo>` creates a singleton class whose
  unit for ancestors is dropped with the resolver.
* `rdx_graph_visibility` has an `unimplemented!` (`graph_api.rs` 1008) for a method
  that `module_function :m` names, and for an alias of one; `EveryReadAnswers`
  does not ask it.

*Discovery*:

* A link into a subdirectory of an excluded directory is followed; `graph.rs`
  121–123 says that excluded directories are skipped entirely.  An excluded plain
  file is listed all the same when its directory is walked.
* A link to a directory above it is followed again and again; the walk of
  `Termination` is over a tree without one.

## 7. Proofs

Each theorem is for every value of the constants that the named assumptions of
the modules admit:

* `JobQueue`: finitely many jobs, at least one worker, batches of at least one
  job.  `IndexFiles`: a job of the indexing pushes no other.
* `Listing`: `FileSystemAssumption`, the types of the parts of a file system, a
  link that is resolved leads to no link, and a path is an entry of one
  directory; `JobsAreTrails`, the jobs are those that `run` pushes.
* `McpServer`: the types of its constants, finitely many declarations, and
  limits of at least one.  The resolver may panic at any time.
* `Graph`: `NamesAssumption`, the scope and the nesting of a name are names;
  `FilesAssumption`, what a file indexes to is finite, its definitions and
  references carry the identity of the file (`Identified`), and it counts every
  name it uses and the scope and nesting of every name it counts (`Closed`):
  `RubyScopesKept` and `RbsScopesKept` prove this of what the indexers make.
  Nothing is assumed about how often a name is counted.  `PlacesAssumption`,
  about what definitions are nested in, is TLC's; no proof uses it.
* `Visitor`: `PathsAssumption`; `FunctionsAssumption`, the types of a method have
  seven lists of parameters; `OffsetsAssumption`, a path has fewer segments than a
  node has offsets, so that no two uses share one; and any bounds on the nodes,
  depth and leaves of a program.

| module | theorems |
|---|---|
| `JobQueueProofs` | `TypeCorrect`, `CounterCorrect`, `JobsNeverLost`, `LeavesOnlyWhenDone`, `LeftoverOnlyIfAllDied`; `QueueImplementsPool`: the refinement |
| `IndexFilesProofs` | `EveryFileReturned`, `PanicNeverSwallowed` |
| `ListingProofs` | `ListingReturned`, `ExcludedSkipped` |
| `McpServerProofs` | `ToolsAnswerFromWholeGraph`, `WholeGraphPublished`, `PagesAddUp`; `ServerIndexesEverything`: those of the pipeline hold in the server |
| `GraphProofs` | `GraphInvariant`, `IndexStaysExact` |
| `VisitorProofs` | lemmas about the operations of `LocalGraph`, its accounts and the stacks |
| `RubyIndexerProofs` | `RubyStacks`, `RubyScopesKept`, `RubyDependents`, `RubyNamesCovered`, `RubyStringsCovered` |
| `RbsIndexerProofs` | `RbsStacks`, `RbsScopesKept`, `RbsDependents`, `RbsNamesCovered`, `RbsStringsCovered` |

*The queue.*  That a worker leaves only when nothing is left (`ExitMeansDone`)
follows from `inFlight = 0` only because the counter is exact (`Accounting`).
The counter stays exact over a step only if a job is in one place at a time: a
steal must not change the set of outstanding jobs, which needs the queues to be
disjoint (`NothingLost`), and the end of a job must remove one, which needs it to
be in one worker's hands (`HandsDistinct`).  None of these is inductive alone;
the inductive invariant `IndInv` is their conjunction with the type invariant.
`job_queue` checks each of them but `HandsDistinct`, which exists for the proof.
The proof has one lemma per conjunct (`TypeStep`, `JobsKept`, `CounterExact`,
`ExitStep`) and under each a step per action; the actions that move no job are
dealt with together (`BookkeepingStep`), and the cardinality of `Outstanding`
by cases: unchanged, one more, one less.  The refinement needs no further
invariant, nor does `LeftoverMeansAllDied`: jobs stay behind only if every worker
died of a panic.  It follows from `ExitMeansDone` alone, and no run checks it.

*The pipeline.*  A step of `IndexFiles` is a step of the queue or leaves the queue
alone, so `IndInv` holds there (`QueueInvariant`).  On top of it `IndexInv` says
where the result of a job is: in the channel, merged, or among the errors, in one
of them and once (`SentOnce`); and that, unless a worker panicked, what was run
and has not been sent is still being run (`NoneDropped`).  The receiving loop
stops at a closed channel; that it stays closed (`NothingAfterClose`) holds
because without a box no worker can run or find a job.  At the normal return all
workers are joined and exited; then `ExitMeansDone` gives that every job ran, and
`NoneDropped` that every result was sent.

*Discovery.*  `ListingInv` adds to the invariant of the queue that each job is
at a place the walk has to visit, and came into whatever is excluded by a link
or a request (`JobsVisit`); that what the channels hold was sent by a job about
its place (`MessagesFromJobs`); and that a job that was started has pushed and
sent all it has to, or is still being run, or a worker has panicked
(`JobsSettle`). The first two bound what is returned from above.  From below,
when the workers are gone without a panic `ExitMeansDone` says that every job
ran, so the places of jobs are closed under what a directory pushes; `Reachable`
is the least set closed so (`ReachableClosed`, `ReachableLeast`), hence every
place in it was visited (`WalkComplete`).  What lies below a directory is a
fixed point too, and the lemmas about it need that a path is an entry of one
directory only.  An attempt at this proof failed on requested paths and on
dangling links for a good reason: the first form of `ReturnsListing` counted
what is found in directories and not what is visited itself.  It now counts both
(`Reachable \cup Found`).

*The server.*  `index_files` is over before the graph is published, and it does
not start again (`DoneIsFinal`): so the graph published is the whole one
(`PublishedWhole`), and every answer with content, computed under the read lock,
is computed from it.  Hence all the pages of one client are cut from one list;
`PagesFollow` says that what the client has received is a beginning of that list,
and that a page is empty only after its end.  A client that wants no more has
therefore the whole list, in order, with nothing twice (`PagesAddUp`).

*The graph.*  `IndexStaysExact` claims of each name what the counts of the files
allow (`IndexMatches`).  A name that no file counts less often than it uses it is
never removed while a document has it (`Covered`); a name that every file counts
as often as it uses it has, besides, nothing left of a document that went
(`Exact`).  Of the names that the code undercounts nothing is claimed but that the
tables and the users of names are of documents present.

The index adds up to the documents only between changes: a document
leaves `docs` when its change begins, and its data leaves when it ends.
`GraphInv` therefore says that the index matches the documents and the version
that is leaving (`change.old`); invalidation touches none of its fields, and only
`Finish` moves it, by `RemoveIndex` and then `ExtendIndex`.  Both rest on the
definitions of two files being disjoint, on counts being cardinalities of the
copies of a name (`Copies`, one for each time a document counts it; `CopiesAddUp`),
of which a removal takes one for each use (`NamesLeft`), and on the entries of
`name_dependents` being in the order of offsets, an order that taking a file out
or adding one at the end keeps (`OrderByOffset`, `OrderOfPositions`, `UsersKept`).  `IndexStaysExact` is about
`GraphSpec`; that the whole program implements `GraphSpec` is checked by
`history`.

*The indexers.*  An operation on a local graph only makes it grow (`Grown`) and
keeps it `Good`: closed, so that the scope, the nesting and the receiver of all it
mentions are in it, and with `name_dependents` exactly the uses, unless an
assertion of the code has failed.  `VisitorInv` adds what the stacks hold:
entries are definitions that are in the graph, of a kind that can be opened, made
at an offset before the current node.  The last part is why they keep their
kind: two definitions share an identifier only if they share the offset, and a
node makes none at the offset of an earlier one.  Operator by operator, a visit
goes from a graph that has grown to one that has grown further (`Made`), and node
by node the invariant is kept.  `ScopesKept` and `DependentsComplete` follow,
since a name that is in a closed graph is counted at least once.

*The accounts of the indexers.*  `NamesCovered` and `StringsCovered` compare what a
file counted with a sum over all that it holds, and an operation often moves only
one side: `add_name` counts, and the definition or the reference that uses the
name is added later, or never.  So the proof keeps accounts.  The balance of a
name is what the graph counts of it less what removal will release
(`NameBalance`, `StringBalance`), and the invariant says that no balance is
negative (`Balanced`).  `Turn(k, l, o, U, n, T)` says that from the graph k, with
the name o and the strings U counted ahead, the visit came to l with n and T
counted ahead; `Grown` is the case with nothing ahead at either end, and `Spare`
the one with something ahead at the end.  Counting adds to what is ahead, and
adding a definition or a reference spends it, if there is enough (`Enough`).
What is counted once and released twice does not balance: it has to be shown,
where the code does so, that it is one of the exceptions `CountedOnce` and
`StringsCountedOnce`, and that an exception remains one (`CountedOnceGrows`,
which is why the graph also `Extends` the earlier one).  The uses are counted as
cardinalities, so that two of them must differ: this is where the proof needs
that every definition and reference of a node has an offset of its own.

The segments of a path are added by a recursive function.  `TypeNameMade` and
`ConstantReferenceMade` prove by induction up to its length (`UpTo`) that the
function exists and what each of its values adds.

*Model-checked only.*

* Liveness (`Termination`, `CallerReturns`, `ClientServed`): it needs ENABLED and
  fairness.
* The resolver, the queries and the handles declare recursive operators
  (linearisation, alias chains, the passes), which the prover does not handle.
  Their properties, and `ImplementsGraph`, are therefore checked only.  As
  recursive functions they would take graphs for arguments and exist only where
  the recursion is known to end; the passes end because one of them makes no
  progress, of which the code has no measure.

## 8. What is not modelled

* *Ruby extension, marshalling and release of memory, command line and reports,
  support values, test support*: one call at a time over the components above,
  with no state of their own.
* *Comments, diagnostics, signatures and method references* in the graph: stored
  and read, and nothing depends on them.  The indexers make method references,
  and these are counted in `LocalGraph`; the graph of `Graph.tla` has none.
* *Strings* of the global graph: `LocalGraph` counts them, and states the
  contract; their table in the graph is not there.
* *Searches by a string, require paths, keywords and the completion of
  arguments*: pure functions of their input, in the plan.
* *Crossbeam, Prism, the RBS parser, rmcp, the file system*: external, modelled
  by how the code uses them.
