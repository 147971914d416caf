----------------------------- MODULE McpServer -----------------------------
(***************************************************************************)
(* The MCP server of rust/rubydex-mcp/src/server.rs: a background thread   *)
(* lists, indexes and resolves the code base, then publishes the graph, or *)
(* the panic that ended the work, under the write lock of `state`; the     *)
(* main thread answers the tool calls of one client under the read lock.   *)
(* The indexing of the files is the one of IndexFiles.  Tool calls are run *)
(* by a current-thread runtime, hence one at a time.                       *)
(* The listing, which is the module Listing, is over when this one begins. *)
(*                                                                         *)
(* A graph is the set of the files that were merged into it; what the      *)
(* files declare is a constant, as are the declarations' relations.        *)
(***************************************************************************)
EXTENDS IndexFiles, SequencesExt

CONSTANTS
    Declares,       \* Declares[f]: the declarations that file f defines
    KindOf,         \* KindOf[d]: "class", "module", "method" or "constant"
    Inherits,       \* <<d, e>>: namespace d is among the descendants of e
    Mentions,       \* Mentions[f]: the declarations that constants of f name
    DefaultLimit,   \* 50
    MaxLimit,       \* the largest page of each tool (100, 500, 200)
    Sessions        \* what the client may want: [tool, arg, limit, mode]

Paged == {"search", "descendants", "references"}
Tools == Paged \cup {"declaration", "file", "stats"}

Declarations == DOMAIN KindOf
Kinds == {"class", "module", "method", "constant"}
NamespaceKinds == {"class", "module"}
NoFilter == "any"
MatchModes == {"exact", "fuzzy"}    \* no mode at all is "fuzzy"
NoUri == "no URI"                   \* a path that cannot be converted to one

ASSUME ServerAssumption ==
    /\ Declares \in [Jobs -> SUBSET Declarations]
    /\ KindOf \in [Declarations -> Kinds]
    /\ IsFiniteSet(Declarations)
    /\ Inherits \subseteq Declarations \X Declarations
    /\ Mentions \in [Jobs -> SUBSET Declarations]
    /\ DefaultLimit \in Nat \ {0}
    /\ MaxLimit \in [Paged -> Nat \ {0}]
    /\ \A s \in Sessions : s.tool \in Tools /\ s.limit \in Nat

-----------------------------------------------------------------------------
(* The tools, as functions of the graph g (a set of files).                *)

Declared(g) == UNION {Declares[f] : f \in g}

\* mutated form: a page is cut before the filter is applied
Paginate_CutFirst(items, keep, offset, limit) ==
    LET all == SetToSeq(items)
        end == IF offset + limit < Len(all) THEN offset + limit ELSE Len(all)
    IN  [results |-> SelectSeq(SubSeq(all, offset + 1, end), LAMBDA i : i \in keep),
         total |-> Cardinality(items \cap keep)]

\* paginate!: the items that pass the filter, in the order the graph has them
\* (any one, but the same at each call), counted, then skipped and taken.
Paginate(items, keep, offset, limit) ==
    LET filtered == SetToSeq(items \cap keep)
        end == IF offset + limit < Len(filtered) THEN offset + limit ELSE Len(filtered)
    IN  [results |-> SubSeq(filtered, offset + 1, end), total |-> Len(filtered)]

\* params.limit.filter(|&l| l > 0).unwrap_or(default).min(max); 0 also stands
\* for no limit at all.
Limit(tool, asked) ==
    LET wanted == IF asked = 0 THEN DefaultLimit ELSE asked
    IN  IF wanted < MaxLimit[tool] THEN wanted ELSE MaxLimit[tool]

Error(type) == [error |-> type]

\* search_declarations, with a query that matches every name.
SearchDeclarations(g, mode, kind, offset, limit) ==
    IF mode \notin MatchModes THEN Error("invalid match_mode")
    ELSE Paginate(Declared(g), {d \in Declared(g) : kind \in {NoFilter, KindOf[d]}}, offset, limit)

\* lookup_declaration!, require_namespace! and the descendants of a namespace,
\* itself included.
GetDescendants(g, d, offset, limit) ==
    IF d \notin Declared(g) THEN Error("not_found")
    ELSE IF KindOf[d] \notin NamespaceKinds THEN Error("invalid_kind")
    ELSE Paginate({d} \cup {e \in Declarations : <<e, d>> \in Inherits}, Declared(g), offset, limit)

FindConstantReferences(g, d, offset, limit) ==
    IF d \notin Declared(g) THEN Error("not_found")
    ELSE Paginate({f \in Jobs : d \in Mentions[f]}, g, offset, limit)

GetDeclaration(g, d) ==
    IF d \notin Declared(g) THEN Error("not_found")
    ELSE [kind |-> KindOf[d], definitions |-> {f \in g : d \in Declares[f]}]

GetFileDeclarations(g, f) ==
    IF f = NoUri THEN Error("invalid_path")
    ELSE IF f \notin g THEN Error("not_found")
    ELSE [declarations |-> Declares[f]]

CodebaseStats(g) ==
    [files |-> Cardinality(g), declarations |-> Cardinality(Declared(g)),
     breakdown |-> [k \in Kinds |-> Cardinality({d \in Declared(g) : KindOf[d] = k})]]

Answer(g, s, offset) ==
    CASE s.tool = "search" -> SearchDeclarations(g, s.mode, s.arg, offset, Limit("search", s.limit))
      [] s.tool = "descendants" -> GetDescendants(g, s.arg, offset, Limit("descendants", s.limit))
      [] s.tool = "references" -> FindConstantReferences(g, s.arg, offset, Limit("references", s.limit))
      [] s.tool = "declaration" -> GetDeclaration(g, s.arg)
      [] s.tool = "file" -> GetFileDeclarations(g, s.arg)
      [] s.tool = "stats" -> CodebaseStats(g)

-----------------------------------------------------------------------------
(* The two threads and the client.                                         *)

VARIABLES
    indexer,    \* where the background thread is
    lock,       \* who holds the lock of `state`: "free", "read" or "write"
    state,      \* ServerState: [ready, graph, failed]
    session,    \* what the client wants, told with the call that is answered
    call,       \* "idle", "asked", "reading" or "over"
    answers,    \* history: the answers so far, oldest first: [offset, reply]
    received    \* the results that the client has, of all the pages it was sent

serverVars == <<indexer, lock, state, session, call, answers, received>>
mcpVars == <<allVars, serverVars>>

Starting == [ready |-> FALSE, graph |-> {}, failed |-> FALSE]

McpInit ==
    /\ IndexInit
    /\ indexer = "indexing"
    /\ lock = "free"
    /\ state = Starting
    /\ session = {}
    /\ call = "idle"
    /\ answers = <<>>
    /\ received = <<>>

\* mutated form: a panic ends the thread, and nobody is told.
Caught_Never == "ended"

\* catch_unwind: where the thread goes on after a panic of any phase.
Caught == "failing"

\* index_files has returned the graph it filled, or panicked.
Indexed ==
    /\ indexer = "indexing"
    /\ \/ caller = "done" /\ indexer' = "resolving"
       \/ caller = "panicked" /\ indexer' = Caught
    /\ UNCHANGED <<allVars, lock, state, session, call, answers, received>>

\* Resolver::resolve, on a graph that no other thread sees, may panic too.
Resolve ==
    /\ indexer = "resolving"
    /\ indexer' \in {"publishing", Caught}
    /\ UNCHANGED <<allVars, lock, state, session, call, answers, received>>

\* state.write()
LockWrite ==
    /\ indexer \in {"publishing", "failing"}
    /\ lock = "free"
    /\ lock' = "write"
    /\ UNCHANGED <<allVars, indexer, state, session, call, answers, received>>

\* mutated form: a failed run publishes the graph it has
Publish_Always ==
    /\ lock = "write"
    /\ state' = [state EXCEPT !.ready = TRUE, !.graph = Elements(merged)]
    /\ lock' = "free"
    /\ indexer' = "ended"
    /\ UNCHANGED <<allVars, session, call, answers, received>>

\* state.graph = Some(graph), or state.error = Some(message)
Publish ==
    /\ lock = "write"
    /\ IF indexer = "publishing"
         THEN state' = [state EXCEPT !.ready = TRUE, !.graph = Elements(merged)]
         ELSE state' = [state EXCEPT !.failed = TRUE]
    /\ lock' = "free"
    /\ indexer' = "ended"
    /\ UNCHANGED <<allVars, session, call, answers, received>>

Results(reply) == IF "results" \in DOMAIN reply THEN reply.results ELSE <<>>

\* The client asks again while the server is indexing, and asks for the next
\* page, after the results it has, while there are more than it has seen; it
\* gives up at an empty page.
WantsMore ==
    \/ answers = <<>>
    \/ LET reply == Last(answers).reply
       IN  \/ reply = Error("indexing")
           \/ /\ "total" \in DOMAIN reply
              /\ reply.results # <<>>
              /\ Len(received) < reply.total

\* The history is of the answers that tell something new.
Remember(a) == IF answers # <<>> /\ Last(answers) = a /\ a.reply = Error("indexing")
               THEN answers ELSE Append(answers, a)

Ask ==
    /\ call = "idle"
    /\ call' = IF WantsMore THEN "asked" ELSE "over"
    /\ UNCHANGED <<allVars, indexer, lock, state, session, answers, received>>

\* ensure_graph_ready!: state.read()
LockRead ==
    /\ call = "asked"
    /\ lock = "free"
    /\ lock' = "read"
    /\ call' = "reading"
    /\ UNCHANGED <<allVars, indexer, state, session, answers, received>>

\* What the call, whose parameters are those of session s, is answered.
Reached(s) ==
    IF state.failed THEN Error("indexing_failed")
    ELSE IF ~ state.ready THEN Error("indexing")
    ELSE Answer(state.graph, s, Len(received))

\* The guard is dropped on return; the client then has one answer more.
Returned(s) ==
    /\ call = "reading"
    /\ answers' = Remember([offset |-> Len(received), reply |-> Reached(s)])
    /\ received' = received \o Results(Reached(s))
    /\ lock' = "free"
    /\ call' = "idle"
    /\ UNCHANGED <<allVars, indexer>>

\* ensure_graph_ready! and the body of a tool.
Tool(s) == Returned(s) /\ UNCHANGED state

Unasked == [tool |-> "none"]

\* What the client wants matters once the server is ready.
Reply ==
    \/ \E s \in IF session = {} THEN Sessions ELSE session :
        /\ state.ready
        /\ Tool(s)
        /\ session' = {s}
    \/ /\ ~ state.ready
       /\ Tool(Unasked)
       /\ UNCHANGED session

IndexStep == (CallerStep \/ \E w \in Workers : Indexer(w)) /\ UNCHANGED serverVars

Background == Indexed \/ Resolve \/ LockWrite \/ Publish

\* The client has what it wanted and the background thread has ended.
Quiescent ==
    /\ call = "over" /\ indexer = "ended" /\ Finished
    /\ UNCHANGED mcpVars

McpNext ==
    \/ IndexStep \/ Background \/ Quiescent
    \/ Ask \/ LockRead \/ Reply

\* Threads are scheduled, and a thread that waits for the lock gets it; the
\* client does ask.
McpFairness ==
    /\ WF_mcpVars(CallerStep /\ UNCHANGED serverVars)
    /\ \A w \in Workers : WF_mcpVars(Indexer(w) /\ UNCHANGED serverVars)
    /\ WF_mcpVars(Indexed \/ Resolve \/ Publish)
    /\ SF_mcpVars(LockWrite)
    /\ SF_mcpVars(LockRead)
    /\ WF_mcpVars(Ask \/ Reply)

McpSpec == McpInit /\ [][McpNext]_mcpVars /\ McpFairness

-----------------------------------------------------------------------------
(* Properties *)

\* What every answer from a graph would be if all the files were in it.
WholeGraph == Initial \ Unreadable

\* A tool never answers from a graph that is still being filled: a page is the
\* one at its offset in the graph of every readable file; when index_files
\* panicked there is no such graph, and no page.
AnswersFromWholeGraph ==
    \A a \in ToSet(answers) : a.reply \notin {Error("indexing"), Error("indexing_failed")} =>
        \E s \in session : a.reply = Answer(WholeGraph, s, a.offset)

\* All that a tool lists, on however many pages.
Wanted(s) ==
    CASE s.tool = "search" -> {d \in Declared(WholeGraph) : s.arg \in {NoFilter, KindOf[d]}}
      [] s.tool = "descendants" ->
            Declared(WholeGraph) \cap ({s.arg} \cup {d \in Declarations : <<d, s.arg>> \in Inherits})
      [] s.tool = "references" -> {f \in WholeGraph : s.arg \in Mentions[f]}

\* The pages that a client was sent, whatever the limits it asked for, are
\* together the whole list, with nothing twice.
PagesComplete ==
    call = "over" /\ "total" \in DOMAIN Last(answers).reply =>
        \A s \in session : IsInjective(received) /\ ToSet(received) = Wanted(s)

\* The client gets an answer other than "indexing", and all the pages of it,
\* also when indexing or resolving panicked: it is told that, and not to retry.
ClientServed == <>(call = "over")
=============================================================================
