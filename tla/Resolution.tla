---------------------------- MODULE Resolution ----------------------------
(***************************************************************************)
(* The resolver of resolution.rs over the graph of Graph.tla.  It borrows  *)
(* the graph mutably for the whole of resolve(), so a run is one action.   *)
(***************************************************************************)
EXTENDS Members

CONSTANT UriHash   \* [URI -> Nat]: the order of the UriIds, which is not the one of the URIs

ASSUME UriHashAssumption ==
  /\ \A files \in Range(CodeBases) : DOMAIN files \cup {BuiltInUri} \subseteq DOMAIN UriHash
  /\ UriHash \in [DOMAIN UriHash -> Nat] /\ IsInjective(UriHash)

-----------------------------------------------------------------------------
(* A run of the resolver.                                                   *)

NameDepth ==
  LET depth[n \in DOMAIN Names] ==
        IF Names[n].top THEN 1
        ELSE 1 + (IF Parent(n) = NoName THEN 0 ELSE depth[Parent(n)])
               + (IF Nesting(n) = NoName THEN 0 ELSE depth[Nesting(n)])
  IN  depth

(* By depth of the name, then by URI, then by offset.                       *)
Before(x, y) ==
  LET key(u) == <<NameDepth[NameOf(u)], UriOf(u), OffsetOf(u)>>
      a == key(x)
      b == key(y)
  IN  \/ a[1] < b[1]
      \/ a[1] = b[1] /\ a[2] < b[2]
      \/ a[1] = b[1] /\ a[2] = b[2] /\ a[3] < b[3]

Pending(g, tag) == {u[2] : u \in {v \in g.pending : v[1] = tag}}

(* The definitions of the pending work: those with a name, methods defined  *)
(* on self, and the others, in the order of the hashes of their URIs and    *)
(* then of their offsets.                                                   *)
PendingDefinitions(g) == Pending(g, "def") \cap DOMAIN g.defs
SingletonMethods(g) ==
  {x \in PendingDefinitions(g) : g.defs[x].kind = "method" /\ On(g.defs[x], "self")}
Others(g) ==
  LET before(x, y) ==
        \/ UriHash[UriOf(x)] < UriHash[UriOf(y)]
        \/ UriOf(x) = UriOf(y) /\ OffsetOf(x) < OffsetOf(y)
      others == PendingDefinitions(g) \ SingletonMethods(g)
  IN  InOrder(others \ Named(others), before)

(* prepare_units: what is left of the pending work, definitions before      *)
(* references before methods on self before ancestors; the last two are     *)
(* taken in the order given.                                                *)
PrepareUnits(g, methods, ancestors) ==
  [queue |-> Tagged("def", InOrder(Named(PendingDefinitions(g)), Before))
             \o Tagged("ref", InOrder(Pending(g, "ref") \cap g.refs, Before))
             \o Tagged("def", methods)
             \o Tagged("anc", <<Object, ModuleId, ClassId>> \o ancestors),
   progress |-> TRUE] @@ [g EXCEPT !.pending = {}]

(* The orders in which hash maps may have left the pending work.            *)
MethodOrders(g) == SetToSeqs(SingletonMethods(g))
AncestorOrders(g) == SetToSeqs(Pending(g, "anc") \cap DOMAIN g.decls)

(* One pass over the units in the queue; what they queue waits for the next *)
(* pass.                                                                    *)
Pass(g) == FoldLeft(LAMBDA h, unit : HandleUnit(h), [g EXCEPT !.progress = FALSE], g.queue)

(* mutated form: one pass.                                                  *)
Passes_Once(g) == Pass(g)

RECURSIVE Passes(_)
Passes(g) == IF ~ g.progress \/ g.queue = <<>> THEN g ELSE Passes(Pass(g))

(* What is left in the queue is pending again; what the remaining           *)
(* definitions add to the queue is lost with the resolver.                  *)
PutBack(h) == [h EXCEPT !.pending = ToSet(h.queue), !.queue = <<>>]
Released(h) == Restrict(h, DOMAIN h \ {"queue", "progress"})

FixedPoint(g, methods, ancestors) == PutBack(Passes(PrepareUnits(g, methods, ancestors)))
ResolveGraph(g, methods, ancestors) ==
  Released(HandleRemainingDefinitions(FixedPoint(g, methods, ancestors), Others(g)))

-----------------------------------------------------------------------------
(* The program: documents change, and the resolver runs between changes.    *)

CONSTANTS
  MaxEdits,   \* how many documents may change between two runs of the resolver
  MaxCount    \* no document comes or changes while a name is counted more often: a file
              \* that counts more than it uses leaves the rest behind each time it goes

VARIABLE edits      \* how many have, the built-in document at first

ResolutionInit == GraphInit /\ edits = 1

Resolve ==
  /\ Idle
  /\ \E methods \in MethodOrders(graph), ancestors \in AncestorOrders(graph) :
       graph' = ResolveGraph(graph, methods, ancestors)
  /\ edits' = 0
  /\ UNCHANGED <<codeBase, change, detach, visited, worklist>>

Edit ==
  /\ edits < MaxEdits
  /\ \/ ConsumeDocumentChanges /\ \A n \in DOMAIN Names : graph.count[n] <= MaxCount
     \/ DeleteDocument
  /\ edits' = edits + 1

Invalidating == (InvalidateStep \/ Finish) /\ UNCHANGED edits

ResolutionNext == Edit \/ Invalidating \/ Resolve
rvars == <<codeBase, graph, change, detach, visited, worklist, edits>>
Spec == ResolutionInit /\ [][ResolutionNext]_rvars

-----------------------------------------------------------------------------
(* What a graph built from scratch holds.                                   *)

Contents(files) == {f \in [DOMAIN files -> (UNION Range(files)) \cup {NoFile}] :
                      \A u \in DOMAIN files : f[u] \in files[u] \cup {NoFile}}

IndexAll(f) ==
  FoldLeft(LAMBDA g, u : IF f[u] = NoFile THEN g ELSE Extend(g, u, f[u]),
           NewGraph, InOrder(DOMAIN f, <))

Fresh == [f \in UNION {Contents(files) : files \in Range(CodeBases)} |->
            LET g == IndexAll(f) IN ResolveGraph(g, SetToSeq(SingletonMethods(g)), <<>>)]

Current == [u \in DOMAIN Files |-> IF u \in DOMAIN graph.docs THEN graph.docs[u] ELSE NoFile]

Clean == Idle /\ edits = 0

-----------------------------------------------------------------------------
(* Properties.                                                              *)

DeclarationOK(d, decl) ==
  /\ decl.kind \in Namespaces \cup {"constant", "alias", "method", "ivar", "cvar", "gvar"}
  /\ decl.ancestors.state \in {"complete", "cyclic", "partial"}
  /\ decl.kind \in Namespaces \/ (decl.members = <<>> /\ decl.descendants = {} /\ decl.singleton = None)

DefinitionRecords == UNION {Range(l.defs) : l \in LocalGraphs}

(* The shape of the graph: every entity of graph.rs refers to entities of   *)
(* the right sort, and only namespaces have members and descendants.        *)
GraphTypeOK ==
  /\ \A d \in DOMAIN graph.decls : DeclarationOK(d, graph.decls[d])
  /\ \A n \in DOMAIN Names : graph.count[n] \in Nat
  /\ \A u \in graph.pending : u[1] \in {"def", "ref", "anc"}
  /\ graph.defs \in [DOMAIN graph.defs -> DefinitionRecords]
  /\ edits \in 0..MaxEdits

(***************************************************************************)
(* After the resolver ran, the owner of every declaration is declared and  *)
(* has it as a member, as check_integrity demands.                         *)
(***************************************************************************)
OwnersKnowMembers ==
  Clean =>
    \A d \in DOMAIN graph.decls \ {Object} :
      /\ Declared(graph, Owner(d))
      /\ IsNamespace(graph, Owner(d)) =>
           IF IsSingleton(graph, d) THEN graph.decls[Owner(d)].singleton = d
           ELSE MemberOf(graph, Owner(d), Last(d)) = d

(***************************************************************************)
(* Every step of the program is one of Graph.tla or leaves the graph alone: *)
(* a run of the resolver, whatever it declares, links and resolves, touches *)
(* neither the documents nor their counts and reverse index.                *)
(***************************************************************************)
ImplementsGraph == GraphSpec

(***************************************************************************)
(* Invalidation never loses work: a definition or a reference whose name   *)
(* is unresolved has a unit pending, so that the next run retries it.      *)
(***************************************************************************)
NothingForgotten ==
  Idle =>
    /\ \A x \in Named(DOMAIN graph.defs) :
         Resolved(graph, NameOf(x)) \/ <<"def", x>> \in graph.pending
    /\ \A r \in graph.refs :
         Resolved(graph, NameOf(r)) \/ <<"ref", r>> \in graph.pending

(***************************************************************************)
(* After the resolver ran, a reference is recorded at the declaration its  *)
(* name resolves to and nowhere else.                                      *)
(***************************************************************************)
ReferencesRecorded ==
  Clean =>
    \A d \in DOMAIN graph.decls :
      graph.decls[d].refs = {r \in graph.refs : graph.resolved[NameOf(r)] = d}

(***************************************************************************)
(* After the resolver ran, looking a referenced constant up again, in the  *)
(* scopes and ancestors the graph has now, finds what it resolved to.      *)
(***************************************************************************)
ResolutionIsCurrent ==
  Clean =>
    \A n \in {NameOf(r) : r \in graph.refs} \ {NameOf(x) : x \in DOMAIN graph.defs} :
      ResolveConstant(UnresolveNames(graph, {n}), n).decl = graph.resolved[n]

(***************************************************************************)
(* After the resolver ran, a namespace is among the descendants of each of *)
(* its ancestors: invalidating an ancestor reaches it.                     *)
(***************************************************************************)
AncestorsKnowDescendants ==
  Clean =>
    \A d \in DOMAIN graph.decls :
      graph.decls[d].ancestors.state = "complete" =>
        \A a \in CompleteAncestors(graph.decls[d]) :
          Declared(graph, a) /\ d \in graph.decls[a].descendants

(***************************************************************************)
(* Between two calls a singleton class and the object it is attached to    *)
(* know each other: neither outlives the other.                            *)
(***************************************************************************)
SingletonsAttached ==
  Idle =>
    \A d \in DOMAIN graph.decls :
      /\ IsSingleton(graph, d) => SingletonOf(graph, Owner(d)) = d
      /\ SingletonOf(graph, d) # None => Declared(graph, SingletonOf(graph, d))

(***************************************************************************)
(* After the resolver ran, a method, an attribute, a variable or a method  *)
(* alias is recorded in one declaration or waits for its owner, never both *)
(* (the next run would record it twice) and never neither (no run would    *)
(* place it).  A method on a constant that cannot be a module has no owner.*)
(***************************************************************************)
Ownerless(x) ==
  /\ On(graph.defs[x], "name")
  /\ Resolved(graph, graph.defs[x].receiver[2])
  /\ graph.decls[graph.resolved[graph.defs[x].receiver[2]]].kind = "constant"
MembersPlaced ==
  Clean =>
    \A x \in DOMAIN graph.defs \ Named(DOMAIN graph.defs) :
      LET holders == {d \in DOMAIN graph.decls : Contains(graph.decls[d].defs, x)}
      IN  \/ Cardinality(holders) = IF <<"def", x>> \in graph.pending THEN 0 ELSE 1
          \/ holders = {} /\ (Ownerless(x) \/ graph.defs[x].kind = "mvis")

(***************************************************************************)
(* After the resolver ran, a class that makes a method private which it    *)
(* inherits has a declaration of its own that says so: the visibility of   *)
(* the inherited method stays what it is for everyone else.                *)
(***************************************************************************)
VisibilityApplied ==
  Clean =>
    \A x \in DOMAIN graph.defs :
      LET owner == graph.resolved[NameOf(graph.defs[x].nesting)]
          inherited == {a \in CompleteAncestors(graph.decls[owner]) :
                          MemberOf(graph, a, graph.defs[x].str) # None}
      IN  graph.defs[x].kind = "mvis" /\ owner # None /\ inherited # {} =>
            \E d \in {MemberOf(graph, owner, graph.defs[x].str)} :
              d # None /\ Contains(graph.decls[d].defs, x)

(***************************************************************************)
(* After the resolver ran, the singleton class of a class inherits from    *)
(* the singleton class of each class it inherits from, so that a class     *)
(* method is found on every subclass.                                      *)
(***************************************************************************)
SingletonsFollowClasses ==
  Clean =>
    \A d \in DOMAIN graph.decls :
      graph.decls[d].kind = "class" /\ graph.decls[d].singleton # None =>
        \A a \in CompleteAncestors(graph.decls[d]) :
          graph.decls[a].kind = "class" /\ graph.decls[a].singleton # None =>
            graph.decls[a].singleton \in CompleteAncestors(graph.decls[graph.decls[d].singleton])

(* Placeholders are not compared, nor members that lost their definitions,  *)
(* nor singleton classes that only were needed.                             *)
Emptied(g, d) == g.decls[d].kind \in {"method", "ivar", "gvar"} /\ g.decls[d].defs = <<>>
Needed(g, d) ==
  \/ g.decls[d].defs # <<>> \/ g.decls[d].refs # {}
  \/ \E m \in Members(g, d) : Declared(g, m) /\ ~ Emptied(g, m)
Defined(g) ==
  {d \in DOMAIN g.decls : /\ g.decls[d].kind # "todo"
                          /\ ~ Emptied(g, d)
                          /\ g.decls[d].kind = "singleton" => Needed(g, d)}
Summary(g) ==
  [d \in Defined(g) |->
     [kind |-> g.decls[d].kind, defs |-> ToSet(g.decls[d].defs),
      refs |-> g.decls[d].refs, members |-> Members(g, d) \cap Defined(g),
      singleton |-> {g.decls[d].singleton} \cap Defined(g),
      ancestors |-> g.decls[d].ancestors]]

(***************************************************************************)
(* After any sequence of changes, resolving gives the declarations, their  *)
(* members, references and ancestors that indexing the same documents from *)
(* scratch gives: the graph does not depend on its history.                *)
(***************************************************************************)
IncrementalIsFresh == Clean => Summary(graph) = Summary(Fresh[Current])

(***************************************************************************)
(* Resolving again without a change in between changes nothing, but for    *)
(* singleton classes: creating one is no progress, so the passes may stop  *)
(* before its chain is complete.                                           *)
(***************************************************************************)
Lasting(g) ==
  [resolved |-> g.resolved,
   decls |-> [d \in {e \in DOMAIN g.decls : ~ IsSingleton(g, e)} |-> [g.decls[d] EXCEPT !.descendants = {}]],
   pending |-> {u \in g.pending : u[1] # "anc"}]
ResolveIsIdempotent ==
  [][edits = 0 /\ edits' = 0 => Lasting(graph)' = Lasting(graph)]_rvars

-----------------------------------------------------------------------------
(* What the comments, assertions and tests say and the code does not do.    *)

(***************************************************************************)
(* A declaration goes with its last definition: none stays that nothing in *)
(* the documents defines.                                                  *)
(***************************************************************************)
EmptyDeclarationsRemoved == Idle => \A d \in DOMAIN graph.decls : ~ Emptied(graph, d)

(***************************************************************************)
(* A declaration that goes is no longer what any name resolves to.         *)
(***************************************************************************)
NamesOfRemovedUnresolved ==
  Idle => \A n \in DOMAIN Names : Resolved(graph, n) => Declared(graph, graph.resolved[n])

(***************************************************************************)
(* A method alias is declared in a namespace: what its receiver resolves   *)
(* to, once constants are resolved, is one.                                *)
(***************************************************************************)
AliasOwnersAreNamespaces ==
  Idle =>
    LET g == FixedPoint(graph, SetToSeq(SingletonMethods(graph)), <<>>)
    IN  \A x \in ToSet(Others(graph)) :
          graph.defs[x].kind = "malias" =>
            \E p \in {MethodAliasOwner(g, x)} : p.owner = None \/ IsNamespace(p.g, p.owner)
=============================================================================
