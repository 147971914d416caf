------------------------------- MODULE Graph -------------------------------
(***************************************************************************)
(* The global graph of model/graph.rs: the documents of a Ruby code base,  *)
(* the declarations their definitions add up to, the names that resolve to *)
(* declarations, and what has to be invalidated when a document changes.   *)
(* The graph is one record; every method of Graph that the resolver also   *)
(* calls is an operator from graph to graph.  The module is about          *)
(* everything that is defined: classes, modules and singleton classes,     *)
(* constants and their aliases, methods, variables and visibility.         *)
(*                                                                         *)
(* An identifier is the value the code hashes: a declaration is its fully  *)
(* qualified name, a sequence of strings; a definition or a constant       *)
(* reference is <<uri, offset, name>>, a definition that has no name of a  *)
(* constant has NoName there; URIs and offsets are numbers, in the order   *)
(* the resolver sorts them.                                                *)
(***************************************************************************)
EXTENDS Naturals, FiniteSets, Sequences, SequencesExt, Functions

CONSTANTS
  Names,     \* [NameId -> [str, parent, top, attached, nesting]]: the Name behind each NameId
  CodeBases, \* [name -> [URI -> the local graphs that its contents may index to]]
  BuiltIn,   \* the local graph of the document rubydex:built-in
  NoName     \* no parent scope, no nesting, no target

BuiltInUri == 99            \* "rubydex:built-in" sorts after every "file:" URI
None == <<>>                \* no declaration, no definition, no receiver
Object == <<"Object">>      \* stands for BasicObject and Kernel as well
ModuleId == <<"Module">>
ClassId == <<"Class">>
BuiltInIds == {Object, ModuleId, ClassId}

Str(n) == Names[n].str
Parent(n) == Names[n].parent
Nesting(n) == Names[n].nesting
Attached(n) == Names[n].attached    \* the singleton class of its parent scope

UriOf(x) == x[1]
OffsetOf(x) == x[2]
NameOf(x) == x[3]

ASSUME NamesAssumption ==
  /\ NoName \notin DOMAIN Names
  /\ \A n \in DOMAIN Names : {Parent(n), Nesting(n)} \subseteq DOMAIN Names \cup {NoName}

-----------------------------------------------------------------------------
(* What a local graph holds and contributes: its definitions, its           *)
(* references, and the names of the file with their reference counts.  A    *)
(* name may be there without a use (a scope in a qualified name of RBS), or *)
(* be used more often than it is counted (the name of `FOO ||= 1`).         *)

Named(S) == {x \in S : NameOf(x) # NoName}
Uses(l) == Named(DOMAIN l.defs) \cup l.refs
UsesOf(S, n) == {x \in S : NameOf(x) = n}
LocalNames(l) == {NameOf(x) : x \in Uses(l)}

RefCount(l, n) == IF n \in DOMAIN l.count THEN l.count[n] ELSE 0

(* What LocalGraph states of every file as UsedNamesCounted and             *)
(* ScopesOutlive: it counts every name it uses, and with a name its scope   *)
(* and its nesting.                                                         *)
Closed(l) ==
  /\ LocalNames(l) \subseteq DOMAIN l.count
  /\ \A n \in DOMAIN l.count : {Parent(n), Nesting(n)} \subseteq DOMAIN l.count \cup {NoName}

(* What a definition is nested in, or defined on, is in the file.           *)
PlacesKnown(l) ==
  \A def \in Range(l.defs) :
    /\ def.nesting \in DOMAIN l.defs \cup {None}
    /\ def.receiver \in {None} \cup ({"self"} \X Named(DOMAIN l.defs)) \cup ({"name"} \X DOMAIN l.count)

(* The definitions and references of file u are told apart by u, their      *)
(* offset and their name.                                                   *)
Identified(l, u) ==
  /\ IsFiniteSet(DOMAIN l.defs) /\ IsFiniteSet(l.refs)
  /\ DOMAIN l.defs \subseteq {u} \X Nat \X (DOMAIN Names \cup {NoName})
  /\ l.refs \subseteq {u} \X Nat \X DOMAIN Names
  /\ l.count \in [DOMAIN l.count -> Nat \ {0}]
  /\ DOMAIN l.count \subseteq DOMAIN Names

LocalGraphs == (UNION {UNION Range(files) : files \in Range(CodeBases)}) \cup {BuiltIn}

ASSUME FilesAssumption ==
  /\ \A files \in Range(CodeBases) :
       /\ DOMAIN files \subseteq 1..(BuiltInUri - 1)
       /\ \A u \in DOMAIN files : \A l \in files[u] : Identified(l, u)
  /\ Identified(BuiltIn, BuiltInUri)
  /\ \A l \in LocalGraphs : Closed(l)

ASSUME PlacesAssumption == \A l \in LocalGraphs : PlacesKnown(l)

InOrder(S, Before(_, _)) ==
  [i \in 1..Cardinality(S) |->
     CHOOSE x \in S : Cardinality({y \in S : Before(y, x)}) = i - 1]

ByOffset(x, y) == OffsetOf(x) < OffsetOf(y)
Tagged(tag, s) == [i \in DOMAIN s |-> <<tag, s[i]>>]

(* The entries of name_dependents that indexing a file records: the         *)
(* definitions and references with the name, in order, and the names of the *)
(* file that have it as their scope or nesting.                             *)
Users(l, n) ==
  LET tagged(x) == IF x \in l.refs THEN <<"ref", x>> ELSE <<"def", x>>
      uses == InOrder(UsesOf(Uses(l), n), ByOffset)
  IN  [i \in DOMAIN uses |-> tagged(uses[i])]
Edges(l, n) ==
  {<<"child", m>> : m \in {x \in DOMAIN l.count : Parent(x) = n}}
  \cup {<<"nested", m>> : m \in {x \in DOMAIN l.count : Nesting(x) = n}}

-----------------------------------------------------------------------------
(* Declarations.                                                            *)

Opening == {"class", "module", "singleton"}     \* definitions that open a namespace
Namespaces == {"todo"} \cup Opening

Unlinearized == [state |-> "partial", list |-> <<>>]

NewDeclaration(kind) ==
  [kind |-> kind, defs |-> <<>>, refs |-> {}, members |-> <<>>, singleton |-> None,
   ancestors |-> Unlinearized, descendants |-> {}]

(* A member is keyed by its unqualified name in its owner; constants under  *)
(* Object are not prefixed.                                                 *)
Owner(d) == IF Len(d) = 1 THEN Object ELSE Front(d)
Member(owner, str) == IF owner = Object THEN <<str>> ELSE Append(owner, str)
Members(g, d) == Range(g.decls[d].members)

Declared(g, d) == d \in DOMAIN g.decls
IsNamespace(g, d) == Declared(g, d) /\ g.decls[d].kind \in Namespaces
Resolved(g, n) == n # NoName /\ g.resolved[n] # None

(* as_namespace().unwrap(): of anything else, TLC reports the panic.        *)
AsNamespace(g, d) == [e \in {f \in DOMAIN g.decls : IsNamespace(g, f)} |-> g.decls[e]][d]
MemberOf(g, d, str) ==
  IF IsNamespace(g, d) /\ str \in DOMAIN g.decls[d].members THEN g.decls[d].members[str] ELSE None
SingletonOf(g, d) == IF IsNamespace(g, d) THEN g.decls[d].singleton ELSE None

(* An ancestor that is still an unresolved name: Ancestor::Partial.         *)
PartialAncestor(n) == <<"?", n>>
IsPartial(a) == a[1] = "?"
CompleteAncestors(decl) == {a \in ToSet(decl.ancestors.list) : ~ IsPartial(a)}

(* Vec::swap_remove of one element, and of several in order.                *)
SwapRemove(s, x) ==
  IF ~ Contains(s, x) THEN s
  ELSE LET p == CHOOSE i \in DOMAIN s : s[i] = x
       IN Front([s EXCEPT ![p] = Last(s)])

Detach(defs, removed) == FoldLeft(SwapRemove, defs, removed)
Listed(S) == InOrder(S, ByOffset)

AllDefinitionsPromotable(g, d) ==
  \A x \in ToSet(g.decls[d].defs) :
    x \in DOMAIN g.defs /\ g.defs[x].kind = "constant" => g.defs[x].promotable

PromotableConstant(g, d) ==
  /\ Declared(g, d)
  /\ g.decls[d].kind = "constant"
  /\ AllDefinitionsPromotable(g, d)

(* mutated form: the references are left behind.                            *)
Promote_Dropping(decl, kind) ==
  [NewDeclaration(kind) EXCEPT !.defs = decl.defs, !.members = decl.members]

(* A promoted declaration is a new one that takes over definitions,         *)
(* references and members, not ancestors, descendants or a singleton class. *)
Promote(decl, kind) ==
  [decl EXCEPT !.kind = kind, !.ancestors = Unlinearized, !.descendants = {}, !.singleton = None]

PromoteConstant(g, d) == [g EXCEPT !.decls[d] = Promote(@, "module")]

(* Whether adding definition x to declaration d builds a declaration.       *)
Builds(g, d, x) ==
  \/ ~ Declared(g, d)
  \/ /\ g.defs[x].kind \in Opening
     /\ PromotableConstant(g, d) \/ g.decls[d].kind = "todo"

(* The kind of the declaration a definition makes where there is none.      *)
DeclarationKind(def) ==
  CASE def.kind \in {"attr", "malias", "mvis"} -> "method"
    [] def.kind = "galias" -> "gvar"
    [] def.kind = "cvis" -> "constant"
    [] OTHER -> def.kind

AddDeclaration(g, d, x) ==
  LET kind == DeclarationKind(g.defs[x])
      base == IF ~ Declared(g, d) THEN NewDeclaration(kind)
              ELSE IF Builds(g, d, x) THEN Promote(g.decls[d], kind)
              ELSE g.decls[d]
  IN  [g EXCEPT !.decls = [e \in DOMAIN @ \cup {d} |->
         IF e = d THEN [base EXCEPT !.defs = Append(@, x)] ELSE @[e]]]

(* mutated form: a constant gets members as a namespace does.               *)
AddMember_Any(g, owner, str, d) ==
  IF ~ Declared(g, owner) THEN g
  ELSE [g EXCEPT !.decls[owner].members = (str :> d) @@ @]

(* Graph::add_member: a constant keeps no members, an owner that is not     *)
(* there is passed over; any other is a namespace or the program panics.    *)
AddMember(g, owner, str, d) ==
  IF ~ Declared(g, owner) \/ g.decls[owner].kind = "constant" THEN g
  ELSE [g EXCEPT !.decls[owner] = [AsNamespace(g, owner) EXCEPT !.members = (str :> d) @@ @]]

RecordResolvedName(g, n, d) ==
  IF g.resolved[n] = None THEN [g EXCEPT !.resolved[n] = d] ELSE g

(* mutated form: the reference moves from the graph to its declaration.     *)
RecordResolvedReference_Moved(g, r, d) ==
  [g EXCEPT !.decls = (d :> [g.decls[d] EXCEPT !.refs = @ \cup {r}]) @@ @, !.refs = @ \ {r}]

(* An EXCEPT outside its domain would hide the panic of a missing d.        *)
RecordResolvedReference(g, r, d) ==
  [g EXCEPT !.decls = (d :> [g.decls[d] EXCEPT !.refs = @ \cup {r}]) @@ @]

(* The targets of a constant alias, in the order of its definitions.        *)
AliasTargets(g, d) ==
  LET Targets(ts, x) ==
        IF x \in DOMAIN g.defs /\ g.defs[x].kind = "alias"
        THEN LET t == g.resolved[g.defs[x].target]
             IN IF t = None \/ Contains(ts, t) THEN ts ELSE Append(ts, t)
        ELSE ts
  IN  IF g.decls[d].kind = "alias" THEN FoldLeft(Targets, <<>>, g.decls[d].defs) ELSE <<>>

UnresolveNames(g, S) ==
  [g EXCEPT !.resolved = [n \in DOMAIN @ |-> IF n \in S THEN None ELSE @[n]]]

-----------------------------------------------------------------------------
(* From definitions to declarations: definition_to_declaration_id.          *)

(* find_enclosing_namespace_name_id                                         *)
EnclosingName(g, start) ==
  LET up[x \in DOMAIN g.defs \cup {None}] ==
        IF x = None THEN NoName
        ELSE IF NameOf(x) # NoName THEN NameOf(x)
        ELSE up[g.defs[x].nesting]
  IN  up[start]

NestingDeclaration(g, n) == IF n = NoName THEN Object ELSE g.resolved[n]

(* find_self_receiver_declaration                                           *)
SelfReceiverMember(g, owner, str) ==
  IF owner = None \/ AsNamespace(g, owner).singleton = None THEN None
  ELSE MemberOf(g, AsNamespace(g, owner).singleton, str)

On(def, sort) == def.receiver # None /\ def.receiver[1] = sort

(* A definition with a name is found through it, a definition on self       *)
(* through the singleton class of what it is nested in, any other as a      *)
(* member of the namespace around it, or of the one it names.               *)
DeclarationOf(g, x) ==
  LET def == g.defs[x]
      enclosing == NestingDeclaration(g, EnclosingName(g, def.nesting))
  IN  CASE NameOf(x) # NoName -> g.resolved[NameOf(x)]
        [] def.kind = "mvis" /\ def.singleton -> MemberOf(g, SingletonOf(g, enclosing), def.str)
        [] On(def, "self") ->
             SelfReceiverMember(g, g.resolved[NameOf(def.receiver[2])], def.str)
        [] On(def, "name") /\ def.kind # "method" ->
             MemberOf(g, g.resolved[def.receiver[2]], def.str)
        [] OTHER -> MemberOf(g, enclosing, def.str)

-----------------------------------------------------------------------------
(* Documents: Graph::extend and Graph::remove_document_data.                *)

(* The counts of the file are added, whatever the file does with the name.  *)
Counted(g, l) == [n \in DOMAIN g.count |-> g.count[n] + RefCount(l, n)]

Extend(g, uri, l) ==
  [g EXCEPT
     !.docs = [u \in DOMAIN @ \cup {uri} |-> IF u = uri THEN l ELSE @[u]],
     !.count = Counted(g, l),
     !.defs = [x \in DOMAIN @ \cup DOMAIN l.defs |->
                 IF x \in DOMAIN l.defs THEN l.defs[x] ELSE @[x]],
     !.refs = @ \cup l.refs,
     !.users = [n \in DOMAIN @ |-> @[n] \o Users(l, n)],
     !.edges = [n \in DOMAIN @ |-> @[n] \cup Edges(l, n)],
     !.pending = @ \cup {<<"def", x>> : x \in DOMAIN l.defs}
                   \cup {<<"ref", r>> : r \in l.refs}]

(* The names whose count the references of the document used up are gone    *)
(* when its definitions are looked at.                                      *)
WithoutReferences(g, l) ==
  UnresolveNames(g, {n \in LocalNames(l) : g.count[n] = Cardinality(UsesOf(l.refs, n))})

(* The definitions that no declaration is found for; they are looked for in *)
(* every declaration.                                                       *)
Missed(g, l) == {x \in DOMAIN l.defs : DeclarationOf(WithoutReferences(g, l), x) = None}

ReferencesWithout(g, d, l) == g.decls[d].refs \ {r \in l.refs : g.resolved[NameOf(r)] = d}

(* mutated form: a name that goes leaves its edges behind.                  *)
Edges_Kept(g, dead) == [n \in DOMAIN g.edges |-> IF n \in dead THEN {} ELSE g.edges[n]]

EdgesWithout(g, dead) ==
  [n \in DOMAIN g.edges |->
     IF n \in dead THEN {} ELSE g.edges[n] \ {<<edge, m>> : edge \in {"child", "nested"}, m \in dead}]

(* The entries of name_dependents that are about other uses, in order.      *)
UsersWithout(users, gone) ==
  LET kept == InOrder({i \in DOMAIN users : users[i][2] \notin gone}, <)
  IN  [k \in DOMAIN kept |-> users[kept[k]]]

(* Each use is untracked, of a name that is gone without effect.            *)
CountLeft(g, l) ==
  [n \in DOMAIN g.count |->
     LET uses == Cardinality(UsesOf(Uses(l), n))
     IN  IF g.count[n] > uses THEN g.count[n] - uses ELSE 0]

(* A name goes when its count reaches zero, with its entry in               *)
(* name_dependents and its edges.                                           *)
RemoveDocumentData(g, l) ==
  LET left == CountLeft(g, l)
      dead == {n \in LocalNames(l) : left[n] = 0}
  IN  [g EXCEPT
         !.decls = [d \in DOMAIN @ |->
            [@[d] EXCEPT !.refs = ReferencesWithout(g, d, l),
                         !.defs = Detach(@, Listed(Missed(g, l)))]],
         !.count = left,
         !.resolved = [n \in DOMAIN @ |-> IF n \in dead THEN None ELSE @[n]],
         !.defs = Restrict(@, DOMAIN @ \ DOMAIN l.defs),
         !.refs = @ \ l.refs,
         !.users = [n \in DOMAIN @ |-> IF n \in dead THEN <<>> ELSE UsersWithout(@[n], Uses(l))],
         !.edges = EdgesWithout(g, dead)]

(* The name of each reference is unwrapped before it is untracked.          *)
ReferencesNamed(g, l) == \A n \in LocalNames(l) : Cardinality(UsesOf(l.refs, n)) <= g.count[n]

-----------------------------------------------------------------------------
(* Invalidation: Graph::invalidate and the worklist of invalidate_graph.    *)
(* Items are <<"decl", d>>, <<"name", n>> and <<"refs", n>>.  The worklist  *)
(* is a stack of frames: what one handler pushes while it iterates over a   *)
(* hash map or set is one frame, popped in any order; frames are popped     *)
(* last in, first out.  An item pushed twice by one handler is kept once:   *)
(* its second visit finds it gone, visited or unresolved.                   *)

DeclItems(S) == {<<"decl", d>> : d \in S}

(* mutated form: names with the name as their scope are passed over.        *)
StructuralCascade_Nested(g, n) ==
  {<<"name", e[2]>> : e \in {x \in g.edges[n] : x[1] = "nested"}}

(* queue_structural_cascade                                                 *)
StructuralCascade(g, n) ==
  {<<"name", e[2]>> : e \in {x \in g.edges[n] : x[1] \in {"child", "nested"}}}

(* mutated form: names nested in the name are passed over.                  *)
AncestorCascade_Child(g, n) ==
  {<<"name", e[2]>> : e \in {x \in g.edges[n] : x[1] = "child"}}

(* queue_ancestor_triggered_invalidation                                    *)
AncestorCascade(g, n) ==
  {<<"name", e[2]>> : e \in {x \in g.edges[n] : x[1] = "child"}}
  \cup {<<"refs", e[2]>> : e \in {x \in g.edges[n] : x[1] = "nested"}}

RefUsers(g, n) == SelectSeq(g.users[n], LAMBDA u : u[1] = "ref")
DefUsers(g, n) == SelectSeq(g.users[n], LAMBDA u : u[1] = "def")

(* The definitions an old document takes away, by declaration.              *)
PendingDetachments(g, l) ==
  LET of == [x \in DOMAIN l.defs |-> DeclarationOf(g, x)]
  IN  [d \in Range(of) \ {None} |-> Listed({x \in DOMAIN l.defs : of[x] = d})]

(* The items a document change starts from; an empty local graph stands     *)
(* for no old document or no new one.                                       *)
Invalidate(g, old, new) ==
  << DeclItems(DOMAIN PendingDetachments(g, old)),
     DeclItems({g.resolved[NameOf(x)] : x \in Named(DOMAIN new.defs)} \ {None}),
     DeclItems({g.resolved[Nesting(NameOf(r))] :
                  r \in {x \in new.refs : /\ g.count[NameOf(x)] > 0
                                          /\ Resolved(g, Nesting(NameOf(x)))}}) >>

NamesForDeclaration(g, d) ==
  {n \in {NameOf(x) : x \in Named(ToSet(g.decls[d].defs) \cap DOMAIN g.defs)
                             \cup (g.decls[d].refs \cap g.refs)} : Resolved(g, n)}

ShouldRemove(g, d) == g.decls[d].defs = <<>> \/ ~ Declared(g, Owner(d))

(* mutated form: the references to the declaration are not resolved again.  *)
Requeued_Definitions(g, d, seeds) == {<<"def", x>> : x \in ToSet(g.decls[d].defs)}

Requeued(g, d, seeds) ==
  (UNION {ToSet(RefUsers(g, n)) : n \in seeds})
  \cup {<<"def", x>> : x \in ToSet(g.decls[d].defs)}

(* mutated form: the owner of a singleton class keeps it.                   *)
Disowned_Singleton(g, owner, d) ==
  IF g.decls[d].kind = "singleton" THEN owner
  ELSE [owner EXCEPT !.members = Restrict(@, DOMAIN @ \ {Last(d)})]

(* The owner no longer has the declaration as its member, or as its         *)
(* singleton class.                                                         *)
Disowned(g, owner, d) ==
  IF g.decls[d].kind = "singleton" THEN [owner EXCEPT !.singleton = None]
  ELSE [owner EXCEPT !.members = Restrict(@, DOMAIN @ \ {Last(d)})]

(* invalidate_declaration, Remove: the declaration goes, what it owned and  *)
(* what inherits from it is invalidated, the definitions and references     *)
(* that survive it are resolved again.                                      *)
RemoveDeclaration(g, d, seeds) ==
  LET h == UnresolveNames(g, seeds)
      owned(e) == e = Owner(d) /\ IsNamespace(h, e)
  IN  [h EXCEPT
         !.decls = [e \in DOMAIN @ \ {d} |-> IF owned(e) THEN Disowned(g, @[e], d) ELSE @[e]],
         !.pending = @ \cup Requeued(g, d, seeds)]

(* mutated form: the singleton class stays behind.                          *)
RemovalItems_Singleton(g, d, seeds) ==
  << DeclItems(Members(g, d)), DeclItems(g.decls[d].descendants),
     UNION {StructuralCascade(g, n) : n \in seeds} >>

RemovalItems(g, d, seeds) ==
  << DeclItems({g.decls[d].singleton} \ {None}),
     DeclItems(Members(g, d)), DeclItems(g.decls[d].descendants),
     UNION {StructuralCascade(g, n) : n \in seeds} >>

(* invalidate_declaration, Update: the declaration stays and is linearized  *)
(* again.                                                                   *)
LeaveAncestors(g, d) ==
  [g EXCEPT !.decls = [a \in DOMAIN @ |->
     IF a \in CompleteAncestors(g.decls[d])
     THEN [@[a] EXCEPT !.descendants = @ \ {d}] ELSE @[a]]]

(* mutated form: the old ancestors are kept.                                *)
UpdateDeclaration_Cached(g, d) ==
  [LeaveAncestors(g, d) EXCEPT
     !.decls[d].descendants = {},
     !.pending = @ \cup {<<"anc", d>>}]

UpdateDeclaration(g, d) ==
  [LeaveAncestors(g, d) EXCEPT
     !.decls[d].ancestors = Unlinearized,
     !.decls[d].descendants = {},
     !.pending = @ \cup {<<"anc", d>>}]

(* mutated form: what inherits from the declaration is not invalidated.     *)
UpdateItems_Names(g, d, seeds) == << UNION {AncestorCascade(g, n) : n \in seeds} >>

UpdateItems(g, d, seeds) ==
  << DeclItems(LeaveAncestors(g, d).decls[d].descendants),
     UNION {AncestorCascade(g, n) : n \in seeds} >>

(* unresolve_dependent_name: what depends on the name is resolved again.    *)
UnresolveDependentName(g, n) ==
  LET d == g.resolved[n]
      users == [i \in DOMAIN g.users[n] |-> g.users[n][i][2]]
      h == UnresolveNames(g, {n})
      detached == IF ~ Declared(g, d) THEN h
                  ELSE [h EXCEPT !.decls[d].refs = @ \ ToSet(users),
                                 !.decls[d].defs = Detach(@, users)]
  IN  IF d = None THEN g
      ELSE [detached EXCEPT !.pending = @ \cup ToSet(g.users[n])]

UnresolveItems(g, n) ==
  LET d == g.resolved[n]
      h == UnresolveDependentName(g, n)
      emptied == d # None /\ DefUsers(g, n) # <<>> /\ Declared(h, d) /\ h.decls[d].defs = <<>>
  IN  << StructuralCascade(g, n), IF emptied THEN DeclItems({d}) ELSE {} >>

(* unresolve_dependent_references: every reference under the name is        *)
(* resolved again.  The first one unresolves the name, and only that one    *)
(* leaves the declaration it was recorded at.                               *)
UnresolveDependentReferences(g, n) ==
  LET d == g.resolved[n]
      left == [g.decls[d] EXCEPT !.refs = @ \ {Head(RefUsers(g, n))[2]}]
      h == IF Resolved(g, n) /\ RefUsers(g, n) # <<>>
           THEN [UnresolveNames(g, {n}) EXCEPT !.decls = (d :> left) @@ @]
           ELSE g
  IN  [h EXCEPT !.pending = @ \cup ToSet(RefUsers(g, n))]

-----------------------------------------------------------------------------
(* The graph as a state machine: a change of one document at a time, the    *)
(* invalidation it causes one worklist item at a time.                      *)

VARIABLES
  codeBase,   \* the code base at work, chosen once
  graph,      \* the Graph
  change,     \* the document change being applied: [uri, old, new], or Quiet
  detach,     \* pending_detachments
  visited,    \* visited_declarations
  worklist    \* the stack of frames

vars == <<codeBase, graph, change, detach, visited, worklist>>

Files == CodeBases[codeBase]

NoFile == [defs |-> <<>>, refs |-> {}, count |-> <<>>]     \* the local graph of no document
Quiet == [uri |-> 0, old |-> NoFile, new |-> NoFile]
Idle == change = Quiet

EmptyGraph ==
  [decls |-> [d \in BuiltInIds |-> NewDeclaration("class")],
   docs |-> <<>>, defs |-> <<>>, refs |-> {},
   count |-> [n \in DOMAIN Names |-> 0],
   resolved |-> [n \in DOMAIN Names |-> None],
   users |-> [n \in DOMAIN Names |-> <<>>],
   edges |-> [n \in DOMAIN Names |-> {}],
   pending |-> {}]

NewGraph == Extend(EmptyGraph, BuiltInUri, BuiltIn)

Settled == change = Quiet /\ detach = <<>> /\ visited = {} /\ worklist = <<>>
GraphInit == codeBase \in DOMAIN CodeBases /\ graph = NewGraph /\ Settled

Push(frames) == SelectSeq(Front(worklist) \o frames, LAMBDA f : f # {})

(* The frames above which a handler pushes: the item is popped first.       *)
Popped(item) == << Last(worklist) \ {item} >>

(* The first half of consume_document_changes and of delete_document.       *)
Begin(u, new) ==
  /\ Idle
  /\ LET old == IF u \in DOMAIN graph.docs THEN graph.docs[u] ELSE NoFile
     IN  /\ change' = [uri |-> u, old |-> old, new |-> new]
         /\ detach' = PendingDetachments(graph, old)
         /\ worklist' = SelectSeq(Invalidate(graph, old, new), LAMBDA f : f # {})
  /\ graph' = [graph EXCEPT !.docs = Restrict(@, DOMAIN @ \ {u})]
  /\ visited' = {}
  /\ UNCHANGED codeBase

ConsumeDocumentChanges == \E u \in DOMAIN Files : \E l \in Files[u] : Begin(u, l)

DeleteDocument == \E u \in DOMAIN Files : u \in DOMAIN graph.docs /\ Begin(u, NoFile)

InvalidateDeclaration ==
  /\ worklist # <<>>
  /\ \E item \in Last(worklist) :
       /\ item[1] = "decl"
       /\ LET d == item[2]
              lost == IF d \in DOMAIN detach THEN detach[d] ELSE <<>>
              seeds == NamesForDeclaration(graph, d)
              g == [graph EXCEPT !.decls[d].defs = Detach(@, lost)]
          IN  /\ detach' = Restrict(detach, DOMAIN detach \ {d})
              /\ \/ /\ ~ Declared(graph, d)
                    /\ worklist' = Push(Popped(item))
                    /\ UNCHANGED <<graph, visited>>
                 \/ /\ Declared(graph, d) /\ ShouldRemove(g, d)
                    /\ graph' = RemoveDeclaration(g, d, seeds)
                    /\ worklist' = Push(Popped(item) \o RemovalItems(g, d, seeds))
                    /\ UNCHANGED visited
                 \/ /\ Declared(graph, d) /\ ~ ShouldRemove(g, d)
                    /\ visited' = visited \cup {d}
                    /\ IF d \in visited \/ ~ IsNamespace(g, d)
                       THEN graph' = g /\ worklist' = Push(Popped(item))
                       ELSE /\ graph' = UpdateDeclaration(g, d)
                            /\ worklist' = Push(Popped(item) \o UpdateItems(g, d, seeds))
  /\ UNCHANGED <<codeBase, change>>

InvalidateName ==
  /\ worklist # <<>>
  /\ \E item \in Last(worklist) :
       /\ item[1] = "name"
       /\ graph' = UnresolveDependentName(graph, item[2])
       /\ worklist' = Push(Popped(item) \o UnresolveItems(graph, item[2]))
  /\ UNCHANGED <<codeBase, change, detach, visited>>

InvalidateReferences ==
  /\ worklist # <<>>
  /\ \E item \in Last(worklist) :
       LET n == item[2]
       IN  /\ item[1] = "refs"
           /\ graph' = UnresolveDependentReferences(graph, n)
           /\ worklist' = Push(Popped(item) \o <<AncestorCascade(graph, n)>>)
  /\ UNCHANGED <<codeBase, change, detach, visited>>

(* The second half: the old data goes, the new local graph is merged.  A    *)
(* reference whose name is gone panics: the change never ends.              *)
Finish ==
  /\ ~ Idle
  /\ worklist = <<>>
  /\ ReferencesNamed(graph, change.old)
  /\ LET g == RemoveDocumentData(graph, change.old)
     IN  graph' = IF change.new = NoFile THEN g ELSE Extend(g, change.uri, change.new)
  /\ change' = Quiet
  /\ detach' = <<>>
  /\ visited' = {}
  /\ UNCHANGED <<codeBase, worklist>>

InvalidateStep == InvalidateDeclaration \/ InvalidateName \/ InvalidateReferences

(* What else writes the graph between document changes is the resolver: it  *)
(* declares, links and resolves, and leaves the documents and what they     *)
(* were counted and indexed for alone.                                      *)
IndexFields == {"docs", "count", "defs", "refs", "users", "edges"}

ResolverRuns ==
  /\ Idle
  /\ DOMAIN graph' = DOMAIN graph
  /\ \A f \in IndexFields : graph'[f] = graph[f]
  /\ UNCHANGED <<codeBase, change, detach, visited, worklist>>

GraphNext ==
  ConsumeDocumentChanges \/ DeleteDocument \/ InvalidateStep \/ Finish \/ ResolverRuns
GraphSpec == GraphInit /\ [][GraphNext]_vars

-----------------------------------------------------------------------------
(* Properties.                                                              *)

(* The names that each of the files counts at least, or exactly, as often   *)
(* as it uses them.  Other names lose counts of other files when a file     *)
(* that undercounts them goes.                                              *)
Covered(files, n) == \A l \in files : Cardinality(UsesOf(Uses(l), n)) <= RefCount(l, n)
Exact(files, n) == \A l \in files : Cardinality(UsesOf(Uses(l), n)) = RefCount(l, n)

(* What the documents add up to; one copy of a name for each count.         *)
Copies(docs, n) == UNION {{u} \X (1..RefCount(docs[u], n)) : u \in DOMAIN docs}
UsersIn(docs, n) == UNION {ToSet(Users(docs[u], n)) : u \in DOMAIN docs}
EdgesIn(docs, n) == UNION {Edges(docs[u], n) : u \in DOMAIN docs}
DefsIn(docs) == UNION {DOMAIN docs[u].defs : u \in DOMAIN docs}
RefsIn(docs) == UNION {docs[u].refs : u \in DOMAIN docs}

(* The counts, the reverse index of names and the tables of g are what the  *)
(* documents add up to, among all the files there may be.                   *)
IndexMatches(g, docs, files) ==
  /\ \A n \in DOMAIN Names :
       /\ IsInjective(g.users[n]) /\ ToSet(g.users[n]) \subseteq UsersIn(docs, n)
       /\ {e \in g.edges[n] : Exact(files, e[2])} \subseteq EdgesIn(docs, n)
       /\ Exact(files, n) => g.count[n] = Cardinality(Copies(docs, n))
       /\ Covered(files, n) =>
            /\ g.count[n] >= Cardinality(Copies(docs, n))
            /\ UsersIn(docs, n) \subseteq ToSet(g.users[n])
            /\ {e \in EdgesIn(docs, n) : Covered(files, e[2])} \subseteq g.edges[n]
  /\ DOMAIN g.defs = DefsIn(docs)
  /\ g.refs = RefsIn(docs)

AllFiles == (UNION Range(Files)) \cup {BuiltIn}

(***************************************************************************)
(* Between two changes the tables of definitions and references, and the   *)
(* users of each name, are those of the documents present.  A name that no *)
(* file undercounts is never removed while a document has it, nor are its  *)
(* users and the edges that invalidation follows; a name that every file   *)
(* counts as often as it uses it is counted exactly, so that it goes with  *)
(* its last document and leaves no edge behind.                            *)
(***************************************************************************)
IndexExact == Idle => IndexMatches(graph, graph.docs, AllFiles)
=============================================================================
