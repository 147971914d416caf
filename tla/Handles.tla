------------------------------ MODULE Handles ------------------------------
(***************************************************************************)
(* The foreign interface of rubydex-sys: the calls of the Ruby extension,  *)
(* each of which names an entity by an identifier it was given earlier and *)
(* reads the graph as it is now, and the ones that register names for the  *)
(* time of one question.  A call that unwraps what is not there answers    *)
(* Panic, a null pointer is None; what is returned as an iterator is the   *)
(* set of its entries, a snapshot.                                         *)
(***************************************************************************)
EXTENDS Query

Panic == <<"!">>   \* shorter than a definition, and no name of a declaration

-----------------------------------------------------------------------------
(* Declarations.                                                            *)

(* get(id).unwrap(), and the CDeclaration made of it.                       *)
Read(g, d) == IF Declared(g, d) THEN d ELSE Panic
ReadIfAny(g, d) == IF d = None THEN None ELSE Read(g, d)
ReadEach(g, S) == {Read(g, d) : d \in S}

DeclarationMember(g, d, str) == ReadIfAny(g, MemberOf(g, d, str))

(* It is unreachable that the declaration is none, or no namespace.         *)
DeclarationFindMember(g, d, str, onlyInherited) ==
  IF IsNamespace(g, d) THEN ReadIfAny(g, FindMember(g, d, str, onlyInherited)) ELSE Panic

DefinitionRead(g, x) == IF x \in DOMAIN g.defs THEN x ELSE Panic
DefinitionsFromIds(g, ids) == {DefinitionRead(g, x) : x \in ids}
DeclarationDefinitions(g, d) ==
  IF Declared(g, d) THEN DefinitionsFromIds(g, ToSet(g.decls[d].defs)) ELSE {}

DeclarationSingletonClass(g, d) ==
  IF IsNamespace(g, d) THEN ReadIfAny(g, SingletonOf(g, d)) ELSE Panic

DeclarationOwner(g, d) == IF Declared(g, d) THEN Read(g, Owner(d)) ELSE Panic

DeclarationAncestors(g, d) ==
  IF IsNamespace(g, d) THEN ReadEach(g, CompleteAncestors(g.decls[d])) ELSE {}

DeclarationDescendants(g, d) ==
  IF IsNamespace(g, d) THEN ReadEach(g, g.decls[d].descendants) ELSE {}

DeclarationMembers(g, d) == IF IsNamespace(g, d) THEN ReadEach(g, Members(g, d)) ELSE {}

ConstantAliasTarget(g, d) ==
  IF Declared(g, d) THEN ReadIfAny(g, FirstOrNone(AliasTargets(g, d))) ELSE None

DeclarationReferences(g, d) == IF Declared(g, d) THEN g.decls[d].refs ELSE {}

-----------------------------------------------------------------------------
(* Documents, definitions and references.                                   *)

DocumentDefinitions(g, u) ==
  IF u \in DOMAIN g.docs THEN DefinitionsFromIds(g, DOMAIN g.docs[u].defs) ELSE {}

(* The document of an entity, for its location: it is expected to exist.    *)
LocationIn(g, x) == IF UriOf(x) \in DOMAIN g.docs THEN <<UriOf(x), OffsetOf(x)>> ELSE Panic
DefinitionLocation(g, x) == IF x \in DOMAIN g.defs THEN LocationIn(g, x) ELSE Panic
ReferenceLocation(g, r) == IF r \in g.refs THEN LocationIn(g, r) ELSE Panic

(* The declaration is looked for at every call.                             *)
DefinitionDeclaration(g, x) ==
  IF x \in DOMAIN g.defs /\ Declared(g, DeclarationOf(g, x)) THEN DeclarationOf(g, x) ELSE None

(* CConstantReference::from_id                                              *)
FromId(g, r) ==
  IF r \in g.refs /\ g.count[NameOf(r)] > 0 THEN g.resolved[NameOf(r)] ELSE Panic

ReferenceDeclaration(g, r) ==
  IF FromId(g, r) \in {None, Panic} THEN FromId(g, r) ELSE Read(g, FromId(g, r))

ClassSuperclass(g, x) ==
  IF g.defs[x].kind # "class" THEN Panic
  ELSE IF g.defs[x].superclass = NoName THEN None ELSE FromId(g, g.defs[x].superclass)

DefinitionMixins(g, x) ==
  IF g.defs[x].kind \in Opening THEN {FromId(g, m.ref) : m \in ToSet(g.defs[x].mixins)} ELSE {}

-----------------------------------------------------------------------------
(* Questions about a name: each part of the nesting stack and of the        *)
(* qualified name is registered, and untracked when the question is         *)
(* answered.                                                                *)

(* process_qualified_name for each entry of nesting_stack_to_name_id: the   *)
(* names of the nesting, of the scopes, and the name itself.                *)
Parts[n \in DOMAIN Names \cup {NoName}] ==
  IF n = NoName THEN <<>>
  ELSE Parts[IF Parent(n) = NoName THEN Nesting(n) ELSE Parent(n)] \o <<n>>

(* The names a stack of strings can stand for: a part has the nesting of    *)
(* its scope, a singleton class is nested in what it is attached to.        *)
Askable ==
  {n \in DOMAIN Names :
     \A p \in ToSet(Parts[n]) :
       /\ Attached(p) => Nesting(p) = Parent(p)
       /\ Parent(p) # NoName /\ ~ Attached(p) => Nesting(p) = Nesting(Parent(p))}

(* A stack registers names and stands for the last of them; but for none    *)
(* when it ends in an empty part, as "Foo::" does, or "" in the body of Foo.*)
Asking(n) == [registers |-> Parts[n], name |-> n]
Unfinished(n) == [registers |-> Parts[n], name |-> NoName]

(* Graph::add_name: no edge from its scope or its nesting is recorded.      *)
AddName(g, n) == [g EXCEPT !.count[n] = @ + 1]

RemoveName(g, n) ==
  [g EXCEPT !.resolved[n] = None, !.users[n] = <<>>, !.edges = EdgesWithout(g, {n})]

(* mutated form: a name that no one counts any more stays.                  *)
UntrackName_Kept(g, n) == [g EXCEPT !.count[n] = @ - 1]

(* Graph::untrack_name                                                      *)
UntrackName(g, n) ==
  [(IF g.count[n] = 1 THEN RemoveName(g, n) ELSE g) EXCEPT !.count[n] = @ - 1]

Registered(g, q) == FoldLeft(AddName, g, q.registers)
Untracked(g, q) == FoldLeft(UntrackName, g, q.registers)

(* What the resolver queues for a question is dropped.                      *)
Answer(o, q) ==
  [g |-> Untracked(Released(o.g), q),
   decl |-> IF o.kind = "resolved" THEN Read(o.g, o.decl) ELSE None]

InResolver(g) == [queue |-> <<>>, progress |-> FALSE] @@ g

(* rdx_graph_resolve_constant.  A stack that stands for no name is answered *)
(* with nothing, when its names are registered: they are not untracked.     *)
GraphResolveConstant(g, q) ==
  LET h == Registered(g, q)
  IN  IF q.name = NoName THEN [g |-> h, decl |-> None]
      ELSE Answer(ResolveConstant(InResolver(h), q.name), q)

(* Completion for a nesting stack, run_and_finalize_completion: names are   *)
(* untracked after an answer and after an error.                            *)
Offered(g, q, offer) ==
  [g |-> Untracked(g, q), outcome |-> offer.outcome, found |-> ReadEach(g, offer.found)]

CompleteExpression(g, self, q) ==
  LET h == Registered(g, q)
  IN  IF q.name = NoName THEN [g |-> h, outcome |-> "ok", found |-> {}]
      ELSE Offered(h, q, ExpressionCompletion(h, self, q.name))

-----------------------------------------------------------------------------
(* check_integrity: the declarations it complains of, and why.              *)

RECURSIVE ChainTerminates(_, _)
ChainTerminates(g, d) ==
  IF ~ IsNamespace(g, d) THEN FALSE
  ELSE IF IsSingleton(g, d) THEN ChainTerminates(g, Owner(d)) ELSE TRUE

CheckIntegrity(g) ==
  LET owned == DOMAIN g.decls \ {Object}
      broken(d) ==
        \/ ~ IsNamespace(g, Owner(d))
        \/ IsSingleton(g, d) /\ ~ ChainTerminates(g, Owner(d))
  IN  {d \in owned : broken(d)}

-----------------------------------------------------------------------------
(* Properties.                                                              *)

NamesFound(g, d) == UNION {DOMAIN g.decls[a].members : a \in CompleteAncestors(g.decls[d])}
FoundFrom(g, d) ==
  {DeclarationFindMember(g, d, str, inherited) : str \in NamesFound(g, d), inherited \in BOOLEAN}
DeclarationAnswers(g, d) ==
  /\ Panic \notin {DeclarationOwner(g, d), ConstantAliasTarget(g, d)}
  /\ Panic \notin DeclarationMembers(g, d) \cup DeclarationAncestors(g, d)
  /\ IsNamespace(g, d) =>
       \A str \in DOMAIN g.decls[d].members : DeclarationMember(g, d, str) \notin {None, Panic}
  /\ Panic \notin DeclarationDefinitions(g, d)
  /\ IsNamespace(g, d) => Panic \notin {DeclarationSingletonClass(g, d)} \cup FoundFrom(g, d)
DefinitionAnswers(g, x) ==
  /\ DefinitionLocation(g, x) # Panic
  /\ DefinitionDeclaration(g, x) # Panic
  /\ Panic \notin DefinitionMixins(g, x)
  /\ g.defs[x].kind = "class" => ClassSuperclass(g, x) # Panic

(***************************************************************************)
(* Between two calls, after the resolver ran or before it runs, no call on *)
(* a handle of what is in the graph panics: owners, members, ancestors,    *)
(* aliases, singleton classes, definitions, documents and references that  *)
(* an entity leads to are there, through every edit of every file, and no  *)
(* definition is listed twice (the debug assertion of add_definition).     *)
(* Left out are descendants, which outlive their declarations, and the     *)
(* visibility of a declaration, which is unimplemented for a method that   *)
(* `module_function :m` names.  It is known to fail where a name of a      *)
(* signature, or a reference that moved, outlives its declaration          *)
(* (NamesOfRemovedUnresolved); no code base here has either.               *)
(* After the resolver ran, the check of integrity has no complaint.        *)
(***************************************************************************)
EveryReadAnswers ==
  /\ Clean => CheckIntegrity(graph) = {}
  /\ Idle =>
       /\ \A d \in DOMAIN graph.decls :
            /\ DeclarationAnswers(graph, d)
            /\ DeclarationReferences(graph, d) \subseteq graph.refs
            /\ IsInjective(graph.decls[d].defs)
       /\ \A n \in DOMAIN Names : ReadIfAny(graph, graph.resolved[n]) # Panic
       /\ \A u \in DOMAIN graph.docs : Panic \notin DocumentDefinitions(graph, u)
       /\ \A x \in DOMAIN graph.defs : DefinitionAnswers(graph, x)
       /\ \A r \in graph.refs : ReferenceLocation(graph, r) # Panic /\ ReferenceDeclaration(graph, r) # Panic

Kept(g) == [count |-> g.count, users |-> g.users, edges |-> g.edges, docs |-> g.docs] @@ Lasting(g)
LeavesNoTrace(q) ==
  /\ Kept(CompleteExpression(graph, None, q).g) = Kept(graph)
  /\ ~ Attached(Last(q.registers)) => Kept(GraphResolveConstant(graph, q).g) = Kept(graph)

(***************************************************************************)
(* After the resolver ran, asking for a constant or for completion, with a *)
(* stack that stands for a name, changes nothing that an edit or the next  *)
(* run depends on: every name registered for the question is counted down  *)
(* again, none stays resolved, none that a document uses is lost.  Asking  *)
(* for a singleton class may create it.  A stack that stands for no name   *)
(* is the case of EveryQuestionUntracked.                                  *)
(***************************************************************************)
LookupLeavesNoTrace == Clean => \A n \in Askable : LeavesNoTrace(Asking(n))

(***************************************************************************)
(* "a list of name ids that need to be untracked afterwards" (name_api.rs, *)
(* line 8): the names registered for any question are untracked, also for  *)
(* a stack that turns out to stand for no name.  The code returns without  *)
(* that list, and the names stay counted for ever.                         *)
(***************************************************************************)
EveryQuestionUntracked == Clean => \A n \in Askable : LeavesNoTrace(Unfinished(n))
=============================================================================
