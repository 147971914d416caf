----------------------------- MODULE Constants -----------------------------
(***************************************************************************)
(* The part of the resolver of resolution.rs that runs to a fixed point:   *)
(* declarations for the definitions that have a name, their owners, the    *)
(* declarations that constant references name, methods defined on self,    *)
(* and the handlers of the units of work.                                  *)
(* An `unwrap` is the application of a function outside its domain, which  *)
(* TLC reports: a run that completes also shows that none can fail.        *)
(***************************************************************************)
EXTENDS Ancestors

-----------------------------------------------------------------------------
(* Looking a constant up.  An outcome is [g, kind, decl, lin]: lin is a     *)
(* declaration whose ancestors have to be linearized, or None.              *)

Outcome(g, kind, decl, lin) == [g |-> g, kind |-> kind, decl |-> decl, lin |-> lin]

(* The first ancestor with the member, unless the chain has a name before   *)
(* it that may turn out to have it.                                         *)
MemberIn(l, d, str) ==
  LET list == l.ancestors.list
      partial == l.ancestors.state = "partial"
      again == IF partial THEN d ELSE None
      hit(i) == ~ IsPartial(list[i]) /\ str \in DOMAIN l.g.decls[list[i]].members
      stop(i) == partial /\ IsPartial(list[i]) /\ Str(list[i][2]) # str
      ends == {i \in DOMAIN list : hit(i) \/ stop(i)}
      end == CHOOSE i \in ends : \A j \in ends : i <= j
  IN  IF ends = {} THEN Outcome(l.g, "unresolved", None, again)
      ELSE IF stop(end) THEN Outcome(l.g, "retry", None, d)
      ELSE Outcome(l.g, "resolved", l.g.decls[list[end]].members[str], again)

SearchAncestors(g, d, str) == MemberIn(Linearize(g, d, NewContext), d, str)

RECURSIVE SearchLexicalScopes(_, _, _)
SearchLexicalScopes(g, n, str) ==
  LET outer == Nesting(n)
      scope == ResolveToNamespace(g, g.resolved[outer])
  IN  IF outer = NoName THEN Outcome(g, "unresolved", None, None)
      ELSE IF ~ Resolved(g, outer) THEN Outcome(g, "retry", None, None)
      ELSE IF MemberOf(g, scope, str) # None
      THEN Outcome(g, "resolved", MemberOf(g, scope, str), None)
      ELSE SearchLexicalScopes(g, outer, str)

OrElse(inherited, top) ==
  IF top.kind = "resolved" THEN [top EXCEPT !.lin = inherited.lin] ELSE [inherited EXCEPT !.g = top.g]

(* Modules, and scopes whose chain is not complete, fall back to Object.    *)
OrTopLevel(inherited, scope, str) ==
  IF inherited.kind # "resolved"
     /\ (inherited.g.decls[scope].kind \in {"module", "todo"} \/ inherited.lin # None)
  THEN OrElse(inherited, SearchAncestors(inherited.g, Object, str))
  ELSE inherited

SearchScope(g, scope, str) ==
  IF scope = None THEN Outcome(g, "unresolved", None, None)
  ELSE IF ~ IsNamespace(g, scope) THEN Outcome(g, "retry", None, None)
  ELSE OrTopLevel(SearchAncestors(g, scope, str), scope, str)

(* The innermost scope: the first target of its name that is a namespace or *)
(* an alias without a target.                                               *)
InnermostScope(g, n) ==
  LET open == {"alias"} \cup Namespaces
  IN  FirstOrNone(SelectSeq(ResolveAliasChains(g, g.resolved[Nesting(n)]),
                            LAMBDA e : g.decls[e].kind \in open))

OrInherited(lexical, n) ==
  IF lexical.kind # "unresolved" THEN lexical
  ELSE SearchScope(lexical.g, InnermostScope(lexical.g, n), Str(n))

(* run_resolution: a constant without a parent scope.                       *)
RunResolution(g, n) ==
  IF Nesting(n) = NoName THEN SearchAncestors(g, Object, Str(n))
  ELSE OrInherited(SearchLexicalScopes(g, n, Str(n)), n)

(* A constant of a parent scope: the targets of the scope, in order.        *)
RECURSIVE SearchTargets(_, _, _, _, _)

OrNextTarget(o, targets, str, missing) ==
  IF o.kind = "resolved" THEN o
  ELSE SearchTargets(o.g, Tail(targets), str, TRUE, IF missing = None THEN o.lin ELSE missing)

SearchTargets(g, targets, str, found, missing) ==
  IF targets = <<>>
  THEN IF ~ found THEN Outcome(g, "unresolved", None, None)
       ELSE Outcome(g, IF missing = None THEN "retry" ELSE "unresolved", None, missing)
  ELSE LET d == Head(targets)
       IN  IF g.decls[d].kind = "alias" THEN Outcome(g, "retry", None, None)
           ELSE IF ~ IsNamespace(g, d) THEN SearchTargets(g, Tail(targets), str, found, missing)
           ELSE OrNextTarget(SearchAncestors(g, d, str), targets, str, missing)

(* A name attached to a resolved one makes the singleton class of what that *)
(* resolved to.                                                             *)
AttachedOutcome(s) == Outcome(s.g, IF s.id = None THEN "unresolved" ELSE "resolved", s.id, s.id)
AttachedTarget(g, target) ==
  IF target = None THEN Outcome(g, "unresolved", None, None)
  ELSE AttachedOutcome(GetOrCreateSingleton(g, target, FALSE))

SearchAttached(g, target) ==
  LET targets == ResolveAliasChains(g, target)
      alias == g.decls[target].kind = "alias"
  IN  IF alias /\ \E i \in DOMAIN targets : g.decls[targets[i]].kind = "alias"
      THEN Outcome(g, "retry", None, None)
      ELSE AttachedTarget(g, IF ~ alias THEN target
                             ELSE FirstOrNone(SelectSeq(targets, LAMBDA e : IsNamespace(g, e))))

Recorded(o, n) ==
  IF o.kind = "resolved" THEN [o EXCEPT !.g = RecordResolvedName(@, n, o.decl)] ELSE o

(* resolve_constant_internal                                                *)
ResolveConstant(g, n) ==
  IF Resolved(g, n) THEN Outcome(g, "resolved", g.resolved[n], None)
  ELSE Recorded(
         IF Names[n].top THEN SearchAncestors(g, Object, Str(n))
         ELSE IF Parent(n) = NoName THEN RunResolution(g, n)
         ELSE IF ~ Resolved(g, Parent(n)) THEN Outcome(g, "retry", None, None)
         ELSE IF Attached(n) THEN SearchAttached(g, g.resolved[Parent(n)])
         ELSE SearchTargets(g, ResolveAliasChains(g, g.resolved[Parent(n)]), Str(n), FALSE, None),
         n)

-----------------------------------------------------------------------------
(* Owners and declarations of definitions.                                  *)

(* resolve_to_primary_namespace                                             *)
PrimaryNamespace(g, d, lin) ==
  LET targets == ResolveAliasChains(g, d)
  IN  IF targets = <<>> \/ g.decls[Head(targets)].kind = "alias"
      THEN Outcome(g, "retry", None, None)
      ELSE Outcome(g, "resolved", Head(targets), lin)

ScopeOwner(scope, retry) ==
  IF scope.kind = "resolved" THEN PrimaryNamespace(scope.g, scope.decl, scope.lin)
  ELSE IF scope.lin = None /\ ~ retry THEN Outcome(scope.g, "unresolved", None, None)
  ELSE scope

(* name_owner_id; a singleton class keeps the retry of an unknown scope.    *)
NameOwner(g, n, retry) ==
  IF Parent(n) # NoName THEN ScopeOwner(ResolveConstant(g, Parent(n)), retry)
  ELSE IF Nesting(n) = NoName \/ Names[n].top THEN Outcome(g, "resolved", Object, None)
  ELSE IF Resolved(g, Nesting(n)) THEN PrimaryNamespace(g, g.resolved[Nesting(n)], None)
  ELSE Outcome(g, "retry", None, None)

(* create_todo_for_parent: placeholders for a parent scope nobody defines.  *)
AddTodo(g, owner, str) ==
  LET todo == Member(owner, str)
      added == AddMember([g EXCEPT !.decls = @ @@ (todo :> NewDeclaration("todo"))], owner, str, todo)
  IN  Outcome(IF Declared(g, todo) THEN g ELSE added, "resolved", todo, None)

PlaceTodo(primary, str) ==
  AddTodo(primary.g, IF primary.kind = "resolved" THEN primary.decl ELSE Object, str)

RECURSIVE CreateTodo(_, _)

TodoOwner(o, n) == IF o.kind = "resolved" THEN o ELSE CreateTodo(o.g, n)

PrimaryOwner(owner) == PrimaryNamespace(owner.g, owner.decl, None)

CreateTodo(g, n) ==
  LET parent == Parent(n)
  IN  IF Parent(parent) = NoName THEN AddTodo(g, Object, Str(parent))
      ELSE PlaceTodo(PrimaryOwner(TodoOwner(NameOwner(g, parent, FALSE), parent)), Str(parent))

Linearization(d) == IF d = None THEN <<>> ELSE << <<"anc", d>> >>

(* A class under an unknown scope gets a placeholder for it, a singleton    *)
(* class waits.                                                             *)
OrPlaceholder(o, n, singleton) ==
  IF o.kind # "unresolved" \/ o.lin # None THEN o
  ELSE IF singleton THEN Outcome(o.g, "retry", None, None)
  ELSE CreateTodo(o.g, n)

(* A constant that gets a member is promoted, if it can be.                 *)
PromotedOwner(g, owner) ==
  IF PromotableConstant(g, owner)
  THEN Enqueue(PromoteConstant(g, owner), Linearization(owner))
  ELSE g

(* The new declaration is the singleton class of its owner or a member.     *)
Adopted(g, x, owner, str, d) ==
  IF g.defs[x].kind # "singleton" THEN AddMember(g, owner, str, d)
  ELSE [g EXCEPT !.decls[owner].singleton = d]

Declare(g, x, owner, waiting) ==
  LET str == Str(NameOf(x))
      d == Member(owner, str)
      builds == Builds(g, d, x) /\ g.defs[x].kind \in Opening
      lin == IF waiting # None THEN waiting ELSE IF builds THEN d ELSE None
      added == Adopted(AddDeclaration(g, d, x), x, owner, str, d)
  IN  [Enqueue(RecordResolvedName(added, NameOf(x), d), Linearization(lin)) EXCEPT !.progress = TRUE]

(* A singleton class of what is not a namespace is dropped.                 *)
DeclareIn(g, x, owner, waiting) ==
  IF g.defs[x].kind = "singleton" /\ ~ IsNamespace(g, owner) THEN g
  ELSE Declare(g, x, owner, waiting)

DeclareUnder(o, x) ==
  IF o.kind = "resolved" THEN DeclareIn(PromotedOwner(o.g, o.decl), x, o.decl, o.lin)
  ELSE Enqueue(o.g, << <<"def", x>> >> \o Linearization(o.lin))

(* handle_constant_declaration                                              *)
HandleConstant(g, x, singleton) ==
  DeclareUnder(OrPlaceholder(NameOwner(g, NameOf(x), singleton), NameOf(x), singleton), x)

CreateDeclaration(g, x, owner) ==
  LET str == g.defs[x].str
      d == Append(owner, str)
  IN  AddMember(AddDeclaration(g, d, x), owner, str, d)

(* A method defined on self goes to the singleton class of what it is       *)
(* nested in, once that is declared; it is dropped if there can be none.    *)
OnSingleton(s, x) ==
  IF s.id = None THEN s.g
  ELSE [CreateDeclaration(s.g, x, s.id) EXCEPT !.progress = TRUE]

HandleSingletonMethod(g, x) ==
  LET owner == DeclarationOf(g, g.defs[x].receiver[2])
  IN  IF owner = None THEN Enqueue(g, << <<"def", x>> >>)
      ELSE OnSingleton(GetOrCreateSingleton(g, owner, FALSE), x)

(* handle_definition_unit                                                   *)
HandleDefinition(g, x) ==
  IF g.defs[x].kind = "method" THEN HandleSingletonMethod(g, x)
  ELSE HandleConstant(g, x, g.defs[x].kind = "singleton")

(* handle_reference_unit                                                    *)
RecordReference(o, r) ==
  IF o.kind = "resolved"
  THEN [Enqueue(RecordResolvedReference(o.g, r, o.decl), Linearization(o.lin)) EXCEPT !.progress = TRUE]
  ELSE Enqueue(o.g, << <<"ref", r>> >> \o Linearization(o.lin))

HandleReference(g, r) == RecordReference(ResolveConstant(g, NameOf(r)), r)

(* handle_ancestor_unit                                                     *)
Linearized(l, d) ==
  IF l.ancestors.state = "partial" THEN Enqueue(l.g, Linearization(d))
  ELSE [l.g EXCEPT !.progress = TRUE]

HandleAncestors(g, d) == Linearized(Linearize(g, d, NewContext), d)

HandleUnit(g) ==
  LET unit == Head(g.queue)
      h == [g EXCEPT !.queue = Tail(@)]
  IN  IF unit[1] = "def" THEN HandleDefinition(h, unit[2])
      ELSE IF unit[1] = "ref" THEN HandleReference(h, unit[2])
      ELSE HandleAncestors(h, unit[2])

=============================================================================
