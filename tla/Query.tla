------------------------------- MODULE Query -------------------------------
(***************************************************************************)
(* The queries of query.rs, and the ones of model/graph.rs they use, over  *)
(* the graph that the resolver leaves: the visibility of a declaration,    *)
(* members found on a chain of ancestors, aliases of methods, and the      *)
(* candidates for completion.                                              *)
(* A HashMap is walked in any order, so what one namespace contributes is  *)
(* a set; the chain of ancestors is walked in order.  Keywords of the      *)
(* language, offered with every expression, are left out.                  *)
(***************************************************************************)
EXTENDS Resolution

-----------------------------------------------------------------------------
(* Aliases of constants: Graph::resolve_alias.                              *)

RECURSIVE FollowAlias(_, _, _)
FollowAlias(g, d, seen) ==
  LET targets == IF Declared(g, d) THEN AliasTargets(g, d) ELSE <<>>
  IN  IF d \in seen \/ targets = <<>> THEN None
      ELSE IF Declared(g, Head(targets)) /\ g.decls[Head(targets)].kind = "alias"
      THEN FollowAlias(g, Head(targets), seen \cup {d})
      ELSE Head(targets)

ResolveAlias(g, d) == FollowAlias(g, d, {})

(* resolve_to_namespace: None stands for an error, also of a caller that    *)
(* reports a declaration that is not in the graph as one.                   *)
NamespaceOf(g, d) ==
  IF IsNamespace(g, d) THEN d
  ELSE IF IsNamespace(g, ResolveAlias(g, d)) THEN ResolveAlias(g, d) ELSE None

-----------------------------------------------------------------------------
(* Members on the chain of ancestors: find_member_in_ancestors.             *)

Chain(g, d) == SelectSeq(AsNamespace(g, d).ancestors.list, LAMBDA a : ~ IsPartial(a))

(* What comes after the namespace itself: prepended modules do not.         *)
Inherited(chain, d) ==
  LET at == {i \in DOMAIN chain : chain[i] = d}
  IN  IF at = {} THEN <<>> ELSE SubSeq(chain, (CHOOSE i \in at : \A j \in at : i <= j) + 1, Len(chain))

FirstWith(g, chain, str) ==
  FirstOrNone(SelectSeq(chain, LAMBDA a : str \in DOMAIN AsNamespace(g, a).members))

MemberIfAny(g, d, str) == IF d = None THEN None ELSE g.decls[d].members[str]
Searched(chain, d, onlyInherited) == IF onlyInherited THEN Inherited(chain, d) ELSE chain

FindMember(g, d, str, onlyInherited) ==
  IF ~ IsNamespace(g, d) THEN None
  ELSE MemberIfAny(g, FirstWith(g, Searched(Chain(g, d), d, onlyInherited), str), str)

-----------------------------------------------------------------------------
(* Aliases of methods: follow_method_alias.  An error is None.              *)

Aliasing(g, d) == {x \in ToSet(g.decls[d].defs) : g.defs[x].kind = "malias"}
FirstDefinition(S) ==
  CHOOSE x \in S : \A y \in S : UriOf(x) < UriOf(y) \/ (UriOf(x) = UriOf(y) /\ OffsetOf(x) <= OffsetOf(y))

(* mutated form: the old name is looked up among inherited methods only.    *)
AliasTarget_Inherited(g, x, d) ==
  IF ~ Declared(g, d) THEN None ELSE FindMember(g, Owner(d), g.defs[x].old, TRUE)

(* It is unreachable that the owner of an alias is no namespace: no case.   *)
AliasTarget(g, x, d) ==
  CASE ~ Declared(g, d) -> None
    [] IsNamespace(g, Owner(d)) -> FindMember(g, Owner(d), g.defs[x].old, FALSE)

RECURSIVE FollowFrom(_, _, _)
FollowFrom(g, target, seen) ==
  IF target = None \/ target \in seen \/ g.decls[target].kind # "method" THEN None
  ELSE IF Aliasing(g, target) # ToSet(g.decls[target].defs) THEN target
  ELSE IF Aliasing(g, target) = {} THEN None
  ELSE LET next == FirstDefinition(Aliasing(g, target))
       IN  FollowFrom(g, AliasTarget(g, next, DeclarationOf(g, next)), seen \cup {target})

FollowMethodAlias(g, x) == FollowFrom(g, AliasTarget(g, x, DeclarationOf(g, x)), {})

-----------------------------------------------------------------------------
(* Graph::visibility: of methods, the last definition that is no alias      *)
(* tells, of constants the last private_constant or public_constant.        *)

LastOf(g, d, kinds) ==
  LET defs == SelectSeq(g.decls[d].defs, LAMBDA x : g.defs[x].kind \in kinds)
  IN  IF defs = <<>> THEN None ELSE Last(defs)

TellingVisibility(x, g) == IF x = None THEN "public" ELSE g.defs[x].visibility
MethodDefinitions == {"method", "attr", "mvis"}

OfTarget(g, target) ==
  IF target = None THEN "public" ELSE TellingVisibility(LastOf(g, target, MethodDefinitions), g)

MethodVisibility(g, d) ==
  IF LastOf(g, d, MethodDefinitions \cup {"malias"}) = None THEN "public"
  ELSE IF LastOf(g, d, MethodDefinitions) # None
  THEN TellingVisibility(LastOf(g, d, MethodDefinitions), g)
  ELSE OfTarget(g, FollowMethodAlias(g, LastOf(g, d, {"malias"})))

(* "none" where the notion does not apply.                                  *)
VisibilityOf(g, d) ==
  CASE g.decls[d].kind = "method" -> MethodVisibility(g, d)
    [] g.decls[d].kind \in {"class", "module", "todo", "constant", "alias"} ->
         TellingVisibility(LastOf(g, d, {"cvis"}), g)
    [] OTHER -> "none"

-----------------------------------------------------------------------------
(* Completion.  Self is a declaration or None.  What is hidden from a site  *)
(* is a set of pairs of a namespace and a member of it.                     *)

ConstantKinds == Namespaces \cup {"constant", "alias"}

(* mutated form: a protected method is called by nobody.                    *)
MethodVisibleAtCall_Self(visibility, family, self, receiver) ==
  visibility \in {"private", "protected"} => self = receiver

(* method_visible_at_call; the family are the descendants of the class      *)
(* that defines the method.                                                 *)
MethodVisibleAtCall(visibility, family, self, receiver) ==
  /\ visibility = "private" => self = receiver
  /\ visibility = "protected" => {self, receiver} \subseteq family

Slots(g, chain) == UNION {{<<d, m>> : m \in Members(g, d)} : d \in ToSet(chain)}

HiddenMethods(g, chain, self, receiver) ==
  {slot \in Slots(g, chain) :
     /\ g.decls[slot[2]].kind = "method"
     /\ ~ MethodVisibleAtCall(VisibilityOf(g, slot[2]), AsNamespace(g, slot[1]).descendants, self, receiver)}

(* mutated form: what the namespace inherits is never hidden.               *)
PrivateConstants_Own(g, chain) ==
  {<<d, m>> \in Slots(g, <<Head(chain)>>) : VisibilityOf(g, m) = "private"}

PrivateConstants(g, chain) == {slot \in Slots(g, chain) : VisibilityOf(g, slot[2]) = "private"}

Nothing == [seen |-> {}, found |-> {}]

(* mutated form: only what is visible hides what comes later.               *)
CollectMembers_Visible(g, context, d, kinds, hidden) ==
  LET members == AsNamespace(g, d).members
      new == {s \in DOMAIN members \ context.seen :
                g.decls[members[s]].kind \in kinds /\ <<d, members[s]>> \notin hidden}
  IN  [seen |-> context.seen \cup new, found |-> context.found \cup {members[s] : s \in new}]

(* collect_members: what is nearer hides what comes later, visible or not.  *)
CollectMembers(g, context, d, kinds, hidden) ==
  LET members == AsNamespace(g, d).members
      new == {s \in DOMAIN members \ context.seen : g.decls[members[s]].kind \in kinds}
  IN  [seen |-> context.seen \cup new,
       found |-> context.found \cup {m \in {members[s] : s \in new} : <<d, m>> \notin hidden}]

Collect(g, context, chain, kinds, hidden) ==
  FoldLeft(LAMBDA c, d : CollectMembers(g, c, d, kinds, hidden), context, chain)

Offer(context) == [outcome |-> "ok", found |-> context.found]
Failed == [outcome |-> "error", found |-> {}]
Panicked == [outcome |-> "panic", found |-> {}]

SelfIsKnown(g, self) == self = None \/ NamespaceOf(g, self) # None
SelfOf(g, self) == IF self = None THEN None ELSE NamespaceOf(g, self)

(* method_call_completion                                                   *)
CollectMethods(g, context, self, receiver) ==
  Collect(g, context, Chain(g, receiver), {"method"},
          HiddenMethods(g, Chain(g, receiver), SelfOf(g, self), receiver))

MethodCallCompletion(g, self, receiver) ==
  LET d == NamespaceOf(g, receiver)
  IN  IF ~ Declared(g, receiver) THEN Offer(Nothing)
      ELSE IF d = None \/ ~ SelfIsKnown(g, self) THEN Failed
      ELSE Offer(CollectMethods(g, Nothing, self, d))

(* namespace_access_completion: constants before Object, then the methods   *)
(* of the singleton class.                                                  *)
BeforeObject(chain) ==
  LET at == {i \in DOMAIN chain : chain[i] = Object}
  IN  IF at = {} THEN chain ELSE SubSeq(chain, 1, (CHOOSE i \in at : \A j \in at : i <= j) - 1)

ConstantsOfNamespace(g, d) ==
  Collect(g, Nothing, BeforeObject(Chain(g, d)), ConstantKinds, PrivateConstants(g, BeforeObject(Chain(g, d))))

NamespaceAccessCompletion(g, self, namespace) ==
  LET d == NamespaceOf(g, namespace)
  IN  IF ~ Declared(g, namespace) THEN Offer(Nothing)
      ELSE IF d = None \/ ~ SelfIsKnown(g, self) THEN Failed
      ELSE IF SingletonOf(g, d) = None THEN Offer(ConstantsOfNamespace(g, d))
      ELSE Offer(CollectMethods(g, ConstantsOfNamespace(g, d), self, SingletonOf(g, d)))

-----------------------------------------------------------------------------
(* Completion of an expression inside the scope a name opens.               *)

(* The scopes around a name, inside out, as far as they are resolved.       *)
Enclosing(g, n) ==
  LET out[m \in DOMAIN Names \cup {NoName}] ==
        IF Resolved(g, m) THEN <<g.resolved[m]>> \o out[Nesting(m)] ELSE <<>>
  IN  out[n]

ConstantsInScope(g, d) ==
  Collect(g, Collect(g, Nothing, Chain(g, d), ConstantKinds, {}),
          IF g.decls[d].kind = "module" THEN Chain(g, Object) ELSE <<>>, ConstantKinds, {})

(* Class variables belong to the first scope that is no singleton class.    *)
VariableScope(g, scopes) ==
  LET open == SelectSeq(scopes, LAMBDA d : g.decls[d].kind # "singleton")
  IN  IF open = <<>> THEN <<>> ELSE Chain(g, Head(open))

(* mutated form: the scopes around the innermost are passed over.           *)
Reachable_Innermost(g, scopes, self) ==
  Collect(g,
    Collect(g,
      Collect(g, ConstantsInScope(g, Head(scopes)), VariableScope(g, scopes), {"cvar"}, {}),
      <<Object>>, {"gvar"}, {}),
    Chain(g, self), {"method", "ivar"}, {})

Reachable(g, scopes, self) ==
  Collect(g,
    Collect(g,
      Collect(g,
        Collect(g, ConstantsInScope(g, Head(scopes)), Tail(scopes), ConstantKinds, {}),
        VariableScope(g, scopes), {"cvar"}, {}),
      <<Object>>, {"gvar"}, {}),
    Chain(g, self), {"method", "ivar"}, {})

(* expression_completion: scopes that are no namespaces are unwrapped.      *)
ExpressionCompletion(g, self, n) ==
  LET scopes == Enclosing(g, n)
      d == IF self = None THEN g.resolved[n] ELSE NamespaceOf(g, self)
  IN  IF g.count[n] = 0 \/ ~ Resolved(g, n) \/ ~ IsNamespace(g, d) THEN Failed
      ELSE IF \E i \in DOMAIN scopes : ~ IsNamespace(g, scopes[i]) THEN Panicked
      ELSE Offer(Reachable(g, scopes, d))

-----------------------------------------------------------------------------
(* Properties.                                                              *)

NamespacesOf(g) == {d \in DOMAIN g.decls : IsNamespace(g, d)}

(* The methods that a call on the receiver may run, by name lookup.         *)
MethodsOn(g, receiver) ==
  {m \in {FindMember(g, receiver, str, FALSE) :
             str \in UNION {DOMAIN g.decls[a].members : a \in ToSet(Chain(g, receiver))}} :
     g.decls[m].kind = "method"}

(***************************************************************************)
(* After the resolver ran, completion of a call and lookup of a member     *)
(* agree: what is offered outside the receiver is what lookup finds there  *)
(* and is public, and inside also what is private.  A method that is       *)
(* overridden is not offered, also when what overrides it is hidden.       *)
(***************************************************************************)
CompletionAgreesWithLookup ==
  Clean =>
    \A r \in NamespacesOf(graph), inside \in BOOLEAN :
      {m \in MethodCallCompletion(graph, IF inside THEN r ELSE None, r).found :
         VisibilityOf(graph, m) # "protected"}
        = {m \in MethodsOn(graph, r) :
             VisibilityOf(graph, m) \in IF inside THEN {"public", "private"} ELSE {"public"}}

(* Where Ruby allows the call of a protected method: on a receiver and from *)
(* a self that both have the class that defines it among their ancestors.   *)
Protected(g, S) == {m \in S : VisibilityOf(g, m) = "protected"}
InheritsFrom(g, d, m) == Owner(m) \in CompleteAncestors(g.decls[d])
ProtectedInFamily(g, self, receiver) ==
  {m \in Protected(g, MethodsOn(g, receiver)) : InheritsFrom(g, self, m) /\ InheritsFrom(g, receiver, m)}

(***************************************************************************)
(* After the resolver ran, a protected method is offered wherever Ruby     *)
(* allows the call.  Completion asks the descendants of the class that     *)
(* defines it, which changes of other files maintain.                      *)
(***************************************************************************)
ProtectedReachesFamily ==
  Clean =>
    \A r, self \in NamespacesOf(graph) :
      ProtectedInFamily(graph, self, r) \subseteq MethodCallCompletion(graph, self, r).found

(***************************************************************************)
(* After the resolver ran, completion of an expression and the resolver    *)
(* agree on which constants a scope reaches: a bare name that would        *)
(* resolve there is offered, under one declaration, and no other is.       *)
(***************************************************************************)
Complete(g, d) == IsNamespace(g, d) /\ g.decls[d].ancestors.state = "complete"
ScopesComplete(g, n) == \A i \in DOMAIN Enclosing(g, n) : Complete(g, Enclosing(g, n)[i])
OfferedAs(g, n, str) ==
  {c \in ExpressionCompletion(g, None, n).found : g.decls[c].kind \in ConstantKinds /\ Last(c) = str}
ScopeReachesWhatResolves ==
  Clean =>
    \A n \in DOMAIN Names :
      Parent(n) = NoName /\ Resolved(graph, Nesting(n)) /\ ScopesComplete(graph, Nesting(n)) =>
        Cardinality(OfferedAs(graph, Nesting(n), Str(n)))
          = IF ResolveConstant(UnresolveNames(graph, {n}), n).kind = "resolved" THEN 1 ELSE 0

(***************************************************************************)
(* After the resolver ran, completion after Foo:: and the resolver agree:  *)
(* a constant that Foo::Qux would resolve to is offered when it is not     *)
(* private and not one of every object, and no other is offered as Qux.    *)
(***************************************************************************)
ReadFrom(g, d, c) ==
  {e \in {c.decl} : /\ c.kind = "resolved"
                    /\ Owner(e) \in ToSet(BeforeObject(Chain(g, d)))
                    /\ VisibilityOf(g, e) # "private"}
OfferedFrom(g, d, str) ==
  {o \in NamespaceAccessCompletion(g, None, d).found : g.decls[o].kind \in ConstantKinds /\ Last(o) = str}
NamespaceOffersWhatResolves ==
  Clean =>
    \A n \in {m \in DOMAIN Names : Resolved(graph, Parent(m)) /\ ~ Attached(m)} :
      LET scope == graph.resolved[Parent(n)]
      IN  Complete(graph, NamespaceOf(graph, scope)) =>
            OfferedFrom(graph, scope, Str(n))
              = ReadFrom(graph, NamespaceOf(graph, scope), ResolveConstant(UnresolveNames(graph, {n}), n))

(***************************************************************************)
(* After the resolver ran, an alias of a method leads to a method exactly  *)
(* when one can be reached from it by going from alias to the method of    *)
(* the old name: a chain of aliases is followed to its end, whichever      *)
(* files its parts are in, and cycles are left.                            *)
(***************************************************************************)
OldMethods(g, d) ==
  {FindMember(g, Owner(d), g.defs[x].old, FALSE) : x \in Aliasing(g, d)} \ {None}
ReachedByAlias(g, S) ==
  LET closed(T) == UNION {OldMethods(g, d) : d \in {e \in T : Aliasing(g, e) = ToSet(g.decls[e].defs)}} \subseteq T
  IN  {T \in SUBSET {d \in DOMAIN g.decls : g.decls[d].kind = "method"} : S \subseteq T /\ closed(T)}
Genuine(g, d) == Aliasing(g, d) # ToSet(g.decls[d].defs)
AliasesFollowed ==
  Clean =>
    \A d \in DOMAIN graph.decls : \A x \in Aliasing(graph, d) :
      LET start == {FindMember(graph, Owner(d), graph.defs[x].old, FALSE)} \ {None}
          method == FollowMethodAlias(graph, x)
      IN  IF method = None
          THEN \E T \in ReachedByAlias(graph, start) : \A e \in T : ~ Genuine(graph, e)
          ELSE Genuine(graph, method) /\ \A T \in ReachedByAlias(graph, start) : method \in T

-----------------------------------------------------------------------------
(* What the comments say and the code does not do.                          *)

(***************************************************************************)
(* A protected method is offered only where Ruby allows the call.          *)
(***************************************************************************)
ProtectedStaysInFamily ==
  Clean =>
    \A r, self \in NamespacesOf(graph) :
      Protected(graph, MethodCallCompletion(graph, self, r).found)
        \subseteq ProtectedInFamily(graph, self, r)
=============================================================================
