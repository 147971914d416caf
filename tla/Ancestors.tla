----------------------------- MODULE Ancestors -----------------------------
(***************************************************************************)
(* The part of the resolver of resolution.rs that finds what is inherited: *)
(* the targets of constant aliases, the linearized ancestors of every      *)
(* namespace, and the singleton classes that this creates on the way.      *)
(* The operators are methods of the resolver, from graph to graph with a   *)
(* result.  A graph in the resolver also has the fields queue and progress *)
(* (unit_queue, made_progress).                                            *)
(***************************************************************************)
EXTENDS Graph

-----------------------------------------------------------------------------
(* Constant aliases.                                                        *)

RECURSIVE Chase(_, _, _, _)
Chase(g, queue, seen, found) ==
  IF queue = <<>> THEN found
  ELSE LET d == Head(queue)
           targets == AliasTargets(g, d)
       IN  IF d \in seen THEN Chase(g, Tail(queue), seen, found)
           ELSE Chase(g, Tail(queue) \o targets, seen \cup {d},
                      IF targets = <<>> THEN Append(found, d) ELSE found)

(* All final targets of an alias; an alias without a target is its own.     *)
ResolveAliasChains(g, d) == Chase(g, <<d>>, {}, <<>>)

FirstOrNone(s) == IF s = <<>> THEN None ELSE Head(s)

ResolveToNamespace(g, d) ==
  IF ~ Declared(g, d) THEN None
  ELSE FirstOrNone(SelectSeq(ResolveAliasChains(g, d), LAMBDA e : IsNamespace(g, e)))

-----------------------------------------------------------------------------
(* Linearization of ancestors.  A context holds the descendants collected   *)
(* on the way down, the declarations being linearized, and whether a cyclic *)
(* or a partial chain was met anywhere in this call.                        *)

NewContext == [descendants |-> {}, seen |-> {}, cyclic |-> FALSE, partial |-> FALSE]

Absorb(ctx, ancestors) ==
  [ctx EXCEPT !.cyclic = @ \/ ancestors.state = "cyclic",
              !.partial = @ \/ ancestors.state = "partial"]

(* propagate_descendants: each of the ancestors is a namespace that is      *)
(* still there, or the program panics.                                      *)
AddDescendants(g, S, descendants) ==
  [g EXCEPT !.decls =
     [d \in S |-> [AsNamespace(g, d) EXCEPT !.descendants = @ \cup descendants]] @@ @]

Enqueue(g, units) == [g EXCEPT !.queue = @ \o units]

(* get_parent_class: the first superclass that resolves, and the last that  *)
(* does not yet.                                                            *)
ParentClass(g, d) ==
  LET withSuper == SelectSeq(g.decls[d].defs, LAMBDA x : g.defs[x].superclass # NoName)
      names == [i \in DOMAIN withSuper |-> NameOf(g.defs[withSuper[i]].superclass)]
      known == SelectSeq(names, LAMBDA n : Resolved(g, n) /\ ResolveToNamespace(g, g.resolved[n]) # None)
      unknown == SelectSeq(names, LAMBDA n : ~ Resolved(g, n))
  IN  [parent |-> IF known = <<>> THEN Object ELSE ResolveToNamespace(g, g.resolved[Head(known)]),
       missing |-> IF unknown = <<>> THEN NoName ELSE Last(unknown)]

MixinsOf(g, d, kinds) ==
  SelectSeq(FlattenSeq([i \in DOMAIN g.decls[d].defs |-> g.defs[g.decls[d].defs[i]].mixins]),
            LAMBDA m : m.kind \in kinds)

IsSingleton(g, d) == g.decls[d].kind = "singleton"

(* What the attached object extends comes before what the singleton class   *)
(* includes.                                                                *)
Mixins(g, d) ==
  (IF IsSingleton(g, d) THEN MixinsOf(g, Owner(d), {"extend"}) ELSE <<>>)
  \o MixinsOf(g, d, {"prepend", "include"})

(* A prepended chain that brings anything new moves to the front as a       *)
(* whole; an included one adds what no chain has yet.                       *)
AddPrepended(pre, ids) ==
  IF ToSet(ids) \subseteq ToSet(pre) THEN pre
  ELSE ids \o SelectSeq(pre, LAMBDA a : a \notin ToSet(ids))

AddIncluded(pre, inc, parents, ids) ==
  SelectSeq(ids, LAMBDA a : a \notin ToSet(pre) \cup ToSet(inc) \cup ToSet(parents)) \o inc

RECURSIVE Linearize(_, _, _)

(* A namespace that needs its ancestors gets them at once after the fixed   *)
(* point, and by a unit of work before.                                     *)
WithAncestors(g, d, eager) ==
  IF eager THEN Linearize(g, d, NewContext).g ELSE Enqueue(g, << <<"anc", d>> >>)

SingletonId(d) == Append(d, "<" \o Last(d) \o ">")
Hanging(g, d) == [g |-> g, id |-> d]

WithSingleton(g, d) ==
  LET s == SingletonId(d)
  IN  [g EXCEPT !.decls = [e \in DOMAIN @ \cup {s} |->
         IF e = s THEN NewDeclaration("singleton")
         ELSE IF e = d THEN [@[e] EXCEPT !.singleton = s] ELSE @[e]]]

Attach(g, d, eager) ==
  IF AsNamespace(g, d).singleton # None THEN Hanging(g, g.decls[d].singleton)
  ELSE Hanging(WithAncestors(WithSingleton(g, d), SingletonId(d), eager), SingletonId(d))

PromotedNamespace(g, d, eager) ==
  IF g.decls[d].kind = "constant" THEN WithAncestors(PromoteConstant(g, d), d, eager) ELSE g

AttachTo(g, d, eager) ==
  IF d = None \/ (g.decls[d].kind = "constant" /\ ~ PromotableConstant(g, d)) THEN Hanging(g, None)
  ELSE Attach(PromotedNamespace(g, d, eager), d, eager)

(* get_or_create_singleton_class: an alias stands for its target, a         *)
(* constant that can be promoted is; the id is None where there is nothing  *)
(* to attach to.                                                            *)
GetOrCreateSingleton(g, attached, eager) ==
  AttachTo(g, IF g.decls[attached].kind = "alias" THEN ResolveToNamespace(g, attached) ELSE attached, eager)

(* singleton_parent_id, with the graph in which the parents exist.          *)
RECURSIVE SingletonParent(_, _)
ParentIs(g, d, partial) == [g |-> g, parent |-> d, partial |-> partial]
Wrapped(s, partial) == ParentIs(s.g, s.id, partial)
SingletonOfParent(p) == Wrapped(GetOrCreateSingleton(p.g, p.parent, FALSE), p.partial)
Superclass(g, p) == ParentIs(g, p.parent, p.missing # NoName)

SingletonParent(g, d) ==
  LET kind == g.decls[d].kind
  IN  IF kind = "module" THEN ParentIs(g, ModuleId, FALSE)
      ELSE IF d = Object \/ kind \notin {"class", "singleton"} THEN ParentIs(g, ClassId, FALSE)
      ELSE SingletonOfParent(IF kind = "singleton" THEN SingletonParent(g, Owner(d))
                             ELSE Superclass(g, ParentClass(g, d)))

UnderParent(l, missing) ==
  IF missing = NoName
  THEN [g |-> l.g, ctx |-> Absorb(l.ctx, l.ancestors), list |-> l.ancestors.list]
  ELSE [g |-> l.g, ctx |-> [l.ctx EXCEPT !.partial = TRUE],
        list |-> <<PartialAncestor(missing)>> \o l.ancestors.list]

UnderSingleton(p, ctx) ==
  UnderParent(Linearize(p.g, p.parent, [ctx EXCEPT !.partial = @ \/ p.partial]), NoName)

UnderClass(g, p, ctx) == UnderParent(Linearize(g, p.parent, ctx), p.missing)

(* mutated form: the parent is the one of a class.                          *)
LinearizeParent_Class(g, d, ctx) ==
  IF g.decls[d].kind \notin {"class", "singleton"} \/ d = Object
  THEN [g |-> g, ctx |-> ctx, list |-> <<>>]
  ELSE UnderClass(g, ParentClass(g, d), ctx)

LinearizeParent(g, d, ctx) ==
  IF IsSingleton(g, d) THEN UnderSingleton(SingletonParent(g, Owner(d)), ctx)
  ELSE IF g.decls[d].kind = "class" /\ d # Object THEN UnderClass(g, ParentClass(g, d), ctx)
  ELSE [g |-> g, ctx |-> ctx, list |-> <<>>]

(* One mixin of linearize_mixins; acc is [g, ctx, pre, inc].                *)
Await(acc, kind, n) ==
  IF kind = "prepend"
  THEN [acc EXCEPT !.ctx.partial = TRUE, !.pre = <<PartialAncestor(n)>> \o @]
  ELSE [acc EXCEPT !.ctx.partial = TRUE, !.inc = <<PartialAncestor(n)>> \o @]

Mix(acc, kind, parents, l) ==
  LET next == [acc EXCEPT !.g = l.g, !.ctx = Absorb(l.ctx, l.ancestors)]
  IN  IF kind = "prepend"
      THEN [next EXCEPT !.pre = AddPrepended(@, l.ancestors.list)]
      ELSE [next EXCEPT !.inc = AddIncluded(acc.pre, @, parents, l.ancestors.list)]

LinearizeMixin(acc, mixin, parents) ==
  LET n == NameOf(mixin.ref)
      module == ResolveToNamespace(acc.g, acc.g.resolved[n])
  IN  IF ~ Resolved(acc.g, n) THEN Await(acc, mixin.kind, n)
      ELSE IF module = None THEN acc
      ELSE Mix(acc, mixin.kind, parents, Linearize(acc.g, module, acc.ctx))

LinearizedState(ctx) ==
  IF ctx.cyclic THEN "cyclic" ELSE IF ctx.partial THEN "partial" ELSE "complete"

(* The result of a linearization: [g, ctx, ancestors].                      *)
Finalized(g, d, ctx, ancestors) ==
  [g |-> g, ancestors |-> ancestors,
   ctx |-> [ctx EXCEPT !.descendants = @ \ {d}, !.seen = @ \ {d}]]
Stored(g, d, ctx, ancestors) ==
  Finalized([g EXCEPT !.decls[d].ancestors = ancestors], d, ctx, ancestors)

Chained(d, mixed, parents) ==
  Stored(mixed.g, d, mixed.ctx,
         [state |-> LinearizedState(mixed.ctx), list |-> mixed.pre \o <<d>> \o mixed.inc \o parents])

(* A class or module that extends something gets its singleton class.       *)
Extending(parent, d) ==
  IF IsSingleton(parent.g, d) \/ MixinsOf(parent.g, d, {"extend"}) = <<>> THEN parent
  ELSE [parent EXCEPT !.g = Attach(@, d, FALSE).g]

Mixed(parent, d, mixins) ==
  Chained(d, FoldLeft(LAMBDA acc, m : LinearizeMixin(acc, m, parent.list),
                      [g |-> parent.g, ctx |-> parent.ctx, pre |-> <<>>, inc |-> <<>>], mixins),
          parent.list)

(* linearize_ancestors                                                      *)
Linearize(g, d, outer) ==
  LET ctx == [outer EXCEPT !.descendants = @ \cup {d}]
      decl == g.decls[d]
      started == AddDescendants(g, {d}, ctx.descendants)
  IN  IF decl.ancestors.state # "partial"
      THEN Finalized(AddDescendants(g, CompleteAncestors(decl), ctx.descendants), d, ctx, decl.ancestors)
      ELSE IF d \in ctx.seen
      THEN Stored(g, d, ctx, [state |-> "cyclic",
                              list |-> IF decl.kind = "class" THEN <<Object>> ELSE <<>>])
      ELSE Mixed(Extending(LinearizeParent(started, d, [ctx EXCEPT !.seen = @ \cup {d}]), d),
                 d, Mixins(g, d))

=============================================================================
