----------------------------- MODULE RbsIndexer -----------------------------
(***************************************************************************)
(* The visitor of indexing/rbs_indexer.rs, over the same state as the Ruby *)
(* one: its nesting stack holds classes and modules only, and the          *)
(* visibility that it saves around a body is the one below the last on     *)
(* visibility_stack.  Comments, annotations and diagnostics are left out.  *)
(***************************************************************************)
EXTENDS Visitor

ParentScopeId == IF nesting_stack = << >> THEN None ELSE Last(nesting_stack).id
NestingName == IF ParentScopeId = None THEN None ELSE local_graph.defs[ParentScopeId].name

(* The name of a path, outermost segment first; no segment is a reference.  *)
IndexTypeName(l, path) ==
  LET scope(id) == IF id # None THEN "some" ELSE IF path.base = "top" THEN "top" ELSE "none"
      add(done, n) == [l |-> AddName(done.l, n), id |-> n]
      segment(done, text) == add(done, Name(Str(text), scope(done.id), done.id, NestingName))
      upTo[i \in 0..Len(path.texts)] ==
        IF i = 0 THEN [l |-> l, id |-> None] ELSE segment(upTo[i - 1], path.texts[i])
  IN  upTo[Len(path.texts)]

RegisterDefinition(l, d) == AddMember(AddDefinition(l, d), ParentScopeId, DefinitionId(d))

TypeReference(r, at) == AddConstantReference(r.l, r.id, at)

-----------------------------------------------------------------------------
(* interface _I: not a scope, its methods go to the scope around it.        *)
InInterface == frames # << >> /\ ~ Last(frames).nested
InType == frames # << >> /\ ~ InInterface
InterfaceNode == ~ InInterface /\ Enter(local_graph, << >>, << >>, << >>)

(* class A < B, class A, module A.                                          *)
TypeNode ==
  \E kind \in {"class", "module"}, path \in TypeNames, super \in TypeNames \cup {NoPath} :
    LET s == IndexTypeName(IndexTypeName(local_graph, path).l, super)
        l == IF super = NoPath THEN s.l ELSE TypeReference(s, Part(2))
        d == [Definition(kind, Here, IndexTypeName(local_graph, path).id, None, ParentScopeId)
                EXCEPT !.mixins = IF super = NoPath THEN << >>
                                  ELSE <<<<"superclass", <<s.id, Part(2)>>, "path">>>>]
    IN  /\ ~ InInterface /\ (kind = "module" => super = NoPath)
        /\ Enter(RegisterDefinition(l, d), Body("scope", DefinitionId(d)),
                 Modifier("public", FALSE), << >>)

RbsLeave == Close(local_graph)

ConstantNode == \E path \in TypeNames :
  LET r == IndexTypeName(local_graph, path) IN
  /\ ~ InInterface
  /\ Leaf(RegisterDefinition(r.l, Definition("constant", Here, r.id, None, ParentScopeId)))

GlobalNode ==
  /\ ~ InInterface
  /\ Leaf(RegisterDefinition(InternString(local_graph, Str("$x")),
                             Definition("global_variable", Here, None, Str("$x"), ParentScopeId)))

AddTypeMixin(r, kind) == AddMixin(r.l, ParentScopeId, kind, r.id, Here, "path")

(* An include in an interface at top level belongs to nothing.              *)
MixinNode == \E kind \in {"include", "prepend", "extend"}, path \in TypeNames :
  /\ frames # << >> /\ (InInterface => kind = "include")
  /\ Leaf(IF ParentScopeId = None THEN local_graph
          ELSE AddTypeMixin(IndexTypeName(local_graph, path), kind))

SelfReceiver == IF ParentScopeId = None THEN None ELSE <<"self", ParentScopeId>>

(* alias g f, alias self.g self.f                                           *)
AliasNode == \E kind \in {"instance", "singleton"} :
  LET d == [Definition("method_alias", Here, None, Str("g()"), ParentScopeId) EXCEPT
              !.target = Str("f()"),
              !.receiver = IF kind = "instance" THEN None ELSE SelfReceiver]
      l == InternString(InternString(local_graph, Str("g()")), Str("f()"))
  IN  /\ frames # << >> /\ (kind = "singleton" => InType)
      /\ Leaf(RegisterDefinition(l, d))

(* Unnamed ("") positional parameters are arg0, arg1, ...; each name of     *)
(* each overload is interned.                                               *)
ParameterNames(f) ==
  LET numbered(names, from) ==
        [i \in DOMAIN names |-> IF names[i] = "" THEN <<"arg", from + i, 0>> ELSE Str(names[i])]
      default(names, text) == [i \in DOMAIN names |-> Str(IF names[i] = "" THEN text ELSE names[i])]
  IN  numbered(f[1], 0) \o numbered(f[2], Len(f[1])) \o default(f[3], "args")
      \o numbered(f[4], Len(f[1]) + Len(f[2])) \o default(f[5], "") \o default(f[6], "kwargs")
      \o default(f[7], "block")
CollectParameters(l, overloads) ==
  LET parameters == UNION {{f} \X DOMAIN ParameterNames(f) : f \in overloads}
      name(p) == ParameterNames(p[1])[p[2]]
      uses(str) == Cardinality({p \in parameters : name(p) = str})
  IN  [l EXCEPT !.strings = [str \in DOMAIN @ \cup {name(p) : p \in parameters} |->
                               At(@, str, 0) + uses(str)]]

(* def f, def self.f and def self?.f, the public singleton method and       *)
(* private instance method at once.  declared: private, public or           *)
(* unspecified, which is the visibility of the body for instance methods.   *)
MethodOf(receiver, visibility) ==
  [Definition("method", Here, None, Str("f()"), ParentScopeId)
     EXCEPT !.receiver = receiver, !.visibility = visibility]
MethodPair(l) ==
  RegisterDefinition(RegisterDefinition(l, MethodOf(SelfReceiver, "public")),
                     MethodOf(None, "private"))
MethodNode ==
  \E kind \in {"instance", "singleton", "singleton_instance"},
     declared \in {"private", "public", "unspecified"},
     overloads \in SUBSET Functions \ {{}} :
    LET l == CollectParameters(InternString(local_graph, Str("f()")), overloads)
        instance == MethodOf(None, IF declared = "unspecified" THEN Visibility ELSE declared)
        singleton == MethodOf(SelfReceiver, IF declared = "private" THEN "private" ELSE "public")
    IN  /\ IsFiniteSet(overloads) /\ frames # << >> /\ (kind # "instance" => InType)
        /\ kind = "singleton_instance" => declared = "unspecified"
        /\ Leaf(CASE kind = "singleton_instance" -> MethodPair(l)
                  [] kind = "instance" -> RegisterDefinition(l, instance)
                  [] kind = "singleton" -> RegisterDefinition(l, singleton))

(* public and private, on their own.                                        *)
VisibilityNode == \E visibility \in {"public", "private"} : InType /\ Flag(visibility)

-----------------------------------------------------------------------------
RbsInit == Start("public")

RbsNext ==
  \/ TypeNode \/ InterfaceNode \/ RbsLeave \/ ConstantNode \/ GlobalNode \/ MixinNode
  \/ AliasNode \/ MethodNode \/ VisibilityNode

RbsSpec == RbsInit /\ [][RbsNext]_vars
=============================================================================
