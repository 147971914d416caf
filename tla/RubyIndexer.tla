---------------------------- MODULE RubyIndexer ----------------------------
(***************************************************************************)
(* The visitor of indexing/ruby_indexer.rs.  A behaviour is one traversal  *)
(* of one syntax tree, and the program is chosen as it is visited: an      *)
(* action is the visit of a node (or its beginning, when the node has a    *)
(* body the visitor descends into, and Leave is then its end).  frames are *)
(* the calls of the recursive visitor that are still open.                 *)
(*                                                                         *)
(* A receiver is a path, self (or none), self.singleton_class, or a call   *)
(* foo.  Comments and diagnostics are left out.                            *)
(***************************************************************************)
EXTENDS Visitor

CONSTANT
  MixinKinds    \* of include, prepend and extend, which are indexed alike

Receiver(kind, path) == [kind |-> kind, path |-> path]
Self == Receiver("self", NoPath)
SelfSingleton == Receiver("singleton", NoPath)
Dynamic == Receiver("call", NoPath)
Constant(path) == Receiver("constant", path)
Receivers == {Self, SelfSingleton, Dynamic} \cup {Constant(p) : p \in Paths}

-----------------------------------------------------------------------------
(* Where the visitor is.                                                    *)

Innermost(kinds) ==
  LET open == {i \in DOMAIN nesting_stack : nesting_stack[i].kind \in kinds}
  IN  IF open = {} THEN None
      ELSE nesting_stack[CHOOSE i \in open : \A j \in open : j <= i].id

ParentLexicalScope == Innermost({"scope"})
CurrentNesting == Innermost({"scope", "owner"})
ParentNesting == IF nesting_stack = << >> THEN None ELSE Last(nesting_stack).id

NameOfDefinition(id) == IF id = None THEN None ELSE local_graph.defs[id].name
LexicalScopeName == NameOfDefinition(ParentLexicalScope)
OwnerName == NameOfDefinition(CurrentNesting)
InMethod == nesting_stack # << >> /\ Last(nesting_stack).kind = "method"
InModule == CurrentNesting # None /\ local_graph.defs[CurrentNesting].kind = "module"

Owned(l, d) == AddMember(AddDefinition(l, d), CurrentNesting, DefinitionId(d))
Scoped(l, d) == AddMember(AddDefinition(l, d), ParentLexicalScope, DefinitionId(d))

-----------------------------------------------------------------------------
(* References.  An operator that indexes something returns the local graph  *)
(* l and the id it made, None when it gave up.                              *)

(* The segments of a path, outermost first; all but the last are always     *)
(* references.  The first segment under a dynamic base is not indexed, and  *)
(* what follows it is looked up as if it stood alone.                       *)
IndexConstantReference(l, path, push, at) ==
  LET segment(done, i) ==
        IF i = 1 /\ path.base = "dynamic" THEN done
        ELSE LET n == Name(Str(path.texts[i]), done.scope, done.id, LexicalScopeName)
                 named == AddName(done.l, n)
             IN  [l |-> IF push \/ i < Len(path.texts)
                        THEN AddConstantReference(named, n, at + i) ELSE named,
                  scope |-> "some", id |-> n]
      start == [l |-> l, id |-> None,
                scope |-> IF path.base = "top" THEN "top" ELSE "none"]
      upTo[i \in 0..Len(path.texts)] == IF i = 0 THEN start ELSE segment(upTo[i - 1], i)
  IN  upTo[Len(path.texts)]

IndexReference(l, path, at) == IndexConstantReference(l, path, TRUE, at).l

(* mutated form: the name of the top-level object is hashed but not added.  *)
SelfOf_NotAdded(l) ==
  IF nesting_stack = << >>
  THEN [l |-> l, id |-> ObjectName, singleton |-> FALSE]
  ELSE [l |-> l, id |-> OwnerName, singleton |-> ~ InMethod]

(* What self is: inside a method without receiver an instance of the owner, *)
(* elsewhere the owner itself, whose methods are on its singleton class.    *)
SelfOf(l) ==
  IF nesting_stack = << >>
  THEN [l |-> AddName(l, ObjectName), id |-> ObjectName, singleton |-> FALSE]
  ELSE LET d == l.defs[Last(nesting_stack).id] IN
       IF ~ InMethod THEN [l |-> l, id |-> d.name, singleton |-> TRUE]
       ELSE IF d.receiver = None THEN [l |-> l, id |-> OwnerName, singleton |-> FALSE]
       ELSE [l |-> l, singleton |-> TRUE,
             id |-> IF d.receiver[1] = "self" THEN l.defs[d.receiver[2]].name
                    ELSE d.receiver[2]]

Attach(r, at) ==
  IF r.id = None \/ ~ r.singleton THEN r
  ELSE LET n == AttachedName(r.id, None)
       IN  [r EXCEPT !.l = AddConstantReference(AddName(r.l, n), n, at), !.id = n]

MethodReceiver(l, receiver, at) ==
  LET singleton(r) == [l |-> r.l, id |-> r.id, singleton |-> TRUE] IN
  CASE receiver.kind = "self" -> Attach(SelfOf(l), at)
    [] receiver.kind = "singleton" ->
         Attach(singleton(Attach(SelfOf(l), at)), at + 1)
    [] receiver.kind = "call" -> [l |-> l, id |-> None, singleton |-> FALSE]
    [] receiver.kind = "constant" ->
         Attach(singleton(IndexConstantReference(l, receiver.path, TRUE, at)), at)

IndexMethodReference(l, text, at, receiver) ==
  AddMethodReference(InternString(l, Str(text)), Str(text), at, receiver)

CallOn(r, text, at) == IndexMethodReference(r.l, text, at, r.id)

(* A receiver with no name is visited like any other expression.            *)
VisitReceiver(l, receiver, at) ==
  CASE receiver.kind = "call" -> CallOn(MethodReceiver(l, Self, at + 4), "foo", at)
    [] receiver.kind = "singleton" -> IndexMethodReference(l, "singleton_class", at, None)
    [] OTHER -> l

KnownReceiver(l, receiver, at) ==
  LET orVisited(r) == IF r.id = None THEN [r EXCEPT !.l = VisitReceiver(@, receiver, at)] ELSE r
  IN  orVisited(MethodReceiver(l, receiver, at))

CallReference(l, receiver, text, at) == CallOn(KnownReceiver(l, receiver, at), text, at + 8)

-----------------------------------------------------------------------------
(* Definitions.                                                             *)

Superclass(l, path, at) ==
  LET linked(r) ==
        IF r.id = None THEN [l |-> r.l, links |-> << >>]
        ELSE [l |-> AddConstantReference(r.l, r.id, at), links |-> <<<<"superclass", <<r.id, at>>, "path">>>>]
  IN  linked(IndexConstantReference(l, path, FALSE, at))

NameOrAnonymous(l, path, at) ==
  LET anonymous(n) == [l |-> AddName(l, n), id |-> n]
  IN  IF path = NoPath THEN anonymous(Name(Anonymous(position), "none", None, None))
      ELSE IndexConstantReference(l, path, FALSE, at)

Namespace(kind, path, super) ==
  LET add(l, d) == [l |-> Scoped(l, d), id |-> DefinitionId(d)]
      named(r, links) ==
        IF r.id = None THEN [l |-> r.l, id |-> None]
        ELSE add(r.l, [Definition(kind, Here, r.id, None, ParentLexicalScope) EXCEPT !.mixins = links])
      below(s) == named(NameOrAnonymous(s.l, path, Here), s.links)
  IN  below(Superclass(local_graph, super, Part(2)))

(* mutated form: the body of class << self is pushed for the class itself.  *)
SingletonClass_Unopened(target) ==
  [l |-> local_graph, id |-> LexicalScopeName]

SingletonClass(target) ==
  LET attached ==
        CASE target.kind = "self" -> [l |-> local_graph, id |-> LexicalScopeName]
          [] target.kind = "call" -> [l |-> VisitReceiver(local_graph, target, Here), id |-> None]
          [] target.kind = "constant" ->
               IndexConstantReference(local_graph, target.path, TRUE, Here)
      open(l, n, d) == [l |-> Owned(AddName(l, n), d), id |-> DefinitionId(d)]
      singleton(l, n) == open(l, n, Definition("singleton_class", Here, n, None, ParentLexicalScope))
      orNone(r) == IF r.id = None THEN [l |-> r.l, id |-> None]
                   ELSE singleton(r.l, AttachedName(r.id, LexicalScopeName))
  IN  orNone(attached)

(* A method with the receiver None of an instance method, self or a path.   *)
MethodOf(receiver, visibility) ==
  [Definition("method", Here, None, Str("f()"), CurrentNesting)
     EXCEPT !.receiver = receiver, !.visibility = visibility]
SelfReceiver == IF CurrentNesting = None THEN None ELSE <<"self", CurrentNesting>>

(* The name of each parameter is interned, and an optional one has a value. *)
CollectParameters(l, default) ==
  IF default = NoPath THEN l
  ELSE IndexReference(InternString(l, Str("x")), default, Part(5))

(* def f, with a default value in its parameters: module_function makes it  *)
(* a public singleton method and a private instance method.                 *)
Method(receiver, default, visibility) ==
  LET l == CollectParameters(InternString(local_graph, Str("f()")), default)
      add(before, d) == [l |-> Owned(before, d), id |-> DefinitionId(d)]
      pair == receiver.kind = "none" /\ visibility = "module_function"
      on(r) == add(r.l, MethodOf(IF r.id = None THEN None ELSE <<"constant", r.id>>, "public"))
  IN  CASE receiver.kind = "constant" -> on(IndexConstantReference(l, receiver.path, TRUE, Here))
        [] receiver.kind = "self" -> add(l, MethodOf(SelfReceiver, "public"))
        [] pair -> add(Owned(l, MethodOf(SelfReceiver, "public")), MethodOf(None, "private"))
        [] OTHER -> add(l, MethodOf(None, visibility))

-----------------------------------------------------------------------------
(* Visits of nodes with a body.                                             *)

NoCall == << >>
AfterBody(call) ==
  IF call = NoCall THEN local_graph
  ELSE CallReference(local_graph, call[1], call[2], call[3])

Leave == Close(AfterBody(Last(frames).call))

(* A class or module with a dynamic path is not defined, and its body not   *)
(* visited.                                                                 *)
Descend(r, kind, modifiers, call) ==
  r.id # None /\ Enter(r.l, Body(kind, r.id), modifiers, call)

ClassOrModuleNode ==
  \E kind \in {"class", "module"}, path \in ScopePaths, super \in ScopePaths \cup {NoPath} :
    /\ kind = "module" => super = NoPath
    /\ \E r \in {Namespace(kind, path, super)} :
         \/ Descend(r, "scope", Modifier("public", FALSE), NoCall)
         \/ r.id = None /\ Leaf(r.l)

(* Class.new, Class.new(Super) and Module.new, assigned to a constant or    *)
(* anonymous.                                                               *)
NewCall(kind) ==
  <<Constant(Read(IF kind = "class" THEN "Class" ELSE "Module")), "new", Part(6)>>
ClassNew ==
  \E kind \in {"class", "module"}, path, super \in ScopePaths \cup {NoPath} :
    LET call == NewCall(kind) IN
    /\ kind = "module" => super = NoPath
    /\ \E r \in {Namespace(kind, path, super)} :
         \/ Descend(r, "owner", Modifier("public", FALSE), call)
         \/ r.id = None /\ Leaf(CallReference(r.l, call[1], call[2], call[3]))

SingletonClassNode ==
  \E target \in {Self, Dynamic} \cup {Constant(p) : p \in ScopePaths} :
    \E r \in {SingletonClass(target)} :
      \/ Descend(r, "scope", Modifier("public", FALSE), NoCall)
      \/ r.id = None /\ Leaf(r.l)

NoReceiver == Receiver("none", NoPath)
DefNode ==
  \E receiver \in {NoReceiver, Self} \cup {Constant(p) : p \in ScopePaths},
     default \in {NoPath, Read("A")} :
    /\ default # NoPath => receiver = NoReceiver
    /\ \E r \in {Method(receiver, default, Visibility)} : Descend(r, "method", << >>, NoCall)

(* def foo.f: the receiver is visited, the body is not.                     *)
DynamicDef ==
  Leaf(VisitReceiver(InternString(local_graph, Str("f()")), Dynamic, Here))

(* private def f, and likewise protected and public: the modifier is pushed *)
(* around the visit of the def.                                             *)
VisibilityDef ==
  \E visibility \in {"private", "module_function"},
     receiver \in {NoReceiver, Self} :
    /\ visibility = "module_function" => InModule
    /\ \E r \in {Method(receiver, NoPath, visibility)} :
         Descend(r, "method", Modifier(visibility, TRUE), NoCall)

(* private: the modifier in effect is replaced, wherever the call stands.   *)
VisibilityFlag == \E visibility \in {"private", "module_function"} : Flag(visibility)

(* foo { ... }, sig { ... }: the call is indexed after its block.           *)
BlockCall ==
  \E receiver \in {Self, Dynamic} :
    Enter(local_graph, << >>, << >>, <<receiver, "foo", Part(6)>>)

-----------------------------------------------------------------------------
(* Visits of nodes without a body: constants and variables.                 *)

(* A, A::B; also A &&= value and A += value.                                *)
ConstantRead == \E path \in Paths : Leaf(IndexReference(local_graph, path, Here))

(* kind is constant or constant_alias, and target the name of the alias.    *)
AddConstant(l, kind, path, push, at, target) ==
  LET named(r) ==
        IF r.id = None THEN r.l
        ELSE Owned(r.l, [Definition(kind, at, r.id, None, ParentLexicalScope) EXCEPT !.target = target])
  IN  named(IndexConstantReference(l, path, push, at))

(* A = value, A ||= value, A::B = value and A::B ||= value, where value is  *)
(* a literal, a call foo, a constant, or B = constant.  push: the or-writes *)
(* count the target as a reference as well.                                 *)
WriteLiteral == \E path \in ScopePaths, push \in BOOLEAN :
  Leaf(AddConstant(local_graph, "constant", path, push, Here, None))
WriteCall == \E path \in ScopePaths :
  Leaf(CallReference(AddConstant(local_graph, "constant", path, FALSE, Here, None),
                     Self, "foo", Part(3)))

AddAlias(path, push, value, chained) ==
  LET B(l, kind, id) == IF chained THEN AddConstant(l, kind, Read("B"), FALSE, Part(2), id) ELSE l
      write(t) ==
        IF t.id # None
        THEN AddConstant(B(t.l, "constant_alias", t.id), "constant_alias", path, push, Here, t.id)
        ELSE B(AddConstant(t.l, "constant", path, push, Here, None), "constant", None)
  IN  write(IndexConstantReference(local_graph, value, TRUE, Part(4)))
WriteConstant == \E path \in ScopePaths, value \in ScopePaths, push, chained \in BOOLEAN :
  Leaf(AddAlias(path, push, value, chained))

AddVariable(l, kind, text, at) ==
  LET nesting == IF kind = "class_variable" THEN ParentLexicalScope ELSE ParentNesting
  IN  Owned(InternString(l, Str(text)), Definition(kind, at, None, Str(text), nesting))

(* $x = value and the other forms of assignment to a variable.              *)
VariableText == [global_variable |-> "$x", instance_variable |-> "@x", class_variable |-> "@@x"]
WriteVariable == \E kind \in DOMAIN VariableText :
  Leaf(AddVariable(local_graph, kind, VariableText[kind], Here))

(* $x, A, foo.bar = values: targets may be of any kind.                     *)
AddTarget(l, target, at) ==
  IF target \in DOMAIN VariableText THEN AddVariable(l, target, VariableText[target], at)
  ELSE IF target = "constant" THEN AddConstant(l, "constant", Read("A"), FALSE, at, None)
  ELSE CallReference(l, Dynamic, "bar=", at)
MultiWrite == \E target \in DOMAIN VariableText \cup {"constant", "call"} :
  Leaf(AddTarget(AddTarget(local_graph, target, Here), "constant", Part(3)))

-----------------------------------------------------------------------------
(* Calls that declare something.                                            *)

(* attr_reader :f, :g; with an explicit receiver nothing is indexed.        *)
AddAttribute(l, kind, text, at, visibility) ==
  Owned(InternString(l, Str(text)),
        [Definition(kind, at, None, Str(text), ParentNesting) EXCEPT
           !.visibility = IF visibility = "module_function" THEN "private" ELSE visibility])
Attributes == \E kind \in {"attr_reader", "attr_writer", "attr_accessor"} :
  Leaf(AddAttribute(AddAttribute(local_graph, kind, "f()", Part(1), Visibility),
                    kind, "g()", Part(2), Visibility))

(* private attr_reader :f: the modifier is in effect for this call only.    *)
VisibilityAttribute == \E visibility \in {"private", "module_function"} :
  /\ visibility = "module_function" => InModule
  /\ Leaf(AddAttribute(local_graph, "attr_reader", "f()", Part(1), visibility))

(* alias_method :g, :f: the old name is counted once, although the alias    *)
(* and the reference both release it.                                       *)
AliasMethodCall == \E receiver \in {Self, Dynamic} \cup {Constant(p) : p \in Paths} :
  LET l == InternString(InternString(local_graph, Str("g()")), Str("f()"))
      alias(link) == [Definition("method_alias", Here, None, Str("g()"), CurrentNesting)
                        EXCEPT !.target = Str("f()"), !.receiver = link, !.written = "call"]
      add(r, link) == Owned(AddMethodReference(r.l, Str("f()"), Part(3), r.id), alias(link))
      on(r) == add(r, IF r.id = None THEN None ELSE <<"constant", r.id>>)
  IN  Leaf(CASE receiver.kind = "call" -> VisitReceiver(local_graph, receiver, Here)
             [] receiver.kind = "self" -> add(MethodReceiver(l, Self, Here), None)
             [] OTHER -> on(IndexConstantReference(l, receiver.path, TRUE, Here)))

(* alias g f                                                                *)
AliasMethodNode ==
  LET d == [Definition("method_alias", Here, None, Str("g()"), CurrentNesting)
              EXCEPT !.target = Str("f()")]
      l == InternString(InternString(local_graph, Str("g()")), Str("f()"))
  IN  Leaf(IndexMethodReference(Owned(l, d), "f()", Part(3), None))

(* alias $y $x                                                              *)
AliasGlobal ==
  LET d == [Definition("global_alias", Here, None, Str("$y"), ParentNesting)
              EXCEPT !.target = Str("$x")]
  IN  Leaf(Owned(InternString(InternString(local_graph, Str("$y")), Str("$x")), d))

(* include, prepend and extend: the arguments are collected from left to    *)
(* right and inserted from right to left.  self is the innermost lexical    *)
(* scope, which a Class.new outside of one does not have.                   *)
MixinArgument(l, argument, at) ==
  IF argument.kind = "constant" THEN IndexConstantReference(l, argument.path, FALSE, at)
  ELSE [l |-> [l EXCEPT !.panic = @ \/ (CurrentNesting # None /\ LexicalScopeName = None)],
        id |-> LexicalScopeName]
Mixin == \E kind \in MixinKinds, x, y \in {Self} \cup {Constant(p) : p \in ScopePaths} :
  LET written(argument) == IF argument.kind = "self" THEN "self" ELSE "path"
      insert(l, id, at, how) == IF id = None \/ CurrentNesting = None THEN l
                                ELSE AddMixin(l, CurrentNesting, kind, id, at, how)
      both(first, second) == insert(insert(second.l, second.id, Part(4), written(y)),
                                    first.id, Part(1), written(x))
      next(first) == both(first, MixinArgument(first.l, y, Part(4)))
  IN  Leaf(next(MixinArgument(local_graph, x, Part(1))))

(* private :f, foo: a symbol, and an argument that is visited only.         *)
MethodVisibility(l, visibility, at) ==
  Owned(InternString(l, Str("f()")),
        [Definition("method_visibility", at, None, Str("f()"), CurrentNesting)
           EXCEPT !.visibility = visibility])
VisibilityCall == \E visibility \in {"private", "module_function"} :
  Leaf(LET other == CallReference(local_graph, Self, "foo", Part(4)) IN
       IF visibility = "module_function" /\ ~ InModule THEN other
       ELSE CallReference(MethodVisibility(local_graph, visibility, Part(1)), Self, "foo", Part(4)))

(* private_class_method :f and private_constant :A belong to a body; in a   *)
(* method, at top level or on another receiver their parts are visited.     *)
SingletonVisibility == \E receiver \in {Self, Dynamic} :
  Leaf(IF receiver = Self /\ ~ InMethod /\ nesting_stack # << >>
       THEN MethodVisibility(local_graph, "private", Part(1))
       ELSE VisitReceiver(local_graph, receiver, Here))
ConstantVisibility == \E receiver \in {Self, Dynamic} \cup {Constant(p) : p \in ScopePaths} :
  LET add(l, link) ==
        Owned(InternString(l, Str("A")),
              [Definition("constant_visibility", Part(1), None, Str("A"), CurrentNesting)
                 EXCEPT !.receiver = link])
      on(r) == add(r.l, IF r.id = None THEN None ELSE <<"constant", r.id>>)
  IN  Leaf(CASE receiver.kind = "constant" ->
                  on(IndexConstantReference(local_graph, receiver.path, TRUE, Here))
             [] receiver = Self /\ ~ InMethod /\ nesting_stack # << >> -> add(local_graph, None)
             [] OTHER -> VisitReceiver(local_graph, receiver, Here))

-----------------------------------------------------------------------------
(* Calls that refer to methods.                                             *)

(* receiver < A: the argument, the call, and <=> for a comparison.          *)
OperatorCall == \E receiver \in Receivers :
  LET twice(r) == IndexMethodReference(CallOn(r, "<", Part(2)), "<=>", Part(2), r.id)
  IN  Leaf(twice(KnownReceiver(IndexReference(local_graph, Read("A"), Part(3)), receiver, Here)))

(* receiver.bar &&= value, ||=, +=.                                         *)
UpdateAttribute == \E receiver \in Receivers :
  LET twice(r) == IndexMethodReference(CallOn(r, "bar", Part(2)), "bar=", Part(2), r.id)
  IN  Leaf(twice(KnownReceiver(local_graph, receiver, Here)))

(* left && A, left || A.                                                    *)
AndOr == \E left \in Receivers :
  Leaf(IndexReference(CallReference(local_graph, left, "&&", Here), Read("A"), Part(3)))

(* &:f                                                                      *)
BlockArgument == Leaf(IndexMethodReference(local_graph, "f", Here, None))

-----------------------------------------------------------------------------
RubyInit == Start("private")

RubyNext ==
  \/ ClassOrModuleNode \/ ClassNew \/ SingletonClassNode \/ DefNode \/ DynamicDef
  \/ VisibilityDef \/ VisibilityFlag \/ BlockCall \/ Leave
  \/ ConstantRead \/ WriteLiteral \/ WriteCall \/ WriteConstant
  \/ WriteVariable \/ MultiWrite
  \/ Attributes \/ VisibilityAttribute \/ AliasMethodCall \/ AliasMethodNode \/ AliasGlobal \/ Mixin
  \/ VisibilityCall \/ SingletonVisibility \/ ConstantVisibility
  \/ OperatorCall \/ UpdateAttribute \/ AndOr \/ BlockArgument

RubySpec == RubyInit /\ [][RubyNext]_vars

(* "self.current_lexical_scope_name_id().unwrap()" (handle_mixin): where    *)
(* self is mixed into a class or module, it stands for a name.              *)
SelfHasName == [][Mixin => ~ local_graph'.panic]_vars
=============================================================================
