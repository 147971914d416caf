------------------------------ MODULE Members ------------------------------
(***************************************************************************)
(* The part of the resolver of resolution.rs that runs once after the      *)
(* fixed point (handle_remaining_definitions): the declarations of         *)
(* methods, attributes, variables and aliases, and the definitions that    *)
(* change the visibility of methods and constants.  Each definition is     *)
(* placed under an owner; one whose owner may still appear is pending      *)
(* again, one that has none is dropped.                                    *)
(***************************************************************************)
EXTENDS Constants

(* A placement is a graph and an owner, None where there is none.           *)
Placed(g, owner) == [g |-> g, owner |-> owner]
Requeue(g, x) == [g EXCEPT !.pending = @ \cup {<<"def", x>>}]

(* mutated form: the definition is dropped.                                 *)
ReceiverOwner_Dropped(g, n, x) == Placed(g, g.resolved[n])

(* resolve_constant_receiver                                                *)
ReceiverOwner(g, n, x) ==
  Placed(IF Resolved(g, n) THEN g ELSE Requeue(g, x), g.resolved[n])

(* resolve_lexical_owner: the nearest nesting that is declared as something *)
(* that can own; a singleton class that is not declared is waited for.      *)
LexicalOwner(g, nesting, x) ==
  LET up[y \in DOMAIN g.defs \cup {None}] ==
        LET d == DeclarationOf(g, y)
        IN  IF y = None THEN Object
            ELSE IF d = None /\ g.defs[y].kind = "singleton" THEN None
            ELSE IF d # None /\ g.decls[d].kind \in Opening THEN d
            ELSE IF d # None /\ g.decls[d].kind = "alias" THEN ResolveToNamespace(g, d)
            ELSE up[g.defs[y].nesting]
      owner == up[nesting]
  IN  Placed(IF owner = None THEN Requeue(g, x) ELSE g, owner)

SingletonPlaced(s) == Placed(s.g, s.id)
EagerSingleton(g, d) == SingletonPlaced(GetOrCreateSingleton(g, d, TRUE))
SingletonUnder(p) == IF p.owner = None THEN p ELSE EagerSingleton(p.g, p.owner)

MethodOwner(g, x) ==
  IF On(g.defs[x], "name") THEN SingletonUnder(ReceiverOwner(g, g.defs[x].receiver[2], x))
  ELSE LexicalOwner(g, g.defs[x].nesting, x)

(* The owner of an instance variable: in a method, by its receiver; in the  *)
(* body of a class, the singleton class; at the top level, nothing.         *)
InMethod(g, x, method) ==
  LET receiver == g.defs[method].receiver
  IN  IF receiver = None THEN LexicalOwner(g, g.defs[method].nesting, x)
      ELSE IF receiver[1] = "self" THEN EagerSingleton(g, DeclarationOf(g, receiver[2]))
      ELSE SingletonUnder(ReceiverOwner(g, receiver[2], x))

InBody(g, body) ==
  LET d == DeclarationOf(g, body) IN EagerSingleton(g, IF d = None THEN Object ELSE d)

(* expect(): the placement has an owner, or the program panics.             *)
Expected(p) == [p EXCEPT !.owner = [d \in DOMAIN p.g.decls |-> d][@]]

InSingletonBody(g, x, body) ==
  LET d == DeclarationOf(g, body)
  IN  IF d = None THEN Placed(Requeue(g, x), None) ELSE Expected(EagerSingleton(g, d))

InstanceVariableOwner(g, x) ==
  LET nesting == g.defs[x].nesting
  IN  IF nesting = None THEN Placed(g, None)
      ELSE CASE g.defs[nesting].kind = "method" -> InMethod(g, x, nesting)
             [] g.defs[nesting].kind \in {"class", "module"} -> InBody(g, nesting)
             [] g.defs[nesting].kind = "singleton" -> InSingletonBody(g, x, nesting)

(* resolve_class_variable_owner: singleton classes are passed over.         *)
ClassVariableOwner(g, x) ==
  LET up[y \in DOMAIN g.defs \cup {None}] ==
        IF y = None THEN None
        ELSE IF g.defs[y].kind = "singleton" THEN up[g.defs[y].nesting]
        ELSE DeclarationOf(g, y)
      d == up[g.defs[x].nesting]
  IN  Placed(g, IF d # None /\ g.decls[d].kind = "alias" THEN ResolveToNamespace(g, d) ELSE d)

MethodAliasOwner(g, x) ==
  LET def == g.defs[x]
  IN  IF def.receiver = None THEN LexicalOwner(g, def.nesting, x)
      ELSE IF On(def, "self") THEN EagerSingleton(g, DeclarationOf(g, def.receiver[2]))
      ELSE ReceiverOwner(g, def.receiver[2], x)

DeclareMember(p, x) == IF p.owner = None THEN p.g ELSE CreateDeclaration(p.g, x, p.owner)

(* A global variable is not prefixed with its owner.                        *)
DeclareGlobal(g, x) ==
  LET str == g.defs[x].str
  IN  AddMember(AddDeclaration(g, <<str>>, x), Object, str, <<str>>)

(* private_constant and public_constant: a direct member of the receiver,   *)
(* or of the nesting, gets the definition; else there is a diagnostic.      *)
ConstantReceiver(g, n) ==
  Placed(g, IF Resolved(g, n) THEN ResolveToNamespace(g, g.resolved[n]) ELSE None)

ApplyConstantVisibility(p, x) ==
  LET member == MemberOf(p.g, p.owner, p.g.defs[x].str)
  IN  IF member # None /\ Declared(p.g, member)
         /\ p.g.decls[member].kind \in {"constant", "alias", "class", "module"}
      THEN AddDeclaration(p.g, member, x) ELSE p.g

ConstantVisibility(g, x) ==
  ApplyConstantVisibility(IF On(g.defs[x], "name") THEN ConstantReceiver(g, g.defs[x].receiver[2])
                          ELSE LexicalOwner(g, g.defs[x].nesting, x), x)

(* One definition of handle_remaining_definitions.                          *)
HandleRemaining(g, x) ==
  CASE g.defs[x].kind = "method" -> DeclareMember(MethodOwner(g, x), x)
    [] g.defs[x].kind = "attr" -> DeclareMember(LexicalOwner(g, g.defs[x].nesting, x), x)
    [] g.defs[x].kind = "ivar" -> DeclareMember(InstanceVariableOwner(g, x), x)
    [] g.defs[x].kind = "cvar" -> DeclareMember(ClassVariableOwner(g, x), x)
    [] g.defs[x].kind = "malias" -> DeclareMember(MethodAliasOwner(g, x), x)
    [] g.defs[x].kind = "gvar" -> DeclareGlobal(g, x)
    [] g.defs[x].kind = "galias" -> CreateDeclaration(g, x, Object)
    [] g.defs[x].kind = "cvis" -> ConstantVisibility(g, x)

-----------------------------------------------------------------------------
(* Visibility of methods: once all of them are declared.                    *)

VisibilityOwner(g, x) ==
  LET p == LexicalOwner(g, g.defs[x].nesting, x)
  IN  IF g.defs[x].singleton THEN SingletonUnder(p) ELSE p

(* mutated form: only the members of the owner itself.                      *)
ApplyMethodVisibility_Direct(p, x) ==
  IF MemberOf(p.g, p.owner, p.g.defs[x].str) # None THEN CreateDeclaration(p.g, x, p.owner)
  ELSE IF ~ IsNamespace(p.g, p.owner) THEN p.g
  ELSE IF \E a \in ToSet(p.g.decls[p.owner].ancestors.list) : IsPartial(a) THEN Requeue(p.g, x)
  ELSE p.g

(* An inherited method gets a declaration in the owner; a method that no    *)
(* known ancestor has is waited for while one is unknown.                   *)
ApplyMethodVisibility(p, x) ==
  LET ancestors == ToSet(p.g.decls[p.owner].ancestors.list)
  IN  IF ~ IsNamespace(p.g, p.owner) THEN p.g
      ELSE IF \E a \in ancestors : MemberOf(p.g, a, p.g.defs[x].str) # None
      THEN CreateDeclaration(p.g, x, p.owner)
      ELSE IF \E a \in ancestors : IsPartial(a) THEN Requeue(p.g, x)
      ELSE p.g

(* resolve_method_visibilities, one definition.                             *)
HandleVisibility(g, x) == ApplyMethodVisibility(VisibilityOwner(g, x), x)

(* handle_remaining_definitions                                             *)
HandleRemainingDefinitions(g, others) ==
  LET vis(x) == g.defs[x].kind = "mvis"
  IN  FoldLeft(HandleVisibility,
               FoldLeft(HandleRemaining, g, SelectSeq(others, LAMBDA x : ~ vis(x))),
               SelectSeq(others, vis))
=============================================================================
