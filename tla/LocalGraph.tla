---------------------------- MODULE LocalGraph ----------------------------
(***************************************************************************)
(* The graph of one file that an indexer fills while it visits the syntax  *)
(* tree (indexing/local_graph.rs), and the contract between an indexer and *)
(* the global graph: what Graph::extend takes over and what                *)
(* Graph::remove_document_data later releases.                             *)
(*                                                                         *)
(* Identifiers are the values the code hashes.  A string is                *)
(* <<text, position, singletons>>: position tells anonymous classes apart, *)
(* singletons counts the <...> around the text.  A name is                 *)
(* <<string, kind of parent scope, parent, nesting>>.  An offset is a      *)
(* number.                                                                 *)
(***************************************************************************)
EXTENDS Naturals, Sequences, FiniteSets

None == <<>>               \* no name, no definition, no receiver

Str(text) == <<text, 0, 0>>
Anonymous(position) == <<"anonymous", position, 0>>
SingletonStr(str) == <<str[1], str[2], str[3] + 1>>

Name(str, scope, parent, nesting) == <<str, scope, parent, nesting>>
ParentOf(n) == n[3]
NestingOf(n) == n[4]
AttachedName(n, nesting) == Name(SingletonStr(n[1]), "attached", n, nesting)
ObjectName == Name(Str("Object"), "none", None, None)

EmptyGraph ==
  [defs |-> << >>, strings |-> << >>, names |-> << >>, refs |-> {}, mrefs |-> {},
   deps |-> << >>, panic |-> FALSE]

At(f, x, default) == IF x \in DOMAIN f THEN f[x] ELSE default
Put(f, x, value) == [y \in DOMAIN f \cup {x} |-> IF y = x THEN value ELSE f[y]]

Depend(deps, n, x) ==
  IF n = None THEN deps ELSE Put(deps, n, At(deps, n, {}) \cup {x})

(* mutated form: a string that is already interned is not counted again.    *)
InternString_Once(l, str) == [l EXCEPT !.strings = Put(@, str, 1)]

Interned(strings, str) == Put(strings, str, At(strings, str, 0) + 1)
InternString(l, str) == [l EXCEPT !.strings = Interned(@, str)]

Count(l, n) == [l EXCEPT !.names = Put(@, n, At(@, n, 0) + 1)]

(* mutated form: nested names are not recorded with their nesting.          *)
Link_NoNesting(l, n) == [l EXCEPT !.deps = Depend(@, ParentOf(n), <<"child", n>>)]

(* A name met for the first time is recorded with its scope and nesting.    *)
Link(l, n) ==
  [l EXCEPT !.deps = Depend(Depend(@, ParentOf(n), <<"child", n>>),
                            NestingOf(n), <<"nested", n>>)]

(* mutated form: a name that is already interned is not counted again.      *)
AddName_Once(l, n) ==
  IF n \in DOMAIN l.names THEN l ELSE Count(Link(InternString(l, n[1]), n), n)

(* Every name is added right after its string is interned.                  *)
AddName(l, n) ==
  Count(IF n \in DOMAIN l.names THEN InternString(l, n[1])
        ELSE Link(InternString(l, n[1]), n), n)

AddConstantReference(l, n, at) ==
  [l EXCEPT !.refs = @ \cup {<<n, at>>},
            !.deps = Depend(@, n, <<"ref", <<n, at>>>>),
            !.panic = @ \/ <<n, at>> \in l.refs]

(* The receiver is not part of a method reference's identity.               *)
AddMethodReference(l, str, at, receiver) ==
  [l EXCEPT !.mrefs = @ \cup {<<str, at, receiver>>},
            !.panic = @ \/ \E r \in l.mrefs : r[1] = str /\ r[2] = at]

-----------------------------------------------------------------------------
(* Definitions: constants, classes, modules and singleton classes have a    *)
(* name, the other kinds a string.  written is history: an alias of a       *)
(* method is "plain" or a "call" of alias_method; for a mixin, the last     *)
(* part of <<kind, reference, written>>, "path" or "self".                  *)

Definition(kind, at, name, str, nesting) ==
  [kind |-> kind, at |-> at, name |-> name, str |-> str, nesting |-> nesting,
   receiver |-> None, target |-> None, visibility |-> "public",
   members |-> {}, mixins |-> << >>, written |-> "plain"]

DefinitionId(d) ==
  <<d.at, d.name, d.str, d.target, IF d.kind = "method" THEN d.receiver ELSE None>>

AddDefinition(l, d) ==
  [l EXCEPT !.defs = Put(@, DefinitionId(d), d),
            !.deps = Depend(@, d.name, <<"def", DefinitionId(d)>>),
            !.panic = @ \/ DefinitionId(d) \in DOMAIN l.defs]

AddMember(l, owner, member) ==
  IF owner = None THEN l ELSE [l EXCEPT !.defs[owner].members = @ \cup {member}]

AddMixin(l, owner, kind, n, at, written) ==
  [AddConstantReference(l, n, at) EXCEPT
     !.defs[owner].mixins = Append(@, <<kind, <<n, at>>, written>>)]

-----------------------------------------------------------------------------
(* The contract with the global graph.                                      *)

DefsNamed(l, n) == {d \in DOMAIN l.defs : l.defs[d].name = n}
RefsNamed(l, n) == {r \in l.refs : r[1] = n}
Uses(l, n) == Cardinality(DefsNamed(l, n)) + Cardinality(RefsNamed(l, n))

(* Removing a document releases a name once per definition and once per     *)
(* constant reference that has it: no name is released more often than it   *)
(* was counted, or another file's name would vanish with this file.         *)
Covered(l, n) == Uses(l, n) <= At(l.names, n, 0)
CountsCoverUses(l) ==
  \A n \in {l.defs[d].name : d \in DOMAIN l.defs} \cup {r[1] : r \in l.refs} :
    n # None => Covered(l, n)

(* The strings Graph::remove_document_data releases: once per definition    *)
(* that has them, per method reference, and per release of a name.          *)
DefinitionStrings(d) ==
  CASE d.kind \in {"method_alias", "global_alias"} -> {d.str, d.target}
    [] d.kind = "constant_visibility" -> {}
    [] OTHER -> {d.str}
Releases(l, str) ==
  Cardinality({x \in DOMAIN l.defs : str \in DefinitionStrings(l.defs[x])})
  + Cardinality({r \in l.mrefs : r[1] = str})
  + Cardinality({x \in DOMAIN l.defs : l.defs[x].name # None /\ l.defs[x].name[1] = str})
  + Cardinality({r \in l.refs : r[1][1] = str})

(* "We decrement the reference count for each string it uses, and remove    *)
(* the string from the graph when its count reaches zero" (string_ref.rs):  *)
(* no string is released more often than it was counted.                    *)
StringCovered(l, str) == Releases(l, str) <= At(l.strings, str, 0)

(* What Graph::extend takes over: every name that is used is counted, and   *)
(* with a name that is counted its scope and its nesting are, through which *)
(* the resolver looks it up.                                                *)
UsedNamesCounted(l) ==
  \A n \in {l.defs[d].name : d \in DOMAIN l.defs} \cup {r[1] : r \in l.refs} :
    n \in DOMAIN l.names \cup {None}
ScopesOutlive(l) ==
  \A n \in DOMAIN l.names : {ParentOf(n), NestingOf(n)} \subseteq DOMAIN l.names \cup {None}

(* Invalidation follows name_dependents: the entry of a name lists exactly  *)
(* the definitions, references and names of the file that use it.           *)
DependentsOf(l, n) ==
  {<<"def", d>> : d \in DefsNamed(l, n)} \cup {<<"ref", r>> : r \in RefsNamed(l, n)}
  \cup {<<"child", m>> : m \in {x \in DOMAIN l.names : ParentOf(x) = n}}
  \cup {<<"nested", m>> : m \in {x \in DOMAIN l.names : NestingOf(x) = n}}
DependentsExact(l) ==
  \A n \in DOMAIN l.names \cup DOMAIN l.deps : At(l.deps, n, {}) = DependentsOf(l, n)

=============================================================================
