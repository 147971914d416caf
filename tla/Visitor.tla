------------------------------ MODULE Visitor ------------------------------
(***************************************************************************)
(* What the two indexers share: each is a visitor that walks one syntax    *)
(* tree and fills a local graph.  The program is chosen as it is visited:  *)
(* an action is the visit of a node, or its beginning when the node has a  *)
(* body the visitor descends into, and its end is a step of its own.       *)
(* frames are the calls of the recursive visitor that are still open.      *)
(*                                                                         *)
(* A constant path is [base, texts]: A::B is <<"A", "B">> read from the    *)
(* nesting, ::A has the base "top", foo::A the base "dynamic".             *)
(***************************************************************************)
EXTENDS LocalGraph, SequencesExt

CONSTANTS
  ScopePaths,   \* Ruby: the paths that classes and modules are defined under
  Paths,        \* Ruby: the paths of all other constants
  TypeNames,    \* RBS: the paths of classes, modules, constants and mixins
  Functions,    \* RBS: the types of a method: <<required, optional, rest, trailing,
                \* keywords, rest keywords, block>>, each a sequence of names
  MaxNodes,     \* how many nodes a program has
  MaxDepth,     \* how many nodes with a body are open at a time
  MaxLeaves     \* how many nodes have no body and are no bare visibility call

VARIABLES
  local_graph,
  nesting_stack,     \* [kind: scope, owner or method; id: DefinitionId]
  visibility_stack,  \* [visibility, inline], the current one last
  frames,            \* what the end of the open nodes does, the innermost last
  position,          \* nodes visited so far
  leaves,
  flags              \* history: the bare visibility calls, with their body; the
                     \* first entry is the visibility of the top level

vars == <<local_graph, nesting_stack, visibility_stack, frames, position, leaves, flags>>

ASSUME BoundsAssumption == {MaxNodes, MaxDepth, MaxLeaves} \subseteq Nat

ASSUME PathsAssumption ==
  /\ \A path \in ScopePaths \cup Paths \cup TypeNames :
       path \in [base: {"read", "top", "dynamic"}, texts: Seq(STRING) \ {<< >>}]
  /\ \A path \in TypeNames : path.base # "dynamic"

(* Bound: a part of a node spans 10 offsets, with the segments of its path. *)
ASSUME OffsetsAssumption == \A path \in ScopePaths \cup Paths : Len(path.texts) < 10

ASSUME FunctionsAssumption == \A f \in Functions : f \in Seq(Seq(STRING)) /\ Len(f) = 7

NoPath == [base |-> "none", texts |-> << >>]
Read(text) == [base |-> "read", texts |-> <<text>>]

(* Parts of a node lie at distinct offsets inside the node.                 *)
Here == 100 * (position + 1)
Part(i) == Here + 10 * i

Visibility == Last(visibility_stack).visibility
Body(kind, id) == <<[kind |-> kind, id |-> id]>>
Modifier(visibility, inline) == <<[visibility |-> visibility, inline |-> inline]>>

(* Bound: a program ends with its MaxLeaves-th leaf or its MaxNodes-th node.*)
Continues == leaves < MaxLeaves /\ position < MaxNodes /\ ~ local_graph.panic

Start(visibility) ==
  /\ local_graph = EmptyGraph
  /\ nesting_stack = << >>
  /\ visibility_stack = Modifier(visibility, FALSE)
  /\ frames = << >>
  /\ position = 0 /\ leaves = 0
  /\ flags = <<[body |-> 0, visibility |-> visibility]>>

(* nesting and modifiers are the entries pushed on the two stacks while the *)
(* body is visited, call what is indexed after it.                          *)
Enter(l, nesting, modifiers, call) ==
  /\ Len(frames) < MaxDepth /\ Continues
  /\ local_graph' = l
  /\ nesting_stack' = nesting_stack \o nesting
  /\ visibility_stack' = visibility_stack \o modifiers
  /\ frames' = Append(frames, [nested |-> nesting # << >>, modifiers |-> modifiers,
                               call |-> call, begin |-> position])
  /\ position' = position + 1
  /\ UNCHANGED <<leaves, flags>>

Close(l) ==
  /\ frames # << >> /\ ~ local_graph.panic
  /\ local_graph' = l
  /\ nesting_stack' = IF Last(frames).nested THEN Front(nesting_stack) ELSE nesting_stack
  /\ visibility_stack' = IF Last(frames).modifiers = << >> THEN visibility_stack
                         ELSE Front(visibility_stack)
  /\ frames' = Front(frames)
  /\ UNCHANGED <<position, leaves, flags>>

Leaf(l) ==
  /\ Continues
  /\ local_graph' = l
  /\ leaves' = leaves + 1
  /\ position' = position + 1
  /\ UNCHANGED <<nesting_stack, visibility_stack, frames, flags>>

(* private, on its own: the visibility in effect is replaced.               *)
BodyBegin ==
  LET scoped == {i \in DOMAIN frames : frames[i].modifiers # << >>}
  IN  IF scoped = {} THEN 0 ELSE frames[CHOOSE i \in scoped : \A j \in scoped : j <= i].begin + 1
Flag(visibility) ==
  /\ Continues
  /\ visibility_stack' = Front(visibility_stack) \o Modifier(visibility, FALSE)
  /\ flags' = Append(flags, [body |-> BodyBegin, visibility |-> visibility])
  /\ position' = position + 1
  /\ UNCHANGED <<local_graph, nesting_stack, frames, leaves>>

-----------------------------------------------------------------------------
(* Properties.                                                              *)

(* Every stack holds what the traversal pushes, and every entry of the      *)
(* nesting stack is a definition that can own members or is a method.       *)
IndexerTypeOK ==
  /\ position \in 0..MaxNodes /\ leaves \in 0..MaxLeaves /\ Len(frames) <= MaxDepth
  /\ \A i \in DOMAIN nesting_stack :
       /\ nesting_stack[i].id \in DOMAIN local_graph.defs
       /\ LET kind == local_graph.defs[nesting_stack[i].id].kind IN
            CASE nesting_stack[i].kind = "scope" -> kind \in {"class", "module", "singleton_class"}
              [] nesting_stack[i].kind = "owner" -> kind \in {"class", "module"}
              [] nesting_stack[i].kind = "method" -> kind = "method"
  /\ \A i \in DOMAIN visibility_stack :
       visibility_stack[i] \in [visibility: {"public", "private", "protected", "module_function"},
                                inline: BOOLEAN]

Holds(P(_)) == ~ local_graph.panic => P(local_graph)

(* What the file counts once and releases twice.  Names: the target of      *)
(* A ||= value, which becomes a definition and a reference in one part of   *)
(* the node, and what `include self` stands for.  Strings: those of such    *)
(* names; the old name in a call of alias_method, which the alias and a     *)
(* reference have; the name of a method under module_function, which two    *)
(* definitions at one offset have.                                          *)
SamePart(x, y) == x \div 10 = y \div 10
OrWritten(l) ==
  {l.defs[x].name : x \in {y \in DOMAIN l.defs :
     \E r \in RefsNamed(l, l.defs[y].name) : SamePart(r[2], l.defs[y].at)}}
SelfMixed(l) ==
  UNION {{mixin[2][1] : mixin \in {m \in ToSet(l.defs[x].mixins) : m[3] = "self"}} :
           x \in DOMAIN l.defs}
CountedOnce(l) == OrWritten(l) \cup SelfMixed(l)
StringsCountedOnce(l) ==
  {n[1] : n \in CountedOnce(l) \ {None}}
  \cup {l.defs[x].target : x \in {y \in DOMAIN l.defs : l.defs[y].written = "call"}}
  \cup {l.defs[x].str : x \in {y \in DOMAIN l.defs : \E z \in DOMAIN l.defs \ {y} :
           l.defs[z].at = l.defs[y].at /\ l.defs[z].str = l.defs[y].str}}

(* "Decrements the ref count for a name and removes it if the count reaches *)
(* zero": apart from the targets of ||= and the names self is mixed in as,  *)
(* no name is released more often than the file counted it.                 *)
NamesCovered ==
  ~ local_graph.panic =>
    \A n \in DOMAIN local_graph.names \ CountedOnce(local_graph) : Covered(local_graph, n)

(* Nor is a string, apart from those of these names, the old names given to *)
(* alias_method and the names of methods under module_function.             *)
StringsCovered ==
  ~ local_graph.panic =>
    \A str \in DOMAIN local_graph.strings \ StringsCountedOnce(local_graph) :
      StringCovered(local_graph, str)

(* A name the file uses is counted, and every name it counts keeps its      *)
(* scope and its nesting in the graph: what Graph assumes of a file.        *)
ScopesKept == Holds(UsedNamesCounted) /\ Holds(ScopesOutlive)

(* name_dependents has exactly the uses of each name.                       *)
DependentsComplete == Holds(DependentsExact)

(* "DefinitionId collision in local graph", "ReferenceId collision in local *)
(* graph" (local_graph.rs), the unwrap of handle_mixin: what the code       *)
(* asserts never happens while a file is indexed.  A file with a call of    *)
(* include, prepend or extend is left to SelfHasName.                       *)
NothingPanics == ~ local_graph.panic

(* "Decrements the ref count for a name and removes it if the count reaches *)
(* zero" (Graph::untrack_name): while another use of it remains, it is not. *)
EveryUseCounted == Holds(CountsCoverUses)
=============================================================================
