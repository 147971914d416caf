----------------------------- MODULE MCMembers -----------------------------
(***************************************************************************)
(* Small Ruby code bases for methods, variables, visibility and singleton  *)
(* classes, in the style of MCResolution.                                  *)
(***************************************************************************)
EXTENDS MCResolution, Handles

MCMemberNames ==
  MCNames
  \* class << self in Foo, and the receiver of Foo.m
  @@ ("<Foo>@Foo" :> [str |-> "<Foo>", parent |-> "Foo", top |-> FALSE, attached |-> TRUE, nesting |-> "Foo"])
  @@ ("<Foo>" :> [str |-> "<Foo>", parent |-> "Foo", top |-> FALSE, attached |-> TRUE, nesting |-> NoName])

Nameless(u, offset) == <<u, offset, NoName>>
InBodyOf(x, kind, str) == [Def(kind) EXCEPT !.nesting = x, !.str = str]
OnSelf(x, kind, str) == [InBodyOf(x, kind, str) EXCEPT !.receiver = <<"self", x>>]
OnName(x, n, kind, str) == [InBodyOf(x, kind, str) EXCEPT !.receiver = <<"name", n>>]

Body(u) == <<u, 1, "Foo">>
Eigen(u) == <<u, 5, "<Foo>@Foo">>

(* class Foo; ...; end, with the definitions and references given           *)
Opens(u, def, more, refs) == File(At(Body(u), def) @@ more, refs)
(* class << self; ...; end in it                                            *)
OpensSelf(u, more) ==
  Opens(u, Class, At(Eigen(u), [Def("singleton") EXCEPT !.nesting = Body(u)]) @@ more, {<<u, 4, "Foo">>})
(* def m; end in the body of x                                              *)
Method(u, offset, x, str) == At(Nameless(u, offset), InBodyOf(x, "method", str))
Visible(u, offset, x, str, visibility) ==
  At(Nameless(u, offset), [InBodyOf(x, "method", str) EXCEPT !.visibility = visibility])
(* alias str old                                                            *)
Aliased(u, offset, x, str, old) ==
  At(Nameless(u, offset), [InBodyOf(x, "malias", str) EXCEPT !.old = old])

MemberLibrary ==
  \* a singleton class that is opened, needed by a method, or called
     ("singleton" :>
       << {Plain(1, "Foo", Class), OpensSelf(1, Method(1, 6, Eigen(1), "a"))},
          {Opens(2, Class, At(Nameless(2, 2), OnSelf(Body(2), "method", "b")), {})},
          {File(<<>>, {<<3, 1, "Foo">>, <<3, 2, "<Foo>">>})} >>)
  \* class << Foo; ...; end where Foo may not be known
  @@ ("eigenclass" :>
       << {File(At(<<1, 2, "<Foo>">>, Def("singleton")) @@ Method(1, 3, <<1, 2, "<Foo>">>, "a")
                @@ At(Nameless(1, 4), InBodyOf(Nameless(1, 3), "ivar", "@i"))
                @@ At(Nameless(1, 5), InBodyOf(<<1, 2, "<Foo>">>, "ivar", "@j"))
                @@ At(Nameless(1, 6), InBodyOf(<<1, 2, "<Foo>">>, "malias", "b")), {<<1, 1, "Foo">>})},
          {Plain(2, "Foo", Class)},
          {Opens(3, Class, At(Nameless(3, 2), OnSelf(Body(3), "method", "c")), {})} >>)
  \* instance variables in a body, in methods and in class << self
  @@ ("variables" :>
       << {Opens(1, Class,
             At(Nameless(1, 2), InBodyOf(Body(1), "ivar", "@a"))
             @@ Method(1, 3, Body(1), "m")
             @@ At(Nameless(1, 4), InBodyOf(Nameless(1, 3), "ivar", "@b"))
             @@ At(Nameless(1, 5), OnSelf(Body(1), "method", "s"))
             @@ At(Nameless(1, 6), InBodyOf(Nameless(1, 5), "ivar", "@c"))
             @@ At(Nameless(1, 7), InBodyOf(Body(1), "cvar", "@@d")), {})},
          {Plain(2, "Foo", Class), OpensSelf(2, At(Nameless(2, 6), InBodyOf(Eigen(2), "ivar", "@a")))} >>)
  \* a method defined on a constant that is a class, or an alias of a module
  @@ ("receiver" :>
       << {File(At(Nameless(1, 2), OnName(None, "Foo", "method", "m"))
                @@ At(Nameless(1, 3), InBodyOf(Nameless(1, 2), "ivar", "@a")), {<<1, 1, "Foo">>})},
          {Plain(2, "Foo", Class),
           File(At(<<2, 1, "Foo">>, Alias("Bar")) @@ At(<<2, 3, "Bar">>, Module), {<<2, 2, "Bar">>})},
          {File(<<>>, {<<3, 1, "Foo">>, <<3, 2, "<Foo>">>})} >>)
  \* attributes, aliases, global variables and visibility
  @@ ("visibility" :>
       << {File(At(<<1, 1, "Bar">>, Class) @@ Method(1, 2, <<1, 1, "Bar">>, "m")
                @@ At(<<1, 3, "Foo">>, Subclass(<<1, 4, "Bar">>))
                @@ At(Nameless(1, 5), InBodyOf(<<1, 3, "Foo">>, "mvis", "m")), {<<1, 4, "Bar">>}),
           Plain(1, "Bar", Class)},
          {Opens(2, Class, At(Nameless(2, 2), InBodyOf(Body(2), "attr", "n"))
                 @@ At(Nameless(2, 3), InBodyOf(Body(2), "malias", "o"))
                 @@ At(Nameless(2, 4), InBodyOf(Body(2), "gvar", "$g")), {})} >>)
  \* what the class extends is what its singleton class includes
  @@ ("extend" :>
       << {Opens(1, Mixing(Mixin("extend", <<1, 2, "Mix@Foo">>)), <<>>, {<<1, 2, "Mix@Foo">>})},
          {File(At(<<2, 1, "Mix">>, Module) @@ Method(2, 2, <<2, 1, "Mix">>, "m"), {})},
          {File(<<>>, {<<3, 1, "Foo">>, <<3, 2, "<Foo>">>})} >>)
  \* a class method, of a superclass that may not be known
  @@ ("superclass" :>
       << {Inherits(1, "Foo", "Bar")},
          {File(At(<<2, 1, "Bar">>, Class)
                @@ At(Nameless(2, 2), OnSelf(<<2, 1, "Bar">>, "method", "s")), {})},
          {File(<<>>, {<<3, 1, "Foo">>, <<3, 2, "<Foo>">>})} >>)
  \* class Foo; ...; end where Foo is an alias, of what may not be known
  @@ ("alias_owner" :>
       << {File(At(<<1, 1, "Foo">>, Alias("Bar")) @@ At(<<1, 3, "Foo">>, Class)
                @@ Method(1, 4, <<1, 3, "Foo">>, "m")
                @@ At(Nameless(1, 5), InBodyOf(Nameless(1, 4), "ivar", "@a")), {<<1, 2, "Bar">>})},
          {Plain(2, "Bar", Module), Plain(2, "Bar", Class)},
          {Reads(3, <<"Foo">>)} >>)
  \* a constant that becomes a module because it has a method
  @@ ("promotable" :>
       << {File(At(<<1, 1, "Foo">>, Constant(promotable))
                @@ At(Nameless(1, 3), OnName(None, "Foo", "method", "m")), {<<1, 2, "Foo">>}) :
             promotable \in BOOLEAN}
          \cup {File(At(<<1, 1, "Foo">>, Constant(TRUE)), {<<1, 2, "Foo">>, <<1, 3, "<Foo>">>})},
          {Reads(2, <<"Foo">>)} >>)
  \* class Foo < Bar with methods of every visibility, aliases and a
  \* private constant; what they override or inherit comes and goes
  @@ ("lookup" :>
       << {File(At(<<1, 1, "Foo">>, Subclass(<<1, 2, "Bar">>))
                @@ Visible(1, 3, Body(1), "m", "private") @@ Aliased(1, 4, Body(1), "m", "o")
                @@ Aliased(1, 5, Body(1), "o", "n")
                @@ Aliased(1, 6, Body(1), "q", "r") @@ Aliased(1, 7, Body(1), "r", "q"), {<<1, 2, "Bar">>})},
          {File(At(<<2, 1, "Bar">>, Class) @@ At(<<2, 2, "Qux@Bar">>, Class)
                @@ At(Nameless(2, 3), [InBodyOf(<<2, 1, "Bar">>, "cvis", "Qux") EXCEPT !.visibility = "private"])
                @@ Visible(2, 4, <<2, 1, "Bar">>, "m", "public")
                @@ Visible(2, 5, <<2, 1, "Bar">>, "n", "protected")
                @@ Aliased(2, 6, <<2, 1, "Bar">>, "p", "n"), {})},
          {Inherits(3, "Mix", "Foo")} >>)
  \* Foo.alias_method :b, :a where Foo is an alias of a module
  @@ ("alias_receiver" :>
       << {File(At(<<1, 1, "Foo">>, Alias("Bar")) @@ At(<<1, 3, "Bar">>, Module), {<<1, 2, "Bar">>})},
          {File(At(Nameless(2, 2), OnName(None, "Foo", "malias", "b")), {<<2, 1, "Foo">>})} >>)
  \* a class that leaves its superclass, which has a protected method
  @@ ("family" :>
       << {Inherits(1, "Foo", "Bar"), Plain(1, "Foo", Class)},
          {File(At(<<2, 1, "Bar">>, Class) @@ Visible(2, 2, <<2, 1, "Bar">>, "n", "protected"), {})} >>)

MCMemberBases == [b \in Bases |-> (MemberLibrary @@ Library)[b]]
=============================================================================
