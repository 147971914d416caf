--------------------------- MODULE MCResolution ---------------------------
(***************************************************************************)
(* Small Ruby code bases for the graph and the resolver: for each file, the *)
(* contents it may have over time.                                         *)
(***************************************************************************)
EXTENDS Resolution

CONSTANT Bases     \* the code bases of a run

Bare(str) == [str |-> str, parent |-> NoName, top |-> FALSE, attached |-> FALSE, nesting |-> NoName]
Within(str, n) == [Bare(str) EXCEPT !.nesting = n]
Scoped(str, n) == [Bare(str) EXCEPT !.parent = n]

(* "Q@N" is Q written inside N, "N::Q" is Q with the scope N.               *)
MCNames ==
  [n \in {"Object", "Module", "Class", "Foo", "Bar", "Mix", "Qux"} |-> Bare(n)]
  @@ ("::Qux" :> [Bare("Qux") EXCEPT !.top = TRUE])
  @@ ("Qux@Foo" :> Within("Qux", "Foo"))
  @@ ("Qux@Bar" :> Within("Qux", "Bar"))
  @@ ("Qux@Mix" :> Within("Qux", "Mix"))
  @@ ("Bar@Foo" :> Within("Bar", "Foo"))
  @@ ("Mix@Foo" :> Within("Mix", "Foo"))
  @@ ("Qux@Bar@Foo" :> Within("Qux", "Bar@Foo"))
  @@ ("Foo@Mix" :> Within("Foo", "Mix"))
  @@ ("Foo::Qux@Mix" :> [Scoped("Qux", "Foo@Mix") EXCEPT !.nesting = "Mix"])
  @@ ("Foo::Qux" :> Scoped("Qux", "Foo"))
  @@ ("Foo::Qux::Deep" :> Scoped("Deep", "Foo::Qux"))
  @@ ("Qux::Deep@Foo" :> [Scoped("Deep", "Qux@Foo") EXCEPT !.nesting = "Foo"])

Def(kind) == [kind |-> kind, superclass |-> NoName, mixins |-> <<>>,
              target |-> NoName, promotable |-> FALSE, nesting |-> None,
              str |-> "", receiver |-> None, singleton |-> FALSE,
              visibility |-> "public", old |-> ""]
Class == Def("class")
Module == Def("module")
Constant(promotable) == [Def("constant") EXCEPT !.promotable = promotable]
Alias(n) == [Def("alias") EXCEPT !.target = n]
Subclass(r) == [Class EXCEPT !.superclass = r]
Mixin(kind, r) == [kind |-> kind, ref |-> r]
Mixing(mixin) == [Class EXCEPT !.mixins = <<mixin>>]

(* A file that counts each name as often as it uses it, as the indexers do, *)
(* and one that has names it does not use.                                  *)
File(defs, refs) ==
  LET l == [defs |-> defs, refs |-> refs]
  IN  [count |-> [n \in LocalNames(l) |-> Cardinality(UsesOf(Uses(l), n))]] @@ l
Pinning(l, n) == [l EXCEPT !.count = (n :> RefCount(l, n) + 1) @@ @]
At(x, def) == x :> def

BuiltInSubclass(offset, n, m) ==
  File(At(<<BuiltInUri, offset, n>>, Subclass(<<BuiltInUri, offset + 1, m>>)),
       {<<BuiltInUri, offset + 1, m>>})
MCBuiltIn ==
  LET module == BuiltInSubclass(1, "Module", "Object")
      class == BuiltInSubclass(3, "Class", "Module")
  IN  File(At(<<BuiltInUri, 0, "Object">>, Class) @@ module.defs @@ class.defs,
           module.refs \cup class.refs)

(* class n; end, or module n; end, or n = 1                                 *)
Plain(u, n, def) == File(At(<<u, 1, n>>, def), {})
(* class n < m; end                                                         *)
Inherits(u, n, m) == File(At(<<u, 1, n>>, Subclass(<<u, 2, m>>)), {<<u, 2, m>>})
(* class n; include m; end, or prepend                                      *)
Mixes(u, kind, n, m) ==
  File(At(<<u, 1, n>>, Mixing(Mixin(kind, <<u, 2, m>>))), {<<u, 2, m>>})
(* module n; class m; end; end                                              *)
Nests(u, n, def, m) == File(At(<<u, 1, n>>, def) @@ At(<<u, 2, m>>, Class), {})
(* class n; m; end                                                          *)
Mentions(u, n, def, m) == File(At(<<u, 1, n>>, def), {<<u, 2, m>>})
(* class n::m; end, whose scope n is a reference                            *)
Compact(u, n, m) == File(At(<<u, 1, m>>, Class), {<<u, 2, n>>})
(* n = m                                                                    *)
Aliases(u, n, m) == File(At(<<u, 1, n>>, Alias(m)), {<<u, 2, m>>})
(* the expression m, each of whose scopes is a reference                    *)
Reads(u, scopes) == File(<<>>, {<<u, i, scopes[i]>> : i \in DOMAIN scopes})

(* class m; end in RBS, whose scope n it does not reference, inside or      *)
(* after module outer; end                                                  *)
Signature(u, outer, n, m) ==
  Pinning(File(At(<<u, 1, outer>>, Module) @@ At(<<u, 2, m>>, Class), {}), n)

Library ==
  \* superclasses, known and unknown, and a constant inherited from one
     ("inherit" :>
       << {Plain(1, "Foo", Class), Inherits(1, "Foo", "Bar"), Mixes(1, "include", "Foo", "Mix@Foo")},
          {Plain(2, "Bar", Class), Nests(2, "Bar", Class, "Qux@Bar")},
          {Mentions(3, "Foo", Class, "Qux@Foo")} >>)
  \* mixins of a class that another file reopens
  @@ ("mixins" :>
       << {Plain(1, "Foo", Class), Mixes(1, "prepend", "Foo", "Mix@Foo"), Mixes(1, "include", "Foo", "Mix@Foo")},
          {Nests(2, "Mix", Module, "Qux@Mix"), Plain(2, "Mix", Module)},
          {Mentions(3, "Foo", Class, "Qux@Foo")} >>)
  \* an alias that changes its target, or becomes a module
  @@ ("alias" :>
       << {Aliases(1, "Foo", "Bar"), Aliases(1, "Foo", "Mix"), Nests(1, "Foo", Module, "Qux@Foo")},
          {File(At(<<2, 1, "Bar">>, Module) @@ At(<<2, 2, "Qux@Bar">>, Class)
                @@ At(<<2, 3, "Mix">>, Module) @@ At(<<2, 4, "Qux@Mix">>, Class), {})},
          {Reads(3, <<"Foo", "Foo::Qux">>)} >>)
  \* two lexical scopes, either of which may come to have the constant
  @@ ("nested" :>
       << {Nests(1, "Foo", Module, "Bar@Foo"),
           File(At(<<1, 1, "Foo">>, Module) @@ At(<<1, 2, "Bar@Foo">>, Class), {<<1, 3, "Qux@Bar@Foo">>})},
          {Nests(2, "Foo", Module, "Qux@Foo"), Plain(2, "Foo", Module)},
          {Plain(3, "Qux", Class)} >>)
  \* classes that may inherit from each other
  @@ ("cycle" :>
       << {Plain(1, "Foo", Class), Inherits(1, "Foo", "Bar")},
          {Inherits(2, "Bar", "Foo"), Nests(2, "Bar", Class, "Qux@Bar")},
          {Mentions(3, "Foo", Class, "Qux@Foo")} >>)
  \* scopes that nobody may define, two levels deep
  @@ ("placeholders" :>
       << {Plain(1, "Foo", Module), Nests(1, "Foo", Module, "Qux@Foo")},
          {File(At(<<2, 1, "Foo::Qux::Deep">>, Class), {<<2, 2, "Foo">>, <<2, 3, "Foo::Qux">>})} >>)
  \* a scope that an RBS file defines, and counts once more
  @@ ("signature" :>
       << {Nests(1, "Foo", Module, "Qux@Foo")},
          {Signature(2, "Foo", "Foo", "Foo::Qux")},
          {Reads(3, <<"Foo", "Foo::Qux">>)} >>)
  \* a scope that an RBS file names inside a module, for what another defines
  @@ ("outlived_scope" :>
       << {Plain(1, "Foo", Module)}, {Signature(2, "Mix", "Foo@Mix", "Foo::Qux@Mix")} >>)
  \* a constant that is assigned and also opened or used as a scope
  @@ ("promotion" :>
       << {Plain(1, "Foo", Constant(TRUE)), Plain(1, "Foo", Constant(FALSE))},
          {Compact(2, "Foo", "Foo::Qux"), Nests(2, "Foo", Class, "Qux@Foo")},
          {Reads(3, <<"Foo", "Foo::Qux">>)} >>)
  \* a reference and a definition with one NameId
  @@ ("shared_name" :>
       << {Mentions(1, "Foo", Module, "Qux@Foo")},
          {Nests(2, "Foo", Module, "Qux@Foo")} >>)
  \* two references with one NameId
  @@ ("moved_reference" :>
       << {Reads(1, <<"::Qux">>)}, {Reads(2, <<"::Qux">>)}, {Plain(3, "Qux", Class)} >>)
  \* a constant read before its superclass is known
  @@ ("tentative" :>
       << {Inherits(1, "Foo", "Bar")},
          {Nests(2, "Bar", Class, "Qux@Bar")},
          {Mentions(3, "Foo", Class, "Qux@Foo")},
          {Plain(4, "Qux", Class)} >>)
  \* a scope that gets a constant from a compact class
  @@ ("shadowed" :>
       << {Mentions(1, "Foo", Module, "Qux@Foo")},
          {Plain(2, "Qux", Class)},
          {Compact(3, "Foo", "Foo::Qux")} >>)
  \* a superclass that outlives its subclass
  @@ ("subclass" :>
       << {Plain(1, "Bar", Class)}, {Inherits(2, "Foo", "Bar")} >>)
  \* class Mix < Bar; class Qux; end; end, and no Bar;
  \* class Foo < Mix; class Qux::Deep; end; end
  @@ ("inherited_scope" :>
       << {File(At(<<1, 1, "Mix">>, Subclass(<<1, 2, "Bar">>)) @@ At(<<1, 3, "Qux@Mix">>, Class),
                {<<1, 2, "Bar">>})},
          {File(At(<<2, 1, "Foo">>, Subclass(<<2, 2, "Mix">>)) @@ At(<<2, 3, "Qux::Deep@Foo">>, Class),
                {<<2, 2, "Mix">>, <<2, 4, "Qux@Foo">>})} >>)

(* The UriIds are sorted the other way round than the URIs.                 *)
MCUriHash == [u \in 1..4 \cup {BuiltInUri} |-> BuiltInUri - u]

MCCodeBases == [b \in Bases |-> Library[b]]
=============================================================================
