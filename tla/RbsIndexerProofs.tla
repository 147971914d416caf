-------------------------- MODULE RbsIndexerProofs --------------------------
(***************************************************************************)
(* For every program of signatures: the stacks hold what they should, the  *)
(* scope of a name in use stays in the graph, name_dependents are the uses *)
(* of names, and no name or string is released more often than it was      *)
(* counted, but for what CountedOnce and StringsCountedOnce name.          *)
(***************************************************************************)
EXTENDS RbsIndexer, VisitorProofs, FunctionTheorems

\* The name of a path is added with all its segments; only the empty path has none.
LEMMA TypeNameMade ==
  ASSUME NEW l, Good(l), Known(l, NestingName), NEW path, path.texts \in Seq(STRING)
  PROVE  /\ Spared(l, IndexTypeName(l, path))
         /\ path.texts # << >> => IndexTypeName(l, path).id # None
<1> DEFINE n == Len(path.texts)
  scope(id) == IF id # None THEN "some" ELSE IF path.base = "top" THEN "top" ELSE "none"
  add(r, x) == [l |-> AddName(r.l, x), id |-> x]
  segment(r, text) == add(r, Name(Str(text), scope(r.id), r.id, NestingName))
  start == [l |-> l, id |-> None]
  step(f, i) == IF i = 0 THEN start ELSE segment(f[i - 1], path.texts[i])
  done == CHOOSE f : f = [i \in 0..n |-> step(f, i)]
<1>1. IndexTypeName(l, path) = done[n]
  BY DEF IndexTypeName
<1>2. n \in Nat
  OBVIOUS
<1>3. \E f : f = [i \in 0..n |-> step(f, i)]
  <2> HIDE DEF n, segment, start
  <2> DEFINE S == {m \in 0..n : \E f : f = [i \in 0..m |-> step(f, i)]}
  <2>1. 0 \in S
    <3> DEFINE f == [i \in 0..0 |-> start]
    <3>1. f = [i \in 0..0 |-> step(f, i)]
      OBVIOUS
    <3> HIDE DEF f
    <3> QED
      BY <1>2, <3>1
  <2>2. ASSUME NEW m \in 0..(n - 1), m \in S PROVE m + 1 \in S
    <3>1. PICK f : f = [i \in 0..m |-> step(f, i)]
      BY <2>2
    <3> DEFINE g == [i \in 0..(m + 1) |-> IF i = m + 1 THEN segment(f[m], path.texts[m + 1]) ELSE f[i]]
    <3>2. ASSUME NEW i \in 0..(m + 1) PROVE g[i] = step(g, i)
      <4>1. CASE i = m + 1
        BY <1>2, <4>1
      <4>2. CASE i = 0
        BY <1>2, <3>1, <4>2
      <4>3. CASE i \in 1..m
        <5>1. g[i] = f[i] /\ g[i - 1] = f[i - 1] /\ f[i] = step(f, i)
          BY <1>2, <3>1, <4>3
        <5> QED
          BY <4>3, <5>1
      <4> QED
        BY <1>2, <4>1, <4>2, <4>3
    <3>3. g = [i \in 0..(m + 1) |-> step(g, i)]
      BY <3>2
    <3>4. m + 1 \in 0..n
      BY <1>2
    <3> HIDE DEF g
    <3> QED
      BY <3>3, <3>4
  <2>3. 0..n \subseteq S
    <3> HIDE DEF S
    <3> QED
      BY <1>2, <2>1, <2>2, UpTo
  <2>4. n \in S
    <3> HIDE DEF S
    <3> QED
      BY <1>2, <2>3
  <2> QED
    BY <2>4
<1>4. done = [i \in 0..n |-> step(done, i)]
  <2> HIDE DEF segment, start, n
  <2> QED
    BY <1>3
<1>5. done[0] = start /\ \A i \in 0..(n - 1) : done[i + 1] = segment(done[i], path.texts[i + 1])
  <2> HIDE DEF segment, start, n, done
  <2> QED
    BY <1>2, <1>4
<1> HIDE DEF done, n
<1> DEFINE Fine(i) == Spared(l, done[i]) /\ (i # 0 => done[i].id # None)
  S == {i \in 0..n : Fine(i)}
<1>6. Fine(0)
  BY <1>5, GrownReflexive DEF Spared, Made, Known, Grown
<1>7. ASSUME NEW i \in 0..(n - 1), i \in S PROVE i + 1 \in S
  <2> DEFINE r == done[i]
    x == Name(Str(path.texts[i + 1]), scope(r.id), r.id, NestingName)
  <2>1. Made(l, r)
    BY <1>7 DEF Spared
  <2>2. done[i + 1] = [l |-> AddName(r.l, x), id |-> x]
    BY <1>5
  <2> HIDE DEF r
  <2>3. Good(r.l) /\ Known(r.l, r.id) /\ Known(r.l, NestingName)
    BY <2>1, GrownGood, GrownKnown DEF Made
  <2>4. /\ Spare(r.l, AddName(r.l, x), x, {}) /\ x \in DOMAIN AddName(r.l, x).names
        /\ x # None
    <3> HIDE DEF scope
    <3>1. Str(path.texts[i + 1]) # None
      BY DEF Str, None
    <3> QED
      BY <2>3, <3>1, AddNameGrows
  <2> HIDE DEF x
  <2>5. Spare(l, AddName(r.l, x), x, {})
    BY <2>1, <2>4, SpareAround DEF Made
  <2>6. Grown(l, AddName(r.l, x))
    BY <2>5, SpareGrown
  <2>7. Fine(i + 1)
    BY <2>2, <2>4, <2>5, <2>6 DEF Spared, Made, Known
  <2> HIDE DEF Fine
  <2> QED
    BY <1>2, <2>7
<1>8. 0..n \subseteq S
  <2>1. 0 \in S
    BY <1>2, <1>6
  <2> HIDE DEF S
  <2> QED
    BY <1>2, <1>7, <2>1, UpTo
<1>9. Fine(n)
  BY <1>2, <1>8
<1> QED
  BY <1>1, <1>9 DEF n

-----------------------------------------------------------------------------
(* Where the visitor is, and what it registers there.                       *)

LEMMA ScopeKnown ==
  ASSUME VisitorInv({<< >>})
  PROVE  /\ ParentScopeId = None \/ ParentScopeId \in DOMAIN local_graph.defs
         /\ Known(local_graph, NestingName)
         /\ ReceiverKnown(local_graph, SelfReceiver)
<1>1. CASE nesting_stack = << >>
  BY <1>1 DEF ParentScopeId, NestingName, SelfReceiver, Known, ReceiverKnown
<1>2. CASE nesting_stack # << >>
  <2>1. Len(nesting_stack) \in DOMAIN nesting_stack
    BY <1>2, LastIndex
  <2> DEFINE e == nesting_stack[Len(nesting_stack)]
  <2>2. e.id \in DOMAIN local_graph.defs /\ Known(local_graph, local_graph.defs[e.id].name)
    BY <2>1, EntryKnown
  <2>3. ParentScopeId = e.id
    BY <1>2 DEF ParentScopeId, Last
  <2> HIDE DEF e
  <2> QED
    BY <2>2, <2>3 DEF NestingName, SelfReceiver, Known, ReceiverKnown, None
<1> QED
  BY <1>1, <1>2

LEMMA Registered ==
  ASSUME NEW l, Good(l), NEW d, DefinitionFits(l, d), d.at = Here, position \in Nat
  PROVE  /\ Turn(l, RegisterDefinition(l, d), d.name, DefinitionStrings(d), None, {})
         /\ DefinitionId(d) \in DOMAIN RegisterDefinition(l, d).defs
         /\ SameDefinition(d, RegisterDefinition(l, d).defs[DefinitionId(d)])
         /\ DefinitionId(d)[1] = Here
         /\ DefinitionId(d) \in DOMAIN l.defs => RegisterDefinition(l, d).panic
<1>1. DefinitionId(d)[1] = Here
  BY DEF DefinitionId
<1>2. ~ (DefinitionId(d)[1] < Here)
  BY <1>1 DEF Here
<1> DEFINE m == RegisterDefinition(l, d)
<1>3. m = AddMember(AddDefinition(l, d), ParentScopeId, DefinitionId(d))
  BY DEF RegisterDefinition
<1> HIDE DEF m
<1>4. /\ Turn(l, m, d.name, DefinitionStrings(d), None, {})
      /\ DefinitionId(d) \in DOMAIN m.defs /\ SameDefinition(d, m.defs[DefinitionId(d)])
      /\ DefinitionId(d) \in DOMAIN l.defs => m.panic
  BY <1>2, <1>3, AddedMember
<1> QED
  BY <1>1, <1>4 DEF m

\* What a definition releases was counted since the node began.
LEMMA RegisteredLater ==
  ASSUME NEW l, NEW m, NEW n, NEW T, Spare(l, m, n, T), NEW d, DefinitionFits(m, d),
         d.at = Here, position \in Nat,
         Enough(RegisterDefinition(m, d), n, T, d.name, DefinitionStrings(d))
  PROVE  Grown(l, RegisterDefinition(m, d))
<1>1. Good(m)
  BY SpareGrown, GrownGood
<1>2. Turn(m, RegisterDefinition(m, d), d.name, DefinitionStrings(d), None, {})
  BY <1>1, Registered
<1> QED
  BY <1>2, Spent

\* The entries of a function type, one by one.
LEMMA SevenEntries ==
  ASSUME NEW R, NEW f \in Seq(R), Len(f) = 7
  PROVE  \A i \in 1..7 : f[i] \in R
  BY ElementOfSeq

\* A string of the table is a text and two numbers.
LEMMA Triple ==
  ASSUME NEW W, NEW t \in W, NEW k \in Nat
  PROVE  <<t, k, 0>> \in W \X Nat \X {0}
OBVIOUS

\* Sequences over a set are sequences over a larger one, and are closed under \o.
LEMMA SeqGrows ==
  ASSUME NEW R, NEW W, R \subseteq W
  PROVE  Seq(R) \subseteq Seq(W)
<1> SUFFICES ASSUME NEW s \in Seq(R) PROVE s \in Seq(W)
  OBVIOUS
<1>1. s \in [1..Len(s) -> R] /\ Len(s) \in Nat
  BY LenProperties, ElementOfSeq
<1>2. s \in [1..Len(s) -> W]
  BY <1>1
<1> QED
  BY <1>1, <1>2, SeqDef

LEMMA Chain ==
  ASSUME NEW S, NEW a \in Seq(S), NEW b \in Seq(S)
  PROVE  a \o b \in Seq(S)
OBVIOUS

\* The parameters of a method are a sequence of strings, none of which is None.
LEMMA ParametersAreNamed ==
  ASSUME NEW f \in Functions
  PROVE  /\ ParameterNames(f) \in Seq({ParameterNames(f)[i] : i \in DOMAIN ParameterNames(f)})
         /\ \A i \in DOMAIN ParameterNames(f) : ParameterNames(f)[i] # None
<1> DEFINE W == STRING \cup {"arg", "args", "", "kwargs", "block"}
  S == W \X Nat \X {0}
  numbered(names, from) ==
    [i \in DOMAIN names |-> IF names[i] = "" THEN <<"arg", from + i, 0>> ELSE Str(names[i])]
  default(names, text) == [i \in DOMAIN names |-> Str(IF names[i] = "" THEN text ELSE names[i])]
<1>1. ParameterNames(f)
        = numbered(f[1], 0) \o numbered(f[2], Len(f[1])) \o default(f[3], "args")
          \o numbered(f[4], Len(f[1]) + Len(f[2])) \o default(f[5], "") \o default(f[6], "kwargs")
          \o default(f[7], "block")
  BY DEF ParameterNames
<1>2. STRING \subseteq W /\ "arg" \in W /\ "args" \in W /\ "" \in W /\ "kwargs" \in W /\ "block" \in W
  OBVIOUS
<1> HIDE DEF W
<1>3. None \notin S
  BY DEF None
<1>4. \A i \in 1..7 : f[i] \in Seq(W)
  <2>1. f \in Seq(Seq(STRING)) /\ Len(f) = 7
    BY FunctionsAssumption
  <2> DEFINE R == Seq(STRING)
  <2>2. f \in Seq(R)
    BY <2>1
  <2> HIDE DEF R
  <2>3. \A i \in 1..7 : f[i] \in R
    BY <2>1, <2>2, SevenEntries
  <2>4. R \subseteq Seq(W)
    BY <1>2, SeqGrows DEF R
  <2> QED
    BY <2>3, <2>4
<1>5. /\ f[1] \in Seq(W) /\ f[2] \in Seq(W) /\ f[3] \in Seq(W) /\ f[4] \in Seq(W)
      /\ f[5] \in Seq(W) /\ f[6] \in Seq(W) /\ f[7] \in Seq(W)
  BY <1>4
<1>6. 0 \in Nat /\ Len(f[1]) \in Nat /\ Len(f[1]) + Len(f[2]) \in Nat
  <2>1. \A s \in Seq(W) : Len(s) \in Nat
    OBVIOUS
  <2>2. Len(f[1]) \in Nat /\ Len(f[2]) \in Nat
    BY <1>5, <2>1, Zenon
  <2>3. 0 \in Nat /\ \A i \in Nat, j \in Nat : i + j \in Nat
    OBVIOUS
  <2> QED
    BY <2>2, <2>3, Zenon
<1>7. ASSUME NEW names \in Seq(W), NEW from \in Nat PROVE numbered(names, from) \in Seq(S)
  <2>1. DOMAIN names = 1..Len(names) /\ Len(names) \in Nat
    OBVIOUS
  <2>2. ASSUME NEW i \in 1..Len(names)
        PROVE  (IF names[i] = "" THEN <<"arg", from + i, 0>> ELSE Str(names[i])) \in S
    <3>1. names[i] \in W /\ from + i \in Nat
      BY <2>1
    <3>2. <<"arg", from + i, 0>> \in S
      BY <1>2, <3>1, Triple
    <3>3. Str(names[i]) \in S
      BY <3>1, Triple DEF Str
    <3> QED
      BY <3>2, <3>3
  <2> HIDE DEF S
  <2>3. numbered(names, from) \in [1..Len(names) -> S]
    BY <2>1, <2>2
  <2> QED
    BY <2>1, <2>3, SeqDef
<1>8. ASSUME NEW names \in Seq(W), NEW text \in W PROVE default(names, text) \in Seq(S)
  <2>1. DOMAIN names = 1..Len(names) /\ Len(names) \in Nat
    OBVIOUS
  <2>2. ASSUME NEW i \in 1..Len(names) PROVE Str(IF names[i] = "" THEN text ELSE names[i]) \in S
    <3> DEFINE t == IF names[i] = "" THEN text ELSE names[i]
    <3>0. names[i] \in W
      BY <2>1, ElementOfSeq
    <3>1. t \in W
      BY <3>0
    <3> HIDE DEF t
    <3>2. Str(t) \in S
      BY <3>1, Triple DEF Str
    <3> QED
      BY <3>2 DEF t
  <2> HIDE DEF S
  <2>3. default(names, text) \in [1..Len(names) -> S]
    BY <2>1, <2>2
  <2> QED
    BY <2>1, <2>3, SeqDef
<1> HIDE DEF S, numbered, default
<1>9. numbered(f[1], 0) \in Seq(S)
  BY <1>5, <1>6, <1>7
<1>10. numbered(f[2], Len(f[1])) \in Seq(S)
  BY <1>5, <1>6, <1>7
<1>11. numbered(f[4], Len(f[1]) + Len(f[2])) \in Seq(S)
  BY <1>5, <1>6, <1>7
<1>12. default(f[3], "args") \in Seq(S)
  BY <1>5, <1>8, <1>2
<1>13. default(f[5], "") \in Seq(S)
  BY <1>5, <1>8, <1>2
<1>14. default(f[6], "kwargs") \in Seq(S)
  BY <1>5, <1>8, <1>2
<1>15. default(f[7], "block") \in Seq(S)
  BY <1>5, <1>8, <1>2
<1>16. ParameterNames(f) \in Seq(S)
  <2> DEFINE two == numbered(f[1], 0) \o numbered(f[2], Len(f[1]))
    three == two \o default(f[3], "args")
    four == three \o numbered(f[4], Len(f[1]) + Len(f[2]))
    five == four \o default(f[5], "")
    six == five \o default(f[6], "kwargs")
  <2>1. two \in Seq(S)
    BY <1>9, <1>10, Chain, Zenon
  <2>2. three \in Seq(S)
    BY <2>1, <1>12, Chain, Zenon
  <2>3. four \in Seq(S)
    BY <2>2, <1>11, Chain, Zenon
  <2>4. five \in Seq(S)
    BY <2>3, <1>13, Chain, Zenon
  <2>5. six \in Seq(S)
    BY <2>4, <1>14, Chain, Zenon
  <2> QED
    BY <1>1, <2>5, <1>15, Chain, Zenon
<1> HIDE DEF ParameterNames
<1> QED
  BY <1>3, <1>16
\* The parameters of finitely many overloads are finitely many.
LEMMA ParametersAreFinite ==
  ASSUME NEW overloads, IsFiniteSet(overloads), overloads \subseteq Functions
  PROVE  IsFiniteSet(UNION {{f} \X DOMAIN ParameterNames(f) : f \in overloads})
<1> DEFINE P(f) == {f} \X DOMAIN ParameterNames(f)
  F == [f \in overloads |-> P(f)]
  T == {P(f) : f \in overloads}
<1>1. ASSUME NEW f \in overloads PROVE IsFiniteSet(P(f))
  <2> DEFINE s == ParameterNames(f)
    S == {s[i] : i \in DOMAIN s}
  <2>1. f \in Functions
    OBVIOUS
  <2>2. s \in Seq(S)
    BY <2>1, ParametersAreNamed, Zenon
  <2> HIDE DEF s, S
  <2>3. DOMAIN s = 1..Len(s) /\ Len(s) \in Nat
    BY <2>2
  <2>4. IsFiniteSet(DOMAIN s)
    BY <2>3, FS_Interval
  <2>5. IsFiniteSet({f})
    BY FS_Singleton
  <2> QED
    BY <2>4, <2>5, FS_Product DEF s
<1> HIDE DEF P
<1>2. F \in [overloads -> T] /\ \A t \in T : \E f \in overloads : F[f] = t
  OBVIOUS
<1> HIDE DEF F, T
<1>3. IsFiniteSet(T)
  BY <1>2, Fun_IsSurj, FS_Surjection
<1>4. IsFiniteSet(UNION T)
  BY <1>1, <1>3, FS_UNION DEF T
<1> QED
  BY <1>4 DEF T, P

\* The names of parameters are interned, whatever their number.
LEMMA ParametersGrow ==
  ASSUME NEW l, Good(l), NEW overloads, IsFiniteSet(overloads), overloads \subseteq Functions
  PROVE  Grown(l, CollectParameters(l, overloads))
<1> DEFINE parameters == UNION {{f} \X DOMAIN ParameterNames(f) : f \in overloads}
  name(p) == ParameterNames(p[1])[p[2]]
  uses(str) == Cardinality({p \in parameters : name(p) = str})
  all == {name(p) : p \in parameters}
  strings == [str \in DOMAIN l.strings \cup all |-> At(l.strings, str, 0) + uses(str)]
  m == [l EXCEPT !.strings = strings]
<1>1. CollectParameters(l, overloads) = m
  BY DEF CollectParameters, Good, IsGraph, Fields
<1>2. None \notin all
  <2> SUFFICES ASSUME NEW f \in overloads, NEW i \in DOMAIN ParameterNames(f),
                      ParameterNames(f)[i] = None
               PROVE  FALSE
    OBVIOUS
  <2>1. f \in Functions
    OBVIOUS
  <2> QED
    BY <2>1, ParametersAreNamed, Zenon
<1>3. IsFiniteSet(parameters)
  BY ParametersAreFinite
<1> HIDE DEF parameters
<1>4. ASSUME NEW str PROVE uses(str) \in Nat
  BY <1>3, FS_Subset, FS_CardinalityType
<1> HIDE DEF name, uses, all
<1>5. \A str : At(l.strings, str, 0) \in Nat
  BY DEF At, Good, Closed
<1>6. /\ DOMAIN strings = DOMAIN l.strings \cup all
      /\ \A str \in DOMAIN strings : strings[str] = At(l.strings, str, 0) + uses(str)
  OBVIOUS
<1> HIDE DEF strings
<1>7. IsGraph(m) /\ m.defs = l.defs /\ m.names = l.names /\ m.refs = l.refs
      /\ m.deps = l.deps /\ m.panic = l.panic /\ m.mrefs = l.mrefs /\ m.strings = strings
  BY DEF Good, IsGraph, Fields
<1> HIDE DEF m
<1>8. None \notin DOMAIN m.strings
  BY <1>2, <1>6, <1>7 DEF Good, Closed
<1>9. ASSUME NEW str \in DOMAIN m.strings PROVE m.strings[str] \in Nat
  BY <1>4, <1>5, <1>6, <1>7, <1>9
<1>10. ASSUME NEW str
       PROVE  StringBalance(l, str) + One(str \in {}) <= StringBalance(m, str) + One(str \in {})
  <2>1. At(l.strings, str, 0) <= At(m.strings, str, 0) /\ At(m.strings, str, 0) \in Nat
    BY <1>4, <1>5, <1>6, <1>7 DEF At
  <2>2. Releases(m, str) = Releases(l, str) /\ Releases(l, str) \in Nat
    BY <1>7, ReleasesAreNaturals DEF Releases
  <2>3. One(str \in {}) \in Nat
    BY CreditsAreNaturals
  <2> QED
    BY <1>5, <2>1, <2>2, <2>3 DEF StringBalance
<1>11. IsFiniteSet(m.mrefs) /\ m.panic \in BOOLEAN
  BY <1>7 DEF Good, Closed
<1>12. Turn(l, m, None, {}, None, {})
  BY <1>7, <1>8, <1>9, <1>10, <1>11, SameLinks
<1> QED
  BY <1>1, <1>12 DEF Grown, Spare

-----------------------------------------------------------------------------
(* Every action keeps the invariant.                                        *)

LEMMA TypePath ==
  /\ \A path \in TypeNames : path.texts \in Seq(STRING) /\ path.texts # << >>
  /\ NoPath.texts \in Seq(STRING)
BY PathsAssumption DEF NoPath

LEMMA TypeInv ==
  ASSUME VisitorInv({<< >>}), TypeNode
  PROVE  VisitorInv({<< >>})'
<1>1. PICK kind \in {"class", "module"}, path \in TypeNames, super \in TypeNames \cup {NoPath} :
        LET s == IndexTypeName(IndexTypeName(local_graph, path).l, super)
            l == IF super = NoPath THEN s.l ELSE TypeReference(s, Part(2))
            d == [Definition(kind, Here, IndexTypeName(local_graph, path).id, None, ParentScopeId)
                    EXCEPT !.mixins = IF super = NoPath THEN << >>
                                      ELSE <<<<"superclass", <<s.id, Part(2)>>, "path">>>>]
        IN  Enter(RegisterDefinition(l, d), Body("scope", DefinitionId(d)),
                  Modifier("public", FALSE), << >>)
  BY DEF TypeNode
<1> DEFINE r == IndexTypeName(local_graph, path)
  s == IndexTypeName(r.l, super)
  l == IF super = NoPath THEN s.l ELSE TypeReference(s, Part(2))
  mixins == IF super = NoPath THEN << >> ELSE <<<<"superclass", <<s.id, Part(2)>>, "path">>>>
  d == [Definition(kind, Here, r.id, None, ParentScopeId) EXCEPT !.mixins = mixins]
  m == RegisterDefinition(l, d)
<1>2. Enter(m, Body("scope", DefinitionId(d)), Modifier("public", FALSE), << >>)
  BY <1>1
<1>3. Good(local_graph) /\ position \in Nat
  BY PositionNat DEF VisitorInv
<1>4. Spared(local_graph, r)
  BY <1>3, ScopeKnown, TypePath, TypeNameMade
<1> HIDE DEF r
<1>5. /\ Spare(local_graph, r.l, r.id, {}) /\ Grown(local_graph, r.l)
      /\ Known(r.l, r.id) /\ Good(r.l) /\ Known(r.l, NestingName)
  BY <1>4, ScopeKnown, GrownGood, GrownKnown DEF Made, Spared
<1>6. Spared(r.l, s) /\ (super # NoPath => s.id # None)
  BY <1>5, TypePath, TypeNameMade
<1> HIDE DEF s
<1>7. Spare(r.l, s.l, s.id, {}) /\ Grown(r.l, s.l) /\ Known(s.l, s.id) /\ Good(s.l)
  BY <1>6, GrownGood DEF Made, Spared
<1>8. Grown(r.l, l)
  <2>1. CASE super = NoPath
    BY <1>7, <2>1
  <2>2. CASE super # NoPath
    <3>1. s.id \in DOMAIN s.l.names
      BY <1>6, <1>7, <2>2 DEF Known
    <3> DEFINE a == AddConstantReference(s.l, s.id, Part(2))
    <3>2. Turn(s.l, a, s.id, {}, None, {})
      BY <1>7, <3>1, AddConstantReferenceGrows
    <3>3. l = a
      BY <2>2 DEF TypeReference
    <3> HIDE DEF a, l
    <3>4. Enough(a, s.id, {}, s.id, {})
      BY EnoughToSpend
    <3> QED
      BY <1>7, <3>2, <3>3, <3>4, Spent
  <2> QED
    BY <2>1, <2>2
<1>9. \E S : mixins \in Seq(S)
  <2>1. CASE super = NoPath
    BY <2>1, NoneOfSeq
  <2>2. CASE super # NoPath
    <3> DEFINE link == <<"superclass", <<s.id, Part(2)>>, "path">>
    <3>1. mixins = <<link>>
      BY <2>2
    <3> HIDE DEF link, mixins
    <3>2. mixins \in Seq({link})
      BY <3>1
    <3> QED
      BY <3>2
  <2> QED
    BY <2>1, <2>2
<1> HIDE DEF l, mixins
<1>10. Spare(local_graph, l, r.id, {}) /\ Good(l)
  BY <1>5, <1>8, SpareAround, GrownGood
<1>11. /\ IsDefinition(d) /\ d.kind = kind /\ d.name = r.id /\ d.str = None
       /\ d.receiver = None /\ d.at = Here
  BY <1>9 DEF Definition, IsDefinition
<1> HIDE DEF d
<1>12. DefinitionFits(l, d)
  BY <1>5, <1>8, <1>11, GrownKnown DEF DefinitionFits, ReceiverKnown
<1>13. /\ DefinitionId(d) \in DOMAIN m.defs
       /\ m.defs[DefinitionId(d)].kind = kind /\ DefinitionId(d)[1] = Here
  BY <1>3, <1>10, <1>11, <1>12, Registered DEF SameDefinition
<1>14. Grown(local_graph, m)
  <2>1. DefinitionStrings(d) = {None}
    BY <1>11 DEF DefinitionStrings
  <2>2. Enough(m, r.id, {}, d.name, DefinitionStrings(d))
    BY <1>11, <2>1, EnoughToSpend
  <2> QED
    BY <1>3, <1>10, <1>11, <1>12, <2>2, RegisteredLater
<1> HIDE DEF m
<1>15. StackOK(m, Body("scope", DefinitionId(d)), Here + 100)
  <2> DEFINE id == DefinitionId(d)
  <2>1. id \in DOMAIN m.defs /\ id[1] = Here /\ m.defs[id].kind \in {"class", "module", "singleton_class"}
    BY <1>13
  <2> HIDE DEF id
  <2>2. "scope" \in Openable
    BY DEF Openable
  <2>3. StackOK(m, Body("scope", id), Here + 100)
    BY <1>3, <2>1, <2>2, BodyOK
  <2> QED
    BY <2>3 DEF id
<1>16. Modifier("public", FALSE) \in Seq(Modifiers)
  BY DEF Modifier, Modifiers
<1> QED
  BY <1>2, <1>14, <1>15, <1>16, EnterInv

LEMMA InterfaceInv ==
  ASSUME VisitorInv({<< >>}), InterfaceNode
  PROVE  VisitorInv({<< >>})'
<1>1. Grown(local_graph, local_graph)
  BY GrownReflexive DEF VisitorInv
<1>2. StackOK(local_graph, << >>, Here + 100) /\ << >> \in Seq(Modifiers)
  BY NoBodyOK
<1> QED
  BY <1>1, <1>2, EnterInv DEF InterfaceNode

LEMMA ConstantInv ==
  ASSUME VisitorInv({<< >>}), ConstantNode
  PROVE  VisitorInv({<< >>})'
<1>1. PICK path \in TypeNames :
        LET r == IndexTypeName(local_graph, path) IN
        Leaf(RegisterDefinition(r.l, Definition("constant", Here, r.id, None, ParentScopeId)))
  BY DEF ConstantNode
<1> DEFINE r == IndexTypeName(local_graph, path)
  d == Definition("constant", Here, r.id, None, ParentScopeId)
<1>2. Leaf(RegisterDefinition(r.l, d))
  BY <1>1
<1>3. Spared(local_graph, r)
  BY ScopeKnown, TypePath, TypeNameMade DEF VisitorInv
<1> HIDE DEF r
<1>4. Spare(local_graph, r.l, r.id, {}) /\ Known(r.l, r.id)
  BY <1>3 DEF Made, Spared
<1>5. /\ IsDefinition(d) /\ d.kind = "constant" /\ d.name = r.id /\ d.str = None
      /\ d.receiver = None /\ d.at = Here
  BY PlainDefinition DEF Definition
<1> HIDE DEF d
<1>6. DefinitionFits(r.l, d)
  BY <1>4, <1>5 DEF DefinitionFits, ReceiverKnown
<1>7. Enough(RegisterDefinition(r.l, d), r.id, {}, d.name, DefinitionStrings(d))
  <2>1. DefinitionStrings(d) = {None}
    BY <1>5 DEF DefinitionStrings
  <2> QED
    BY <1>5, <2>1, EnoughToSpend
<1>8. Grown(local_graph, RegisterDefinition(r.l, d))
  BY <1>4, <1>5, <1>6, <1>7, PositionNat, RegisteredLater
<1> QED
  BY <1>2, <1>8, LeafInv

LEMMA GlobalInv ==
  ASSUME VisitorInv({<< >>}), GlobalNode
  PROVE  VisitorInv({<< >>})'
<1> DEFINE x == Str("$x")
  l == InternString(local_graph, x)
  d == Definition("global_variable", Here, None, x, ParentScopeId)
<1>1. Leaf(RegisterDefinition(l, d))
  BY DEF GlobalNode
<1>2. x # None
  BY DEF Str, None
<1> HIDE DEF x
<1>3. Spare(local_graph, l, None, {x})
  BY <1>2, InternStringGrows DEF VisitorInv
<1> HIDE DEF l
<1>4. /\ IsDefinition(d) /\ d.kind = "global_variable" /\ d.name = None /\ d.str = x
      /\ d.receiver = None /\ d.at = Here
  BY PlainDefinition DEF Definition
<1> HIDE DEF d
<1>5. DefinitionFits(l, d)
  BY <1>4 DEF DefinitionFits, ReceiverKnown, Known
<1>6. Enough(RegisterDefinition(l, d), None, {x}, d.name, DefinitionStrings(d))
  <2>1. DefinitionStrings(d) = {x}
    BY <1>4 DEF DefinitionStrings
  <2> QED
    BY <1>4, <2>1, EnoughToSpend
<1>7. Grown(local_graph, RegisterDefinition(l, d))
  BY <1>3, <1>4, <1>5, <1>6, PositionNat, RegisteredLater
<1> QED
  BY <1>1, <1>7, LeafInv

LEMMA MixinInv ==
  ASSUME VisitorInv({<< >>}), MixinNode
  PROVE  VisitorInv({<< >>})'
<1>1. PICK kind \in {"include", "prepend", "extend"}, path \in TypeNames :
        Leaf(IF ParentScopeId = None THEN local_graph
             ELSE AddTypeMixin(IndexTypeName(local_graph, path), kind))
  BY DEF MixinNode
<1>2. CASE ParentScopeId = None
  <2>1. Leaf(local_graph) /\ Grown(local_graph, local_graph)
    BY <1>1, <1>2, GrownReflexive DEF VisitorInv
  <2> QED
    BY <2>1, LeafInv
<1>3. CASE ParentScopeId # None
  <2> DEFINE r == IndexTypeName(local_graph, path)
    m == AddMixin(r.l, ParentScopeId, kind, r.id, Here, "path")
  <2>1. Leaf(m)
    BY <1>1, <1>3 DEF AddTypeMixin
  <2>2. Spared(local_graph, r) /\ r.id # None
    BY ScopeKnown, TypePath, TypeNameMade DEF VisitorInv
  <2> HIDE DEF r
  <2>3. Spare(local_graph, r.l, r.id, {}) /\ Good(r.l) /\ r.id \in DOMAIN r.l.names
    BY <2>2, GrownGood DEF Made, Spared, Known
  <2>4. ParentScopeId \in DOMAIN r.l.defs
    BY <1>3, <2>2, ScopeKnown DEF Spared, Made, Grown, Spare, Turn, Larger
  <2>5. Turn(r.l, m, r.id, {}, None, {})
    BY <2>3, <2>4, AddMixinGrows
  <2> HIDE DEF m
  <2>6. Enough(m, r.id, {}, r.id, {})
    BY EnoughToSpend
  <2>7. Grown(local_graph, m)
    BY <2>3, <2>5, <2>6, Spent
  <2> QED
    BY <2>1, <2>7, LeafInv
<1> QED
  BY <1>2, <1>3

LEMMA AliasInv ==
  ASSUME VisitorInv({<< >>}), AliasNode
  PROVE  VisitorInv({<< >>})'
<1>1. PICK kind \in {"instance", "singleton"} :
        LET d == [Definition("method_alias", Here, None, Str("g()"), ParentScopeId) EXCEPT
                    !.target = Str("f()"),
                    !.receiver = IF kind = "instance" THEN None ELSE SelfReceiver]
            l == InternString(InternString(local_graph, Str("g()")), Str("f()"))
        IN  Leaf(RegisterDefinition(l, d))
  BY DEF AliasNode
<1> DEFINE receiver == IF kind = "instance" THEN None ELSE SelfReceiver
  g == Str("g()")
  f == Str("f()")
  d == [Definition("method_alias", Here, None, g, ParentScopeId) EXCEPT
          !.target = f, !.receiver = receiver]
  k == InternString(local_graph, g)
  l == InternString(k, f)
<1>2. Leaf(RegisterDefinition(l, d))
  BY <1>1
<1>3. ReceiverKnown(local_graph, receiver)
  BY ScopeKnown DEF ReceiverKnown
<1>4. f # None /\ g # None /\ f # g
  BY DEF Str, None
<1> HIDE DEF k, receiver, f, g
<1>5. Spare(local_graph, k, None, {g})
  BY <1>4, InternStringGrows DEF VisitorInv, k
<1>6. Spare(local_graph, l, None, {g} \cup {f})
  BY <1>4, <1>5, InternedSpare
<1> HIDE DEF l
<1>7. /\ IsDefinition(d) /\ d.kind = "method_alias" /\ d.name = None /\ d.receiver = receiver
      /\ d.at = Here /\ d.str = g /\ d.target = f
  BY NoneOfSeq DEF Definition, IsDefinition
<1> HIDE DEF d
<1>8. DefinitionFits(l, d)
  BY <1>3, <1>6, <1>7, GrownReceiver, SpareGrown DEF DefinitionFits, Known
<1>9. Enough(RegisterDefinition(l, d), None, {g} \cup {f}, d.name, DefinitionStrings(d))
  <2>1. DefinitionStrings(d) = {g, f}
    BY <1>7 DEF DefinitionStrings
  <2> QED
    BY <1>7, <2>1, EnoughToSpend
<1>10. Grown(local_graph, RegisterDefinition(l, d))
  BY <1>6, <1>7, <1>8, <1>9, PositionNat, RegisteredLater
<1> QED
  BY <1>2, <1>10, LeafInv

\* A method whose receiver is the scope of the body, or that has none.
LEMMA MethodFits ==
  ASSUME VisitorInv({<< >>}), NEW l, Grown(local_graph, l), NEW receiver \in {None, SelfReceiver},
         NEW visibility, NEW d, d = MethodOf(receiver, visibility)
  PROVE  /\ DefinitionFits(l, d) /\ d.kind = "method" /\ d.at = Here /\ d.name = None
         /\ d.str = Str("f()") /\ DefinitionStrings(d) = {Str("f()")}
<1> DEFINE f == Str("f()")
<1> HIDE DEF f
<1>1. /\ IsDefinition(d) /\ d.kind = "method" /\ d.name = None /\ d.receiver = receiver
      /\ d.at = Here /\ d.str = f
  BY NoneOfSeq DEF Definition, IsDefinition, MethodOf, f
<1>2. ReceiverKnown(local_graph, receiver)
  BY ScopeKnown DEF ReceiverKnown
<1>3. DefinitionFits(l, d)
  BY <1>1, <1>2, GrownReceiver DEF DefinitionFits, Known
<1>4. DefinitionStrings(d) = {f}
  BY <1>1 DEF DefinitionStrings
<1> QED
  BY <1>1, <1>3, <1>4 DEF f

LEMMA MethodRegistered ==
  ASSUME VisitorInv({<< >>}), NEW l, Spare(local_graph, l, None, {Str("f()")}),
         NEW receiver \in {None, SelfReceiver}, NEW visibility
  PROVE  Grown(local_graph, RegisterDefinition(l, MethodOf(receiver, visibility)))
<1> DEFINE d == MethodOf(receiver, visibility)
  f == Str("f()")
<1> HIDE DEF d, f
<1>1. Spare(local_graph, l, None, {f}) /\ Grown(local_graph, l)
  BY SpareGrown DEF f
<1>2. DefinitionFits(l, d) /\ d.at = Here /\ d.name = None /\ DefinitionStrings(d) = {f}
  BY <1>1, MethodFits DEF d, f
<1>3. Enough(RegisterDefinition(l, d), None, {f}, d.name, DefinitionStrings(d))
  BY <1>2, EnoughToSpend
<1>4. Grown(local_graph, RegisterDefinition(l, d))
  BY <1>1, <1>2, <1>3, PositionNat, RegisteredLater
<1> QED
  BY <1>4 DEF d

\* def self?.f counts f once, for two definitions.
LEMMA PairRegistered ==
  ASSUME VisitorInv({<< >>}), NEW l, Spare(local_graph, l, None, {Str("f()")})
  PROVE  Grown(local_graph, MethodPair(l))
<1> DEFINE f == Str("f()")
  c == MethodOf(SelfReceiver, "public")
  d == MethodOf(None, "private")
  k == RegisterDefinition(l, c)
  m == RegisterDefinition(k, d)
<1>1. m = MethodPair(l)
  BY DEF MethodPair
<1>2. Grown(local_graph, l) /\ Good(l)
  BY SpareGrown, GrownGood
<1>3. Grown(local_graph, k) /\ Good(k)
  BY MethodRegistered, GrownGood
<1>4. DefinitionFits(l, c) /\ c.at = Here /\ c.str = f
  BY <1>2, MethodFits
<1>5. DefinitionFits(k, d) /\ d.at = Here /\ d.name = None /\ d.str = f /\ DefinitionStrings(d) = {f}
  BY <1>3, MethodFits
<1> HIDE DEF f, c, d
<1>6. /\ DefinitionId(c) \in DOMAIN k.defs
      /\ k.defs[DefinitionId(c)].at = Here /\ k.defs[DefinitionId(c)].str = f
  BY <1>2, <1>4, PositionNat, Registered DEF SameDefinition
<1> HIDE DEF k
<1>7. /\ Turn(k, m, None, {f}, None, {}) /\ DefinitionId(d) \in DOMAIN m.defs
      /\ m.defs[DefinitionId(d)].at = Here /\ m.defs[DefinitionId(d)].str = f
      /\ DefinitionId(d) \in DOMAIN k.defs => m.panic
  <2>1. /\ Turn(k, m, d.name, DefinitionStrings(d), None, {}) /\ DefinitionId(d) \in DOMAIN m.defs
        /\ SameDefinition(d, m.defs[DefinitionId(d)])
        /\ DefinitionId(d) \in DOMAIN k.defs => m.panic
    BY <1>3, <1>5, PositionNat, Registered
  <2> HIDE DEF m
  <2> QED
    BY <1>5, <2>1 DEF SameDefinition
<1> HIDE DEF m
<1>8. Enough(m, None, {}, None, {f})
  <2>1. CASE DefinitionId(c) = DefinitionId(d)
    BY <1>6, <1>7, <2>1 DEF Enough
  <2>2. CASE DefinitionId(c) # DefinitionId(d) /\ ~ m.panic
    <3> DEFINE x == DefinitionId(c)
      y == DefinitionId(d)
    <3>1. x \in DOMAIN m.defs /\ m.defs[x].at = Here /\ m.defs[x].str = f
      BY <1>6, <1>7, <2>2 DEF Turn, Extends, SameDefinition
    <3>2. y \in DOMAIN m.defs /\ m.defs[y].at = Here /\ m.defs[y].str = f /\ x # y
      BY <1>7, <2>2
    <3> HIDE DEF x, y
    <3>3. f \in StringsCountedOnce(m)
      BY <3>1, <3>2, CountedForBoth
    <3> QED
      BY <3>3 DEF Enough
  <2> QED
    BY <2>1, <2>2 DEF Enough
<1>9. Grown(local_graph, m)
  BY <1>3, <1>7, <1>8, Spent DEF Grown
<1> QED
  BY <1>1, <1>9

LEMMA MethodInv ==
  ASSUME VisitorInv({<< >>}), MethodNode
  PROVE  VisitorInv({<< >>})'
<1>1. PICK kind \in {"instance", "singleton", "singleton_instance"},
           declared \in {"private", "public", "unspecified"},
           overloads \in SUBSET Functions \ {{}} :
        LET l == CollectParameters(InternString(local_graph, Str("f()")), overloads)
            instance == MethodOf(None, IF declared = "unspecified" THEN Visibility ELSE declared)
            singleton == MethodOf(SelfReceiver, IF declared = "private" THEN "private" ELSE "public")
        IN  /\ IsFiniteSet(overloads)
            /\ Leaf(CASE kind = "singleton_instance" -> MethodPair(l)
                      [] kind = "instance" -> RegisterDefinition(l, instance)
                      [] kind = "singleton" -> RegisterDefinition(l, singleton))
  BY DEF MethodNode
<1> DEFINE f == Str("f()")
  k == InternString(local_graph, f)
  l == CollectParameters(k, overloads)
  v == IF declared = "unspecified" THEN Visibility ELSE declared
  w == IF declared = "private" THEN "private" ELSE "public"
<1>2. /\ IsFiniteSet(overloads)
      /\ Leaf(CASE kind = "singleton_instance" -> MethodPair(l)
                [] kind = "instance" -> RegisterDefinition(l, MethodOf(None, v))
                [] kind = "singleton" -> RegisterDefinition(l, MethodOf(SelfReceiver, w)))
  BY <1>1
<1>3. Spare(local_graph, k, None, {f}) /\ Good(k)
  <2>1. f # None
    BY DEF Str, None
  <2> HIDE DEF f
  <2> QED
    BY <2>1, InternStringGrows, GrownGood DEF VisitorInv
<1> HIDE DEF k, v, w
<1>4. Grown(k, l)
  BY <1>2, <1>3, ParametersGrow
<1> HIDE DEF l
<1>5. Spare(local_graph, l, None, {f})
  BY <1>3, <1>4, SpareAround
<1>6. Grown(local_graph, MethodPair(l))
  BY <1>5, PairRegistered
<1>7. Grown(local_graph, RegisterDefinition(l, MethodOf(None, v)))
  BY <1>5, MethodRegistered
<1>8. Grown(local_graph, RegisterDefinition(l, MethodOf(SelfReceiver, w)))
  BY <1>5, MethodRegistered
<1>9. \E m : Grown(local_graph, m) /\ Leaf(m)
  BY <1>2, <1>6, <1>7, <1>8
<1> QED
  BY <1>9, LeafInv

-----------------------------------------------------------------------------

\* The calls of the visitor match, the graph is closed, and name_dependents are
\* exact: what the traversal of any RBS file keeps.
THEOREM RbsInvariant == RbsSpec => []VisitorInv({<< >>})
<1>1. RbsInit => VisitorInv({<< >>})
  BY StartInv DEF RbsInit
<1>2. VisitorInv({<< >>}) /\ [RbsNext]_vars => VisitorInv({<< >>})'
  <2> SUFFICES ASSUME VisitorInv({<< >>}), [RbsNext]_vars PROVE VisitorInv({<< >>})'
    OBVIOUS
  <2>1. CASE TypeNode
    BY <2>1, TypeInv
  <2>2. CASE InterfaceNode
    BY <2>2, InterfaceInv
  <2>3. CASE RbsLeave
    BY <2>3, CloseInv, GrownReflexive DEF RbsLeave, VisitorInv
  <2>4. CASE ConstantNode
    BY <2>4, ConstantInv
  <2>5. CASE GlobalNode
    BY <2>5, GlobalInv
  <2>6. CASE MixinNode
    BY <2>6, MixinInv
  <2>7. CASE AliasNode
    BY <2>7, AliasInv
  <2>8. CASE MethodNode
    BY <2>8, MethodInv
  <2>9. CASE VisibilityNode
    BY <2>9, FlagInv DEF VisibilityNode
  <2>10. CASE UNCHANGED vars
    BY <2>10, StutterInv
  <2> QED
    BY <2>1, <2>2, <2>3, <2>4, <2>5, <2>6, <2>7, <2>8, <2>9, <2>10 DEF RbsNext
<1> QED
  BY <1>1, <1>2, PTL DEF RbsSpec

\* In every RBS file: each entry of the nesting stack is a definition of a kind that
\* can have a body, and a visibility is in effect.
THEOREM RbsStacks == RbsSpec => []IndexerTypeOK
<1>1. VisitorInv({<< >>}) => IndexerTypeOK
  BY InvImpliesProperties
<1> QED
  BY <1>1, RbsInvariant, PTL

\* In every RBS file: the scope and the nesting of a name in use stay in the graph.
THEOREM RbsScopesKept == RbsSpec => []ScopesKept
<1>1. VisitorInv({<< >>}) => ScopesKept
  BY InvImpliesProperties
<1> QED
  BY <1>1, RbsInvariant, PTL

\* In every RBS file: name_dependents list exactly the uses of a name.
THEOREM RbsDependents == RbsSpec => []DependentsComplete
<1>1. VisitorInv({<< >>}) => DependentsComplete
  BY InvImpliesProperties
<1> QED
  BY <1>1, RbsInvariant, PTL

\* In every RBS file: removing the file releases no name more often than the file
\* counted it, but for the names in CountedOnce.
THEOREM RbsNamesCovered == RbsSpec => []NamesCovered
<1>1. VisitorInv({<< >>}) => NamesCovered
  BY InvImpliesProperties
<1> QED
  BY <1>1, RbsInvariant, PTL

\* In every RBS file: nor any string, but for those of such names, the old names of
\* aliases, and the name of a def self?.f.
THEOREM RbsStringsCovered == RbsSpec => []StringsCovered
<1>1. VisitorInv({<< >>}) => StringsCovered
  BY InvImpliesProperties
<1> QED
  BY <1>1, RbsInvariant, PTL

=============================================================================
