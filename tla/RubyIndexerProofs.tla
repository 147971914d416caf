------------------------- MODULE RubyIndexerProofs -------------------------
(***************************************************************************)
(* For every Ruby program: the stacks hold what they should, the scope of  *)
(* a name in use stays in the graph, name_dependents are the uses of       *)
(* names, and no name or string is released more often than it was         *)
(* counted, but for what CountedOnce and StringsCountedOnce name.          *)
(* Operator by operator, what the visitor adds to a graph that has grown   *)
(* since the node began only makes it grow further.                        *)
(***************************************************************************)
EXTENDS RubyIndexer, VisitorProofs

\* A receiver or an argument: of a path, only its length matters to the proofs.
IsOperand(receiver) ==
  /\ receiver.kind \in {"self", "singleton", "call", "constant"}
  /\ Len(receiver.path.texts) \in Nat

\* What the end of a node may have left to index: the call of a block, or new.
Calls ==
  {NoCall} \cup ({Self, Dynamic, Constant(Read("Class")), Constant(Read("Module"))}
                  \X {"foo", "new"} \X Nat)

RubyInv == VisitorInv(Calls)

\* l is the graph at some moment of the visit of the current node.
Now(l) == RubyInv /\ Grown(local_graph, l)

-----------------------------------------------------------------------------
(* Where the visitor is.                                                    *)

LEMMA InnermostKnown ==
  ASSUME RubyInv, NEW kinds
  PROVE  /\ Innermost(kinds) = None \/ Innermost(kinds) \in DOMAIN local_graph.defs
         /\ Known(local_graph, NameOfDefinition(Innermost(kinds)))
<1> DEFINE open == {i \in DOMAIN nesting_stack : nesting_stack[i].kind \in kinds}
  i == CHOOSE i \in open : \A j \in open : j <= i
<1>1. CASE open = {}
  BY <1>1 DEF Innermost, NameOfDefinition, Known
<1>2. CASE open # {}
  <2>1. \E k \in open : \A j \in open : j <= k
    <3>1. open \subseteq 1..Len(nesting_stack) /\ Len(nesting_stack) \in Nat
      <4> DEFINE S == [kind: Openable, id: DOMAIN local_graph.defs]
      <4>1. nesting_stack \in Seq(S)
        BY DEF RubyInv, VisitorInv, StackOK
      <4> HIDE DEF S
      <4> QED
        BY <4>1
    <3> HIDE DEF open
    <3> QED
      BY <1>2, <3>1, Largest
  <2>2. i \in DOMAIN nesting_stack
    BY <2>1
  <2>3. Innermost(kinds) = nesting_stack[i].id
    BY <1>2 DEF Innermost
  <2> HIDE DEF i
  <2>4. nesting_stack[i].id \in DOMAIN local_graph.defs
        /\ Known(local_graph, local_graph.defs[nesting_stack[i].id].name)
    BY <2>2, EntryKnown DEF RubyInv
  <2> QED
    BY <2>3, <2>4 DEF NameOfDefinition, Known
<1> QED
  BY <1>1, <1>2

LEMMA Whereabouts ==
  ASSUME NEW l, Now(l)
  PROVE  /\ Good(l) /\ position \in Nat
         /\ Known(l, None) /\ Known(l, LexicalScopeName) /\ Known(l, OwnerName)
         /\ ReceiverKnown(l, None) /\ ReceiverKnown(l, SelfReceiver)
<1>1. Good(l) /\ position \in Nat
  BY GrownGood, PositionNat DEF Now, RubyInv
<1>2. Known(local_graph, LexicalScopeName) /\ Known(local_graph, OwnerName)
  BY InnermostKnown DEF Now, LexicalScopeName, OwnerName, ParentLexicalScope, CurrentNesting
<1>3. CurrentNesting = None \/ CurrentNesting \in DOMAIN local_graph.defs
  BY InnermostKnown DEF Now, CurrentNesting
<1>4. ReceiverKnown(local_graph, SelfReceiver)
  BY <1>3 DEF ReceiverKnown, SelfReceiver, None
<1>5. Known(l, LexicalScopeName) /\ Known(l, OwnerName)
  BY <1>2, GrownKnown DEF Now
<1>6. ReceiverKnown(l, SelfReceiver)
  BY <1>4, GrownReceiver DEF Now
<1> QED
  BY <1>1, <1>5, <1>6 DEF Known, ReceiverKnown

LEMMA NowLater == ASSUME NEW l, Now(l), NEW m, Grown(l, m) PROVE Now(m)
BY GrownTransitive DEF Now

LEMMA NowMade ==
  ASSUME NEW l, Now(l), NEW r, Made(l, r)
  PROVE  Now(r.l) /\ Good(r.l) /\ Grown(l, r.l) /\ Known(r.l, r.id)
BY NowLater, GrownGood DEF Made

\* A definition at or after the beginning of the node.
LEMMA Placed ==
  ASSUME NEW l, Now(l), NEW d, DefinitionFits(l, d), d.at \in Nat, Here <= d.at, NEW owner,
         NEW m, m = AddMember(AddDefinition(l, d), owner, DefinitionId(d))
  PROVE  /\ Turn(l, m, d.name, DefinitionStrings(d), None, {})
         /\ DefinitionId(d) \in DOMAIN m.defs /\ SameDefinition(d, m.defs[DefinitionId(d)])
         /\ DefinitionId(d) \in DOMAIN l.defs => m.panic
         /\ DefinitionId(d)[1] = d.at
<1> DEFINE id == DefinitionId(d)
<1>1. id[1] = d.at
  BY DEF DefinitionId
<1>2. Good(l) /\ ~ (id[1] < Here)
  <2>1. Here \in Nat
    BY PositionNat DEF Now, RubyInv
  <2> QED
    BY <1>1, <2>1, GrownGood DEF Now
<1> QED
  BY <1>1, <1>2, AddedMember

-----------------------------------------------------------------------------
(* References.                                                              *)

\* The last name of a path is one to spare, unless the path is a reference to it.
LEMMA ConstantReferenceMade ==
  ASSUME NEW l, Now(l), NEW path, Len(path.texts) \in Nat, NEW push \in BOOLEAN, NEW at
  PROVE  /\ Made(l, IndexConstantReference(l, path, push, at))
         /\ ~ push => Spared(l, IndexConstantReference(l, path, push, at))
         /\ push /\ IndexConstantReference(l, path, push, at).id # None =>
              <<IndexConstantReference(l, path, push, at).id, at + Len(path.texts)>>
                \in IndexConstantReference(l, path, push, at).l.refs
<1> DEFINE n == Len(path.texts)
  name(r, i) == Name(Str(path.texts[i]), r.scope, r.id, LexicalScopeName)
  link(k, i, x) == IF push \/ i < n THEN AddConstantReference(k, x, at + i) ELSE k
  segment(r, i) == IF i = 1 /\ path.base = "dynamic" THEN r
                   ELSE [l |-> link(AddName(r.l, name(r, i)), i, name(r, i)),
                         scope |-> "some", id |-> name(r, i)]
  start == [l |-> l, id |-> None, scope |-> IF path.base = "top" THEN "top" ELSE "none"]
  step(f, i) == IF i = 0 THEN start ELSE segment(f[i - 1], i)
  done == CHOOSE f : f = [i \in 0..n |-> step(f, i)]
<1>1. IndexConstantReference(l, path, push, at) = done[n]
  BY DEF IndexConstantReference
<1>2. n \in Nat
  OBVIOUS
<1>3. \E f : f = [i \in 0..n |-> step(f, i)]
  <2> HIDE DEF n, segment, start
  <2> DEFINE S == {m \in 0..n : \E f : f = [i \in 0..m |-> step(f, i)]}
  <2>1. 0 \in S
    <3> DEFINE f == [i \in 0..0 |-> start]
    <3>1. f = [i \in 0..0 |-> step(f, i)]
      OBVIOUS
    <3> HIDE DEF f
    <3> QED
      BY <1>2, <3>1
  <2>2. ASSUME NEW m \in 0..(n - 1), m \in S PROVE m + 1 \in S
    <3>1. PICK f : f = [i \in 0..m |-> step(f, i)]
      BY <2>2
    <3> DEFINE g == [i \in 0..(m + 1) |-> IF i = m + 1 THEN segment(f[m], m + 1) ELSE f[i]]
    <3>2. ASSUME NEW i \in 0..(m + 1) PROVE g[i] = step(g, i)
      <4>1. CASE i = m + 1
        BY <1>2, <4>1
      <4>2. CASE i = 0
        BY <1>2, <3>1, <4>2
      <4>3. CASE i \in 1..m
        <5>1. g[i] = f[i] /\ g[i - 1] = f[i - 1] /\ f[i] = step(f, i)
          BY <1>2, <3>1, <4>3
        <5> QED
          BY <4>3, <5>1
      <4> QED
        BY <1>2, <4>1, <4>2, <4>3
    <3>3. g = [i \in 0..(m + 1) |-> step(g, i)]
      BY <3>2
    <3>4. m + 1 \in 0..n
      BY <1>2
    <3> HIDE DEF g
    <3> QED
      BY <3>3, <3>4
  <2>3. 0..n \subseteq S
    <3> HIDE DEF S
    <3> QED
      BY <1>2, <2>1, <2>2, UpTo
  <2>4. n \in S
    <3> HIDE DEF S
    <3> QED
      BY <1>2, <2>3
  <2> QED
    BY <2>4
<1>4. done = [i \in 0..n |-> step(done, i)]
  <2> HIDE DEF segment, start, n
  <2> QED
    BY <1>3
<1>5. done[0] = start /\ \A i \in 0..(n - 1) : done[i + 1] = segment(done[i], i + 1)
  <2> HIDE DEF segment, start, n, done
  <2> QED
    BY <1>2, <1>4
<1>6. Good(l) /\ Known(l, LexicalScopeName)
  BY Whereabouts
<1> HIDE DEF done, n
<1> DEFINE Fine(i) ==
    /\ Made(l, done[i])
    /\ ~ push /\ i = n => Spare(l, done[i].l, done[i].id, {})
    /\ push /\ done[i].id # None => <<done[i].id, at + i>> \in done[i].l.refs
  S == {i \in 0..n : Fine(i)}
<1>7. Fine(0)
  BY <1>5, <1>6, GrownReflexive DEF Made, Known, Grown
<1>8. ASSUME NEW i \in 0..(n - 1), i \in S PROVE i + 1 \in S
  <2> DEFINE r == done[i]
    x == name(r, i + 1)
    named == AddName(r.l, x)
    m == link(named, i + 1, x)
  <2>1. Made(l, r)
    BY <1>8
  <2>2. CASE i + 1 = 1 /\ path.base = "dynamic"
    <3>1. done[i + 1] = start
      <4>1. i = 0
        BY <1>2, <2>2
      <4>2. done[i + 1] = r
        BY <1>5, <2>2
      <4> HIDE DEF start
      <4> QED
        BY <1>5, <4>1, <4>2
    <3>2. Fine(i + 1)
      BY <1>6, <3>1, GrownReflexive DEF Made, Known, Grown
    <3> HIDE DEF Fine
    <3> QED
      BY <1>2, <3>2
  <2>3. CASE ~ (i + 1 = 1 /\ path.base = "dynamic")
    <3>1. done[i + 1] = [l |-> m, scope |-> "some", id |-> x]
      BY <1>5, <2>3
    <3>2. Good(r.l) /\ Known(r.l, r.id) /\ Known(r.l, LexicalScopeName)
      BY <1>6, <2>1, GrownGood, GrownKnown DEF Made
    <3>3. Spare(r.l, named, x, {}) /\ x \in DOMAIN named.names
      <4>1. Str(path.texts[i + 1]) # None
        BY DEF Str, None
      <4> HIDE DEF r
      <4> QED
        BY <3>2, <4>1, AddNameGrows
    <3> HIDE DEF r, x, named
    <3>4. Spare(l, named, x, {}) /\ Grown(l, named) /\ Good(named)
      BY <2>1, <3>3, SpareAround, SpareGrown, GrownGood DEF Made
    <3>5. CASE push \/ i + 1 < n
      <4> DEFINE a == AddConstantReference(named, x, at + (i + 1))
      <4>1. m = a
        BY <3>5
      <4>2. /\ Turn(named, a, x, {}, None, {}) /\ <<x, at + (i + 1)>> \in a.refs
            /\ x \in DOMAIN a.names
        BY <3>3, <3>4, AddConstantReferenceGrows
      <4> HIDE DEF a
      <4>3. Enough(a, x, {}, x, {})
        BY EnoughToSpend
      <4>4. Grown(l, a)
        BY <3>4, <4>2, <4>3, Spent
      <4> HIDE DEF m
      <4>5. Made(l, done[i + 1])
        BY <3>1, <4>1, <4>2, <4>4 DEF Made, Known
      <4>6. ~ push => i + 1 # n
        BY <1>2, <3>5
      <4>7. Fine(i + 1)
        BY <3>1, <4>1, <4>2, <4>5, <4>6
      <4> HIDE DEF Fine
      <4> QED
        BY <1>2, <4>7
    <3>6. CASE ~ (push \/ i + 1 < n)
      <4>1. m = named
        BY <3>6
      <4> HIDE DEF m
      <4>2. Made(l, done[i + 1])
        BY <3>1, <3>3, <3>4, <4>1 DEF Made, Known
      <4>3. Fine(i + 1)
        BY <3>1, <3>4, <3>6, <4>1, <4>2
      <4> HIDE DEF Fine
      <4> QED
        BY <1>2, <4>3
    <3> QED
      BY <3>5, <3>6
  <2> QED
    BY <2>2, <2>3
<1>9. 0..n \subseteq S
  <2>1. 0 \in S
    BY <1>2, <1>7
  <2> HIDE DEF S
  <2> QED
    BY <1>2, <1>8, <2>1, UpTo
<1>10. Fine(n)
  BY <1>2, <1>9
<1> QED
  BY <1>1, <1>10 DEF Spared, n

LEMMA SelfMade ==
  ASSUME NEW l, Now(l)
  PROVE  Made(l, SelfOf(l))
<1>1. CASE nesting_stack = << >>
  <2> DEFINE m == AddName(l, ObjectName)
  <2>1. Grown(l, m) /\ ObjectName \in DOMAIN m.names
    <3>1. Str("Object") # None
      BY DEF Str, None
    <3> QED
      BY <3>1, Whereabouts, AddNameGrows, SpareGrown DEF ObjectName
  <2>2. SelfOf(l) = [l |-> m, id |-> ObjectName, singleton |-> FALSE]
    BY <1>1 DEF SelfOf
  <2> HIDE DEF m
  <2> QED
    BY <2>1, <2>2 DEF Made, Known
<1>2. CASE nesting_stack # << >>
  <2> DEFINE d == l.defs[Last(nesting_stack).id]
    link == IF d.receiver[1] = "self" THEN l.defs[d.receiver[2]].name ELSE d.receiver[2]
  <2>1. Good(l) /\ Known(l, OwnerName) /\ Grown(l, l)
    BY Whereabouts, GrownReflexive
  <2>2. Last(nesting_stack).id \in DOMAIN l.defs
    <3>1. Len(nesting_stack) \in DOMAIN nesting_stack
      BY <1>2, LastIndex DEF Now, RubyInv
    <3>2. nesting_stack[Len(nesting_stack)].id \in DOMAIN local_graph.defs
      BY <3>1, EntryKnown DEF Now, RubyInv
    <3> QED
      BY <3>2 DEF Last, Now, Grown, Spare, Turn, Larger
  <2>3. DefinitionFits(l, d)
    BY <2>1, <2>2 DEF Good, Closed
  <2>4. SelfOf(l) = IF ~ InMethod THEN [l |-> l, id |-> d.name, singleton |-> TRUE]
                    ELSE IF d.receiver = None THEN [l |-> l, id |-> OwnerName, singleton |-> FALSE]
                    ELSE [l |-> l, singleton |-> TRUE, id |-> link]
    BY <1>2 DEF SelfOf
  <2> HIDE DEF d
  <2>5. d.receiver # None => Known(l, link)
    BY <2>1, <2>3 DEF DefinitionFits, ReceiverKnown, Good, Closed
  <2> HIDE DEF link
  <2>6. Known(l, d.name)
    BY <2>3 DEF DefinitionFits
  <2> QED
    BY <2>1, <2>4, <2>5, <2>6 DEF Made
<1> QED
  BY <1>1, <1>2

LEMMA AttachMade ==
  ASSUME NEW l, Now(l), NEW r, Made(l, r), NEW at
  PROVE  Made(l, Attach(r, at))
<1>1. CASE r.id = None \/ ~ r.singleton
  BY <1>1 DEF Attach
<1>2. CASE ~ (r.id = None \/ ~ r.singleton)
  <2> DEFINE n == AttachedName(r.id, None)
    named == AddName(r.l, n)
    m == AddConstantReference(named, n, at)
  <2>1. Good(r.l) /\ Known(r.l, r.id) /\ Known(r.l, None) /\ Grown(l, r.l)
    BY NowMade, Whereabouts
  <2>2. Spare(r.l, named, n, {}) /\ n \in DOMAIN named.names
    <3>1. SingletonStr(r.id[1]) # None
      BY DEF SingletonStr, None
    <3> QED
      BY <2>1, <3>1, AddNameGrows DEF AttachedName
  <2>3. Attach(r, at) = [r EXCEPT !.l = m, !.id = n]
    BY <1>2 DEF Attach
  <2> HIDE DEF n, named
  <2>4. Turn(named, m, n, {}, None, {}) /\ n \in DOMAIN m.names
    BY <2>2, SpareGrown, GrownGood, AddConstantReferenceGrows
  <2> HIDE DEF m
  <2>5. Grown(l, m)
    <3>1. Enough(m, n, {}, n, {})
      BY EnoughToSpend
    <3>2. Grown(r.l, m)
      BY <2>2, <2>4, <3>1, Spent
    <3> QED
      BY <2>1, <3>2, GrownTransitive
  <2>6. {"l", "id"} \subseteq DOMAIN r
    BY DEF Made
  <2>7. Attach(r, at).l = m /\ Attach(r, at).id = n /\ DOMAIN Attach(r, at) = DOMAIN r
    BY <2>3, <2>6
  <2> QED
    BY <2>4, <2>5, <2>6, <2>7 DEF Made, Known
<1> QED
  BY <1>1, <1>2

LEMMA ReceiverMade ==
  ASSUME NEW l, Now(l), NEW receiver, IsOperand(receiver), NEW at
  PROVE  Made(l, MethodReceiver(l, receiver, at))
<1> DEFINE singleton(r) == [l |-> r.l, id |-> r.id, singleton |-> TRUE]
<1>1. Len(receiver.path.texts) \in Nat /\ receiver.kind \in {"self", "singleton", "call", "constant"}
  BY DEF IsOperand
<1>2. ASSUME NEW r, Made(l, r) PROVE Made(l, singleton(r))
  BY <1>2 DEF Made
<1>3. CASE receiver.kind = "self"
  <2>1. Made(l, Attach(SelfOf(l), at))
    BY SelfMade, AttachMade
  <2> QED
    BY <1>3, <2>1 DEF MethodReceiver
<1>4. CASE receiver.kind = "singleton"
  <2> DEFINE r == Attach(SelfOf(l), at)
  <2>1. Made(l, r)
    BY SelfMade, AttachMade
  <2>2. MethodReceiver(l, receiver, at) = Attach(singleton(r), at + 1)
    BY <1>4 DEF MethodReceiver
  <2> HIDE DEF r
  <2>3. Made(l, singleton(r))
    BY <1>2, <2>1
  <2> HIDE DEF singleton
  <2> QED
    BY <2>2, <2>3, AttachMade
<1>5. CASE receiver.kind = "call"
  <2>1. Known(l, None) /\ Grown(l, l)
    BY Whereabouts, GrownReflexive
  <2> QED
    BY <1>5, <2>1 DEF MethodReceiver, Made
<1>6. CASE receiver.kind = "constant"
  <2> DEFINE r == IndexConstantReference(l, receiver.path, TRUE, at)
  <2>1. Made(l, r)
    BY <1>1, ConstantReferenceMade
  <2>2. MethodReceiver(l, receiver, at) = Attach(singleton(r), at)
    BY <1>6 DEF MethodReceiver
  <2> HIDE DEF r
  <2>3. Made(l, singleton(r))
    BY <1>2, <2>1
  <2> HIDE DEF singleton
  <2> QED
    BY <2>2, <2>3, AttachMade
<1> QED
  BY <1>1, <1>3, <1>4, <1>5, <1>6

LEMMA MethodReferenceGrows ==
  ASSUME NEW l, Now(l), NEW text, NEW at, NEW receiver
  PROVE  Grown(l, IndexMethodReference(l, text, at, receiver))
<1> DEFINE str == Str(text)
  k == InternString(l, str)
  m == AddMethodReference(k, str, at, receiver)
<1>1. IndexMethodReference(l, text, at, receiver) = m
  BY DEF IndexMethodReference
<1>2. str # None
  BY DEF Str, None
<1> HIDE DEF str
<1>3. Spare(l, k, None, {str}) /\ Good(k)
  BY <1>2, Whereabouts, InternStringGrows, GrownGood
<1> HIDE DEF k
<1>4. Turn(k, m, None, {str}, None, {})
  BY <1>3, AddMethodReferenceGrows
<1> HIDE DEF m
<1>5. Enough(m, None, {str}, None, {str})
  BY EnoughToSpend
<1> QED
  BY <1>1, <1>3, <1>4, <1>5, Spent

LEMMA CallOnGrows ==
  ASSUME NEW l, Now(l), NEW r, Made(l, r), NEW text, NEW at
  PROVE  Grown(l, CallOn(r, text, at))
<1>1. Now(r.l) /\ Grown(l, r.l)
  BY NowMade
<1>2. Grown(r.l, CallOn(r, text, at))
  BY <1>1, MethodReferenceGrows DEF CallOn
<1> QED
  BY <1>1, <1>2, GrownTransitive

LEMMA OperandKinds ==
  /\ IsOperand(Self) /\ IsOperand(SelfSingleton) /\ IsOperand(Dynamic)
  /\ \A path : Len(path.texts) \in Nat => IsOperand(Constant(path))
<1>1. Len(NoPath.texts) \in Nat
  BY DEF NoPath
<1>2. IsOperand(Self) /\ IsOperand(SelfSingleton) /\ IsOperand(Dynamic)
  BY <1>1 DEF IsOperand, Self, SelfSingleton, Dynamic, Receiver
<1>3. \A path : Len(path.texts) \in Nat => IsOperand(Constant(path))
  BY DEF IsOperand, Constant, Receiver
<1> QED
  BY <1>2, <1>3

LEMMA VisitedGrows ==
  ASSUME NEW l, Now(l), NEW receiver, NEW at
  PROVE  Grown(l, VisitReceiver(l, receiver, at))
<1>1. CASE receiver.kind = "call"
  <2>1. Made(l, MethodReceiver(l, Self, at + 4))
    BY OperandKinds, ReceiverMade
  <2>2. Grown(l, CallOn(MethodReceiver(l, Self, at + 4), "foo", at))
    BY <2>1, CallOnGrows
  <2> QED
    BY <1>1, <2>2 DEF VisitReceiver
<1>2. CASE receiver.kind = "singleton"
  <2>1. Grown(l, IndexMethodReference(l, "singleton_class", at, None))
    BY MethodReferenceGrows
  <2> QED
    BY <1>2, <2>1 DEF VisitReceiver
<1>3. CASE receiver.kind # "call" /\ receiver.kind # "singleton"
  BY <1>3, Whereabouts, GrownReflexive DEF VisitReceiver
<1> QED
  BY <1>1, <1>2, <1>3

LEMMA KnownReceiverMade ==
  ASSUME NEW l, Now(l), NEW receiver, IsOperand(receiver), NEW at
  PROVE  Made(l, KnownReceiver(l, receiver, at))
<1> DEFINE r == MethodReceiver(l, receiver, at)
<1>1. Made(l, r)
  BY ReceiverMade
<1>2. KnownReceiver(l, receiver, at)
        = IF r.id = None THEN [r EXCEPT !.l = VisitReceiver(@, receiver, at)] ELSE r
  BY DEF KnownReceiver
<1> HIDE DEF r
<1>3. CASE r.id = None
  <2> DEFINE m == VisitReceiver(r.l, receiver, at)
    s == [r EXCEPT !.l = m]
  <2>1. Now(r.l) /\ Grown(l, r.l) /\ {"l", "id"} \subseteq DOMAIN r
    BY <1>1, NowMade DEF Made
  <2>2. Grown(r.l, m)
    BY <2>1, VisitedGrows
  <2> HIDE DEF m
  <2>3. Grown(l, m)
    BY <2>1, <2>2, GrownTransitive
  <2>4. s.l = m /\ s.id = None /\ DOMAIN s = DOMAIN r
    BY <1>3, <2>1
  <2>5. Made(l, s)
    BY <2>1, <2>3, <2>4 DEF Made, Known
  <2> QED
    BY <1>2, <1>3, <2>5 DEF m
<1>4. CASE r.id # None
  BY <1>1, <1>2, <1>4
<1> QED
  BY <1>3, <1>4

LEMMA CallGrows ==
  ASSUME NEW l, Now(l), NEW receiver, IsOperand(receiver), NEW text, NEW at
  PROVE  Grown(l, CallReference(l, receiver, text, at))
BY KnownReceiverMade, CallOnGrows DEF CallReference

-----------------------------------------------------------------------------
(* Definitions.                                                             *)

LEMMA Offsets ==
  ASSUME RubyInv, NEW i \in Nat
  PROVE  Here \in Nat /\ Here <= Here /\ Part(i) \in Nat /\ Here <= Part(i)
<1>1. Here \in Nat
  BY PositionNat DEF RubyInv
<1> HIDE DEF Here
<1> QED
  BY <1>1 DEF Part

LEMMA PathTexts ==
  /\ \A path \in ScopePaths \cup Paths :
       Len(path.texts) \in Nat /\ Len(path.texts) < 10 /\ IsOperand(Constant(path))
  /\ Len(NoPath.texts) \in Nat
  /\ \A text : Len(Read(text).texts) \in Nat /\ IsOperand(Constant(Read(text)))
<1>1. ASSUME NEW path \in ScopePaths \cup Paths
      PROVE  Len(path.texts) \in Nat /\ Len(path.texts) < 10
  <2>1. path.texts \in Seq(STRING)
    BY PathsAssumption
  <2> QED
    BY <2>1, OffsetsAssumption
<1>2. Len(NoPath.texts) \in Nat
  BY DEF NoPath
<1>3. \A text : Len(Read(text).texts) \in Nat
  BY DEF Read
<1> QED
  BY <1>1, <1>2, <1>3, OperandKinds

\* What a definition adds to a graph, whatever its owner.
LEMMA Adds ==
  ASSUME NEW l, Now(l), NEW d, DefinitionFits(l, d), d.at \in Nat, Here <= d.at,
         NEW m \in {Owned(l, d), Scoped(l, d)}
  PROVE  /\ Turn(l, m, d.name, DefinitionStrings(d), None, {})
         /\ DefinitionId(d) \in DOMAIN m.defs /\ SameDefinition(d, m.defs[DefinitionId(d)])
         /\ DefinitionId(d) \in DOMAIN l.defs => m.panic
         /\ DefinitionId(d)[1] = d.at
<1>1. CASE m = Owned(l, d)
  <2>1. m = AddMember(AddDefinition(l, d), CurrentNesting, DefinitionId(d))
    BY <1>1 DEF Owned
  <2> QED
    BY <2>1, Placed
<1>2. CASE m = Scoped(l, d)
  <2>1. m = AddMember(AddDefinition(l, d), ParentLexicalScope, DefinitionId(d))
    BY <1>2 DEF Scoped
  <2> QED
    BY <2>1, Placed
<1> QED
  BY <1>1, <1>2

\* A definition releases what was counted since k.
LEMMA AddedGrows ==
  ASSUME NEW k, NEW l, NEW n, NEW T, Spare(k, l, n, T), Now(l),
         NEW d, DefinitionFits(l, d), d.at \in Nat, Here <= d.at,
         NEW m \in {Owned(l, d), Scoped(l, d)},
         Enough(m, n, T, d.name, DefinitionStrings(d))
  PROVE  Grown(k, m)
BY Adds, Spent

LEMMA OwnedGrows ==
  ASSUME NEW k, NEW l, NEW n, NEW T, Spare(k, l, n, T), Now(l),
         NEW d, DefinitionFits(l, d), d.at \in Nat, Here <= d.at,
         Enough(Owned(l, d), n, T, d.name, DefinitionStrings(d))
  PROVE  Grown(k, Owned(l, d))
<1> DEFINE m == Owned(l, d)
<1>1. m \in {Owned(l, d), Scoped(l, d)}
  OBVIOUS
<1>2. Enough(m, n, T, d.name, DefinitionStrings(d))
  OBVIOUS
<1> HIDE DEF m
<1>3. Grown(k, m)
  BY <1>1, <1>2, AddedGrows
<1> QED
  BY <1>3 DEF m

\* What the operators return that open a body: the graph and, unless they gave up,
\* the definition made.
Opened(l, r, kind) ==
  /\ {"l", "id"} \subseteq DOMAIN r /\ Grown(l, r.l)
  /\ r.id # None => r.id \in DOMAIN r.l.defs /\ r.l.defs[r.id].kind = kind /\ r.id[1] = Here

LEMMA SuperclassGrows ==
  ASSUME NEW l, Now(l), NEW path, Len(path.texts) \in Nat, NEW at
  PROVE  /\ Grown(l, Superclass(l, path, at).l)
         /\ \E S : Superclass(l, path, at).links \in Seq(S)
<1> DEFINE r == IndexConstantReference(l, path, FALSE, at)
  m == AddConstantReference(r.l, r.id, at)
  link == <<"superclass", <<r.id, at>>, "path">>
<1>1. Made(l, r) /\ Spared(l, r)
  BY ConstantReferenceMade
<1>2. Superclass(l, path, at)
        = IF r.id = None THEN [l |-> r.l, links |-> << >>] ELSE [l |-> m, links |-> <<link>>]
  BY DEF Superclass
<1> HIDE DEF r, link
<1>3. Spare(l, r.l, r.id, {}) /\ Grown(l, r.l) /\ Known(r.l, r.id) /\ Good(r.l)
  BY <1>1, NowMade DEF Spared
<1>4. CASE r.id = None
  BY <1>2, <1>3, <1>4, NoneOfSeq
<1>5. CASE r.id # None
  <2>1. Turn(r.l, m, r.id, {}, None, {})
    BY <1>3, <1>5, AddConstantReferenceGrows DEF Known
  <2> HIDE DEF m
  <2>2. Enough(m, r.id, {}, r.id, {})
    BY EnoughToSpend
  <2>3. Grown(l, m)
    BY <1>3, <2>1, <2>2, Spent
  <2>4. <<link>> \in Seq({link})
    OBVIOUS
  <2> DEFINE result == Superclass(l, path, at)
  <2>5. result.l = m /\ result.links = <<link>>
    BY <1>2, <1>5
  <2> HIDE DEF result
  <2>6. Grown(l, result.l) /\ \E S : result.links \in Seq(S)
    BY <2>3, <2>4, <2>5
  <2> QED
    BY <2>6 DEF result
<1> QED
  BY <1>4, <1>5

LEMMA NameOrAnonymousMade ==
  ASSUME NEW l, Now(l), NEW path, Len(path.texts) \in Nat, NEW at
  PROVE  Spared(l, NameOrAnonymous(l, path, at))
<1>1. CASE path = NoPath
  <2> DEFINE n == Name(Anonymous(position), "none", None, None)
    m == AddName(l, n)
  <2>1. Spare(l, m, n, {}) /\ Grown(l, m) /\ n \in DOMAIN m.names
    <3>1. Anonymous(position) # None
      BY DEF Anonymous, None
    <3> QED
      BY <3>1, Whereabouts, AddNameGrows, SpareGrown
  <2>2. NameOrAnonymous(l, path, at) = [l |-> m, id |-> n]
    BY <1>1 DEF NameOrAnonymous
  <2> HIDE DEF m, n
  <2> QED
    BY <2>1, <2>2 DEF Made, Spared, Known
<1>2. CASE path # NoPath
  BY <1>2, ConstantReferenceMade DEF NameOrAnonymous
<1> QED
  BY <1>1, <1>2

LEMMA NamespaceOpened ==
  ASSUME RubyInv, NEW kind \in {"class", "module"}, NEW path, Len(path.texts) \in Nat,
         NEW super, Len(super.texts) \in Nat
  PROVE  Opened(local_graph, Namespace(kind, path, super), kind)
<1> DEFINE s == Superclass(local_graph, super, Part(2))
  r == NameOrAnonymous(s.l, path, Here)
  d == [Definition(kind, Here, r.id, None, ParentLexicalScope) EXCEPT !.mixins = s.links]
  m == Scoped(r.l, d)
  result == Namespace(kind, path, super)
<1>1. result = IF r.id = None THEN [l |-> r.l, id |-> None]
               ELSE [l |-> m, id |-> DefinitionId(d)]
  BY DEF Namespace
<1> HIDE DEF result
<1>2. Now(local_graph)
  BY GrownReflexive DEF Now, RubyInv, VisitorInv
<1>3. Grown(local_graph, s.l) /\ Now(s.l) /\ \E S : s.links \in Seq(S)
  BY <1>2, SuperclassGrows, NowLater
<1> HIDE DEF s
<1>4. Spared(s.l, r)
  BY <1>3, NameOrAnonymousMade
<1> HIDE DEF r
<1>5. /\ Now(r.l) /\ Known(r.l, r.id) /\ Grown(local_graph, r.l) /\ ReceiverKnown(r.l, None)
      /\ Spare(local_graph, r.l, r.id, {})
  <2>1. Made(s.l, r) /\ Spare(s.l, r.l, r.id, {})
    BY <1>4 DEF Spared
  <2> QED
    BY <1>3, <2>1, NowMade, GrownTransitive, Whereabouts, SpareAround
<1>6. /\ IsDefinition(d) /\ d.kind = kind /\ d.name = r.id /\ d.receiver = None /\ d.at = Here
      /\ d.str = None
  BY <1>3 DEF Definition, IsDefinition
<1> HIDE DEF d
<1>7. DefinitionFits(r.l, d)
  BY <1>5, <1>6 DEF DefinitionFits
<1>8. /\ Grown(local_graph, m) /\ DefinitionId(d) \in DOMAIN m.defs
      /\ m.defs[DefinitionId(d)].kind = kind /\ DefinitionId(d)[1] = Here
  <2>1. Here \in Nat /\ Here <= Here
    BY Offsets
  <2>2. m \in {Owned(r.l, d), Scoped(r.l, d)}
    OBVIOUS
  <2> HIDE DEF m
  <2>3. /\ DefinitionId(d) \in DOMAIN m.defs /\ SameDefinition(d, m.defs[DefinitionId(d)])
        /\ DefinitionId(d)[1] = d.at
    BY <1>5, <1>6, <1>7, <2>1, <2>2, Adds
  <2>4. DefinitionStrings(d) = {None}
    BY <1>6 DEF DefinitionStrings
  <2>5. Enough(m, r.id, {}, d.name, DefinitionStrings(d))
    BY <1>6, <2>4, EnoughToSpend
  <2>6. Grown(local_graph, m)
    BY <1>5, <1>6, <1>7, <2>1, <2>2, <2>5, AddedGrows
  <2> QED
    BY <1>6, <2>3, <2>6 DEF SameDefinition
<1> HIDE DEF m
<1>9. Opened(local_graph, result, kind)
  BY <1>1, <1>5, <1>8 DEF Opened
<1> QED
  BY <1>9 DEF result

LEMMA SingletonOpened ==
  ASSUME RubyInv, NEW target, IsOperand(target), target.kind \in {"self", "call", "constant"}
  PROVE  Opened(local_graph, SingletonClass(target), "singleton_class")
<1> DEFINE r == CASE target.kind = "self" -> [l |-> local_graph, id |-> LexicalScopeName]
                  [] target.kind = "call" -> [l |-> VisitReceiver(local_graph, target, Here), id |-> None]
                  [] target.kind = "constant" ->
                       IndexConstantReference(local_graph, target.path, TRUE, Here)
  n == AttachedName(r.id, LexicalScopeName)
  named == AddName(r.l, n)
  d == Definition("singleton_class", Here, n, None, ParentLexicalScope)
  m == Owned(named, d)
  result == SingletonClass(target)
<1>1. result = IF r.id = None THEN [l |-> r.l, id |-> None]
               ELSE [l |-> m, id |-> DefinitionId(d)]
  BY DEF SingletonClass
<1> HIDE DEF result
<1>2. Now(local_graph) /\ Grown(local_graph, local_graph)
  BY GrownReflexive DEF Now, RubyInv, VisitorInv
<1>3. Made(local_graph, r)
  <2>1. CASE target.kind = "self"
    <3>1. r = [l |-> local_graph, id |-> LexicalScopeName]
      BY <2>1
    <3> HIDE DEF r
    <3>2. Made(local_graph, r)
      BY <1>2, <3>1, Whereabouts DEF Made
    <3> QED
      BY <3>2 DEF r
  <2>2. CASE target.kind = "call"
    <3> DEFINE visited == VisitReceiver(local_graph, target, Here)
    <3>1. r = [l |-> visited, id |-> None]
      BY <2>2
    <3>2. Grown(local_graph, visited)
      BY <1>2, VisitedGrows
    <3> HIDE DEF r, visited
    <3>3. Made(local_graph, r)
      BY <3>1, <3>2 DEF Made, Known
    <3> QED
      BY <3>3 DEF r
  <2>3. CASE target.kind = "constant"
    <3>1. r = IndexConstantReference(local_graph, target.path, TRUE, Here)
      BY <2>3
    <3>2. Len(target.path.texts) \in Nat
      BY DEF IsOperand
    <3> HIDE DEF r
    <3>3. Made(local_graph, r)
      BY <1>2, <3>1, <3>2, ConstantReferenceMade
    <3> QED
      BY <3>3 DEF r
  <2> QED
    BY <2>1, <2>2, <2>3
<1> HIDE DEF r
<1>4. /\ Now(r.l) /\ Known(r.l, r.id) /\ Grown(local_graph, r.l) /\ Good(r.l)
      /\ Known(r.l, LexicalScopeName)
  BY <1>2, <1>3, NowMade, Whereabouts
<1>5. Spare(r.l, named, n, {}) /\ n \in DOMAIN named.names
  <2>1. SingletonStr(r.id[1]) # None
    BY DEF SingletonStr, None
  <2> QED
    BY <1>4, <2>1, AddNameGrows DEF AttachedName
<1> HIDE DEF named, n
<1>6. /\ Now(named) /\ ReceiverKnown(named, None) /\ Spare(local_graph, named, n, {})
  BY <1>4, <1>5, NowLater, Whereabouts, SpareGrown, SpareAround
<1>7. /\ IsDefinition(d) /\ d.kind = "singleton_class" /\ d.name = n /\ d.receiver = None
      /\ d.at = Here /\ d.str = None
  BY PlainDefinition DEF Definition
<1> HIDE DEF d
<1>8. DefinitionFits(named, d)
  BY <1>5, <1>6, <1>7 DEF DefinitionFits, Known
<1>9. /\ Grown(local_graph, m) /\ DefinitionId(d) \in DOMAIN m.defs
      /\ m.defs[DefinitionId(d)].kind = "singleton_class" /\ DefinitionId(d)[1] = Here
  <2>1. Here \in Nat /\ Here <= Here
    BY Offsets
  <2>2. m \in {Owned(named, d), Scoped(named, d)}
    OBVIOUS
  <2> HIDE DEF m
  <2>3. /\ DefinitionId(d) \in DOMAIN m.defs /\ SameDefinition(d, m.defs[DefinitionId(d)])
        /\ DefinitionId(d)[1] = d.at
    BY <1>6, <1>7, <1>8, <2>1, <2>2, Adds
  <2>4. DefinitionStrings(d) = {None}
    BY <1>7 DEF DefinitionStrings
  <2>5. Enough(m, n, {}, d.name, DefinitionStrings(d))
    BY <1>7, <2>4, EnoughToSpend
  <2>6. Grown(local_graph, m)
    BY <1>6, <1>7, <1>8, <2>1, <2>2, <2>5, AddedGrows
  <2> QED
    BY <1>7, <2>3, <2>6 DEF SameDefinition
<1> HIDE DEF m
<1>10. Opened(local_graph, result, "singleton_class")
  BY <1>1, <1>4, <1>9 DEF Opened
<1> QED
  BY <1>10 DEF result

LEMMA ParametersGrow ==
  ASSUME NEW l, Now(l), NEW default, Len(default.texts) \in Nat
  PROVE  Grown(l, CollectParameters(l, default))
<1>1. CASE default = NoPath
  BY <1>1, Whereabouts, GrownReflexive DEF CollectParameters
<1>2. CASE default # NoPath
  <2> DEFINE k == InternString(l, Str("x"))
    r == IndexConstantReference(k, default, TRUE, Part(5))
  <2>1. Grown(l, k)
    <3>1. Str("x") # None
      BY DEF Str, None
    <3> QED
      BY <3>1, Whereabouts, InternStringGrows
  <2>2. CollectParameters(l, default) = r.l
    BY <1>2 DEF CollectParameters, IndexReference
  <2> HIDE DEF k
  <2>3. Made(k, r)
    BY <2>1, NowLater, ConstantReferenceMade
  <2> HIDE DEF r
  <2>4. Grown(k, r.l)
    BY <2>3 DEF Made
  <2> QED
    BY <2>1, <2>2, <2>4, GrownTransitive
<1> QED
  BY <1>1, <1>2

\* A method whose receiver is known, as it is added to its owner.
LEMMA MethodFits ==
  ASSUME NEW l, Now(l), NEW receiver, ReceiverKnown(l, receiver), NEW visibility,
         NEW d, d = MethodOf(receiver, visibility)
  PROVE  /\ DefinitionFits(l, d) /\ d.kind = "method" /\ d.at = Here /\ d.name = None
         /\ d.str = Str("f()") /\ DefinitionStrings(d) = {Str("f()")}
         /\ Here \in Nat /\ Here <= Here
<1> DEFINE f == Str("f()")
<1> HIDE DEF f
<1>1. /\ IsDefinition(d) /\ d.kind = "method" /\ d.name = None /\ d.receiver = receiver
      /\ d.at = Here /\ d.str = f
  BY NoneOfSeq DEF Definition, IsDefinition, MethodOf, f
<1>2. Here \in Nat /\ Here <= Here
  BY PositionNat DEF Now, RubyInv
<1>3. DefinitionFits(l, d)
  BY <1>1 DEF DefinitionFits, Known
<1>4. DefinitionStrings(d) = {f}
  BY <1>1 DEF DefinitionStrings
<1> QED
  BY <1>1, <1>2, <1>3, <1>4 DEF f

LEMMA MethodAdded ==
  ASSUME NEW k, NEW l, Now(l), Spare(k, l, None, {Str("f()")}),
         NEW receiver, ReceiverKnown(l, receiver), NEW visibility
  PROVE  LET d == MethodOf(receiver, visibility) IN
         Opened(k, [l |-> Owned(l, d), id |-> DefinitionId(d)], "method")
<1> DEFINE d == MethodOf(receiver, visibility)
  f == Str("f()")
  m == Owned(l, d)
<1>1. /\ DefinitionFits(l, d) /\ d.kind = "method" /\ d.at = Here /\ d.name = None
      /\ DefinitionStrings(d) = {f} /\ Here \in Nat /\ Here <= Here
  BY MethodFits
<1>2. Spare(k, l, None, {f})
  OBVIOUS
<1> HIDE DEF d, f
<1>3. m \in {Owned(l, d), Scoped(l, d)}
  OBVIOUS
<1> HIDE DEF m
<1>4. /\ DefinitionId(d) \in DOMAIN m.defs /\ SameDefinition(d, m.defs[DefinitionId(d)])
      /\ DefinitionId(d)[1] = d.at
  BY <1>1, <1>3, Adds
<1>5. Enough(m, None, {f}, d.name, DefinitionStrings(d))
  BY <1>1, EnoughToSpend
<1>6. Grown(k, m)
  BY <1>1, <1>2, <1>3, <1>5, AddedGrows
<1>7. Opened(k, [l |-> m, id |-> DefinitionId(d)], "method")
  BY <1>1, <1>4, <1>6 DEF Opened, SameDefinition
<1> QED
  BY <1>7 DEF d, m

\* module_function counts f once, for two definitions.
LEMMA PairAdded ==
  ASSUME NEW k, NEW l, Now(l), Spare(k, l, None, {Str("f()")}), Now(Owned(l, MethodOf(SelfReceiver, "public")))
  PROVE  LET d == MethodOf(None, "private")
             first == Owned(l, MethodOf(SelfReceiver, "public"))
         IN  Opened(k, [l |-> Owned(first, d), id |-> DefinitionId(d)], "method")
<1> DEFINE f == Str("f()")
  c == MethodOf(SelfReceiver, "public")
  d == MethodOf(None, "private")
  x == DefinitionId(c)
  y == DefinitionId(d)
  first == Owned(l, c)
  m == Owned(first, d)
<1>1. DefinitionFits(l, c) /\ c.at = Here /\ c.str = f /\ Here \in Nat /\ Here <= Here
  BY Whereabouts, MethodFits
<1>2. Grown(k, first)
  <2>1. Opened(k, [l |-> first, id |-> x], "method")
    BY Whereabouts, MethodAdded
  <2> HIDE DEF first, x
  <2> QED
    BY <2>1 DEF Opened
<1>3. /\ DefinitionFits(first, d) /\ d.kind = "method" /\ d.at = Here /\ d.name = None /\ d.str = f
      /\ DefinitionStrings(d) = {f}
  BY Whereabouts, MethodFits
<1>4. Now(first) /\ first \in {Owned(l, c), Scoped(l, c)}
  OBVIOUS
<1> HIDE DEF f, c, d, first
<1>5. x \in DOMAIN first.defs /\ first.defs[x].at = Here /\ first.defs[x].str = f
  BY <1>1, <1>4, Adds DEF SameDefinition
<1>6. m \in {Owned(first, d), Scoped(first, d)}
  OBVIOUS
<1> HIDE DEF m
<1>7. /\ Turn(first, m, d.name, DefinitionStrings(d), None, {})
      /\ y \in DOMAIN m.defs /\ SameDefinition(d, m.defs[y])
      /\ y \in DOMAIN first.defs => m.panic
      /\ y[1] = d.at
  BY <1>1, <1>3, <1>4, <1>6, Adds
<1> HIDE DEF x, y
<1>8. Enough(m, None, {}, d.name, DefinitionStrings(d))
  <2>1. CASE x = y
    BY <1>5, <1>7, <2>1 DEF Enough
  <2>2. CASE x # y /\ ~ m.panic
    <3>1. x \in DOMAIN m.defs /\ m.defs[x].at = Here /\ m.defs[x].str = f
      BY <1>5, <1>7, <2>2 DEF Turn, Extends, SameDefinition
    <3>2. y \in DOMAIN m.defs /\ m.defs[y].at = Here /\ m.defs[y].str = f /\ x # y
      BY <1>3, <1>7, <2>2 DEF SameDefinition
    <3>3. f \in StringsCountedOnce(m)
      BY <3>1, <3>2, CountedForBoth
    <3> QED
      BY <1>3, <3>3 DEF Enough
  <2> QED
    BY <2>1, <2>2 DEF Enough
<1>9. Grown(k, m)
  BY <1>1, <1>2, <1>3, <1>4, <1>6, <1>8, AddedGrows DEF Grown
<1>10. Opened(k, [l |-> m, id |-> y], "method")
  BY <1>3, <1>7, <1>9 DEF Opened, SameDefinition
<1> QED
  BY <1>10 DEF d, m, first, c, y

LEMMA MethodOpened ==
  ASSUME RubyInv, NEW receiver, receiver.kind \in {"none", "self", "constant"},
         receiver.kind = "constant" => Len(receiver.path.texts) \in Nat,
         NEW default, Len(default.texts) \in Nat, NEW visibility
  PROVE  Opened(local_graph, Method(receiver, default, visibility), "method")
<1> DEFINE k == InternString(local_graph, Str("f()"))
  l == CollectParameters(k, default)
  add(before, d) == [l |-> Owned(before, d), id |-> DefinitionId(d)]
  r == IndexConstantReference(l, receiver.path, TRUE, Here)
  link == IF r.id = None THEN None ELSE <<"constant", r.id>>
  pair == receiver.kind = "none" /\ visibility = "module_function"
  first == Owned(l, MethodOf(SelfReceiver, "public"))
  result == Method(receiver, default, visibility)
<1>1. result = CASE receiver.kind = "constant" -> add(r.l, MethodOf(link, "public"))
                 [] receiver.kind = "self" -> add(l, MethodOf(SelfReceiver, "public"))
                 [] pair -> add(first, MethodOf(None, "private"))
                 [] OTHER -> add(l, MethodOf(None, visibility))
  BY DEF Method
<1> HIDE DEF result
<1>2. Now(local_graph) /\ Grown(local_graph, local_graph)
  BY GrownReflexive DEF Now, RubyInv, VisitorInv
<1>3. Spare(local_graph, k, None, {Str("f()")}) /\ Now(k)
  <2> DEFINE f == Str("f()")
  <2>1. f # None
    BY DEF Str, None
  <2> HIDE DEF f
  <2>2. Spare(local_graph, k, None, {f}) /\ Grown(local_graph, k)
    BY <1>2, <2>1, InternStringGrows, Whereabouts DEF f
  <2> HIDE DEF k
  <2> QED
    BY <1>2, <2>2, NowLater DEF f
<1> HIDE DEF k
<1>4. Now(l) /\ Spare(local_graph, l, None, {Str("f()")})
  BY <1>3, ParametersGrow, NowLater, SpareAround
<1> HIDE DEF l
<1>5. CASE receiver.kind = "constant"
  <2>1. Made(l, r)
    BY <1>4, <1>5, ConstantReferenceMade
  <2>2. result = add(r.l, MethodOf(link, "public"))
    BY <1>1, <1>5
  <2> HIDE DEF r
  <2>3. Now(r.l) /\ Known(r.l, r.id) /\ Spare(local_graph, r.l, None, {Str("f()")})
    BY <1>4, <2>1, NowMade, SpareAround
  <2>4. ReceiverKnown(r.l, link)
    BY <2>3 DEF ReceiverKnown
  <2> HIDE DEF link
  <2>5. Opened(local_graph, result, "method")
    BY <2>2, <2>3, <2>4, MethodAdded
  <2> QED
    BY <2>5 DEF result
<1>6. CASE receiver.kind = "self"
  <2>1. result = add(l, MethodOf(SelfReceiver, "public"))
    BY <1>1, <1>6
  <2>2. Opened(local_graph, result, "method")
    BY <1>4, <2>1, Whereabouts, MethodAdded
  <2> QED
    BY <2>2 DEF result
<1>7. CASE receiver.kind = "none" /\ visibility = "module_function"
  <2>1. result = add(first, MethodOf(None, "private"))
    BY <1>1, <1>7
  <2>2. Now(first)
    <3>1. Opened(local_graph, [l |-> first, id |-> DefinitionId(MethodOf(SelfReceiver, "public"))], "method")
      BY <1>4, Whereabouts, MethodAdded
    <3> HIDE DEF first
    <3> QED
      BY <1>2, <3>1, NowLater DEF Opened
  <2>3. Opened(local_graph, result, "method")
    BY <1>4, <2>1, <2>2, PairAdded
  <2> QED
    BY <2>3 DEF result
<1>8. CASE receiver.kind = "none" /\ visibility # "module_function"
  <2>1. result = add(l, MethodOf(None, visibility))
    BY <1>1, <1>8
  <2>2. Opened(local_graph, result, "method")
    BY <1>4, <2>1, Whereabouts, MethodAdded
  <2> QED
    BY <2>2 DEF result
<1> QED
  BY <1>5, <1>6, <1>7, <1>8

-----------------------------------------------------------------------------
(* Visits of nodes with a body.                                             *)

LEMMA LeafKeeps ==
  ASSUME RubyInv, NEW l, Grown(local_graph, l), Leaf(l)
  PROVE  RubyInv'
BY LeafInv DEF RubyInv

LEMMA NodeBegins == ASSUME RubyInv PROVE Now(local_graph) /\ Grown(local_graph, local_graph)
BY GrownReflexive DEF Now, RubyInv, VisitorInv

LEMMA DescendKeeps ==
  ASSUME RubyInv, NEW r, NEW kind, Opened(local_graph, r, kind), NEW entry \in Openable,
         entry = "scope" => kind \in {"class", "module", "singleton_class"},
         entry = "owner" => kind \in {"class", "module"},
         entry = "method" => kind = "method",
         NEW modifiers \in Seq(Modifiers), NEW call \in Calls, Descend(r, entry, modifiers, call)
  PROVE  RubyInv'
<1>1. /\ r.id \in DOMAIN r.l.defs /\ r.l.defs[r.id].kind = kind /\ r.id[1] = Here
      /\ Grown(local_graph, r.l)
  BY DEF Opened, Descend
<1>2. position \in Nat
  BY PositionNat DEF RubyInv
<1>3. StackOK(r.l, Body(entry, r.id), Here + 100)
  BY <1>1, <1>2, BodyOK
<1>4. Enter(r.l, Body(entry, r.id), modifiers, call)
  BY DEF Descend
<1> QED
  BY <1>1, <1>3, <1>4, EnterInv DEF RubyInv

LEMMA ModifierOK ==
  ASSUME NEW visibility \in {"public", "private", "protected", "module_function"}, NEW inline \in BOOLEAN
  PROVE  Modifier(visibility, inline) \in Seq(Modifiers)
BY DEF Modifier, Modifiers

LEMMA LeaveKeeps ==
  ASSUME RubyInv, Leave
  PROVE  RubyInv'
<1> DEFINE call == Last(frames).call
<1>1. call \in Calls
  <2> DEFINE Frames == [nested: BOOLEAN, modifiers: Seq(Modifiers), call: Calls, begin: Nat]
  <2>1. frames \in Seq(Frames) /\ frames # << >>
    BY DEF RubyInv, VisitorInv, Leave, Close
  <2> HIDE DEF Frames
  <2>2. Last(frames) \in Frames
    BY <2>1 DEF Last
  <2> QED
    BY <2>2 DEF Frames
<1>2. Close(AfterBody(call))
  BY DEF Leave
<1> HIDE DEF call
<1>3. Grown(local_graph, AfterBody(call))
  <2>1. CASE call = NoCall
    BY <2>1, NodeBegins DEF AfterBody
  <2>2. CASE call # NoCall
    <3>1. IsOperand(call[1])
      <4>1. call[1] \in {Self, Dynamic, Constant(Read("Class")), Constant(Read("Module"))}
        BY <1>1, <2>2 DEF Calls
      <4> QED
        BY <4>1, OperandKinds, PathTexts
    <3>2. Grown(local_graph, CallReference(local_graph, call[1], call[2], call[3]))
      BY <3>1, NodeBegins, CallGrows
    <3> QED
      BY <2>2, <3>2 DEF AfterBody
  <2> QED
    BY <2>1, <2>2
<1> QED
  BY <1>2, <1>3, CloseInv DEF RubyInv

LEMMA ClassOrModuleKeeps ==
  ASSUME RubyInv, ClassOrModuleNode
  PROVE  RubyInv'
<1>1. PICK kind \in {"class", "module"}, path \in ScopePaths, super \in ScopePaths \cup {NoPath} :
        \E r \in {Namespace(kind, path, super)} :
          \/ Descend(r, "scope", Modifier("public", FALSE), NoCall)
          \/ r.id = None /\ Leaf(r.l)
  BY DEF ClassOrModuleNode
<1> DEFINE r == Namespace(kind, path, super)
<1>2. Descend(r, "scope", Modifier("public", FALSE), NoCall) \/ Leaf(r.l)
  BY <1>1
<1>3. Opened(local_graph, r, kind)
  <2>1. Len(path.texts) \in Nat /\ Len(super.texts) \in Nat
    BY PathTexts
  <2> QED
    BY <2>1, NamespaceOpened
<1> HIDE DEF r
<1>4. CASE Descend(r, "scope", Modifier("public", FALSE), NoCall)
  <2>1. "scope" \in Openable /\ NoCall \in Calls /\ kind \in {"class", "module", "singleton_class"}
    BY DEF Openable, Calls
  <2>2. Modifier("public", FALSE) \in Seq(Modifiers)
    BY ModifierOK
  <2> QED
    BY <1>3, <1>4, <2>1, <2>2, DescendKeeps
<1>5. CASE Leaf(r.l)
  BY <1>3, <1>5, LeafKeeps DEF Opened
<1> QED
  BY <1>2, <1>4, <1>5

LEMMA ClassNewKeeps ==
  ASSUME RubyInv, ClassNew
  PROVE  RubyInv'
<1>1. PICK kind \in {"class", "module"}, path \in ScopePaths \cup {NoPath},
           super \in ScopePaths \cup {NoPath} :
        LET call == NewCall(kind) IN
        \E r \in {Namespace(kind, path, super)} :
          \/ Descend(r, "owner", Modifier("public", FALSE), call)
          \/ r.id = None /\ Leaf(CallReference(r.l, call[1], call[2], call[3]))
  BY DEF ClassNew
<1> DEFINE r == Namespace(kind, path, super)
  call == NewCall(kind)
  m == CallReference(r.l, call[1], call[2], call[3])
<1>2. Descend(r, "owner", Modifier("public", FALSE), call) \/ Leaf(m)
  BY <1>1
<1>3. Opened(local_graph, r, kind)
  <2>1. Len(path.texts) \in Nat /\ Len(super.texts) \in Nat
    BY PathTexts
  <2> QED
    BY <2>1, NamespaceOpened
<1> HIDE DEF r
<1>4. IsOperand(call[1]) /\ call \in Calls
  <2>1. /\ IsOperand(Constant(Read("Class"))) /\ IsOperand(Constant(Read("Module")))
        /\ Part(6) \in Nat
    BY PathTexts, Offsets
  <2> QED
    BY <2>1 DEF NewCall, Calls
<1> HIDE DEF call
<1>5. CASE Descend(r, "owner", Modifier("public", FALSE), call)
  <2>1. "owner" \in Openable
    BY DEF Openable
  <2>2. Modifier("public", FALSE) \in Seq(Modifiers)
    BY ModifierOK
  <2> QED
    BY <1>3, <1>4, <1>5, <2>1, <2>2, DescendKeeps
<1>6. CASE Leaf(m)
  <2>1. Grown(local_graph, r.l) /\ Now(r.l)
    BY <1>3, NodeBegins, NowLater DEF Opened
  <2>2. Grown(r.l, m)
    BY <1>4, <2>1, CallGrows
  <2> HIDE DEF m
  <2>3. Grown(local_graph, m)
    BY <2>1, <2>2, GrownTransitive
  <2> QED
    BY <1>6, <2>3, LeafKeeps
<1> QED
  BY <1>2, <1>5, <1>6

LEMMA SingletonClassKeeps ==
  ASSUME RubyInv, SingletonClassNode
  PROVE  RubyInv'
<1>1. PICK target \in {Self, Dynamic} \cup {Constant(p) : p \in ScopePaths} :
        \E r \in {SingletonClass(target)} :
          \/ Descend(r, "scope", Modifier("public", FALSE), NoCall)
          \/ r.id = None /\ Leaf(r.l)
  BY DEF SingletonClassNode
<1> DEFINE r == SingletonClass(target)
<1>2. Descend(r, "scope", Modifier("public", FALSE), NoCall) \/ Leaf(r.l)
  BY <1>1
<1>3. Opened(local_graph, r, "singleton_class")
  <2>1. IsOperand(target)
    BY OperandKinds, PathTexts
  <2>2. target.kind \in {"self", "call", "constant"}
    BY DEF Self, Dynamic, Constant, Receiver
  <2> QED
    BY <2>1, <2>2, SingletonOpened
<1> HIDE DEF r
<1>4. CASE Descend(r, "scope", Modifier("public", FALSE), NoCall)
  <2>1. "scope" \in Openable /\ NoCall \in Calls
    BY DEF Openable, Calls
  <2>2. Modifier("public", FALSE) \in Seq(Modifiers)
    BY ModifierOK
  <2> QED
    BY <1>3, <1>4, <2>1, <2>2, DescendKeeps
<1>5. CASE Leaf(r.l)
  BY <1>3, <1>5, LeafKeeps DEF Opened
<1> QED
  BY <1>2, <1>4, <1>5

LEMMA DefKeeps ==
  ASSUME RubyInv, DefNode
  PROVE  RubyInv'
<1>1. PICK receiver \in {NoReceiver, Self} \cup {Constant(p) : p \in ScopePaths},
           default \in {NoPath, Read("A")} :
        \E r \in {Method(receiver, default, Visibility)} : Descend(r, "method", << >>, NoCall)
  BY DEF DefNode
<1> DEFINE r == Method(receiver, default, Visibility)
<1>2. Descend(r, "method", << >>, NoCall)
  BY <1>1
<1>3. Opened(local_graph, r, "method")
  <2>1. Len(default.texts) \in Nat
    BY PathTexts
  <2>2. receiver.kind \in {"none", "self", "constant"}
    BY DEF NoReceiver, Self, Constant, Receiver
  <2>3. receiver.kind = "constant" => Len(receiver.path.texts) \in Nat
    BY PathTexts DEF NoReceiver, Self, Constant, Receiver
  <2> QED
    BY <2>1, <2>2, <2>3, MethodOpened
<1> HIDE DEF r
<1>4. "method" \in Openable /\ NoCall \in Calls /\ << >> \in Seq(Modifiers)
  BY DEF Openable, Calls
<1> QED
  BY <1>2, <1>3, <1>4, DescendKeeps

LEMMA VisibilityDefKeeps ==
  ASSUME RubyInv, VisibilityDef
  PROVE  RubyInv'
<1>1. PICK visibility \in {"private", "module_function"}, receiver \in {NoReceiver, Self} :
        \E r \in {Method(receiver, NoPath, visibility)} :
          Descend(r, "method", Modifier(visibility, TRUE), NoCall)
  BY DEF VisibilityDef
<1> DEFINE r == Method(receiver, NoPath, visibility)
<1>2. Descend(r, "method", Modifier(visibility, TRUE), NoCall)
  BY <1>1
<1>3. Opened(local_graph, r, "method")
  <2>1. Len(NoPath.texts) \in Nat
    BY PathTexts
  <2>2. receiver.kind \in {"none", "self", "constant"} /\ receiver.kind # "constant"
    BY DEF NoReceiver, Self, Receiver
  <2> QED
    BY <2>1, <2>2, MethodOpened
<1> HIDE DEF r
<1>4. "method" \in Openable /\ NoCall \in Calls
  BY DEF Openable, Calls
<1>5. Modifier(visibility, TRUE) \in Seq(Modifiers)
  BY ModifierOK
<1> QED
  BY <1>2, <1>3, <1>4, <1>5, DescendKeeps

LEMMA BlockKeeps ==
  ASSUME RubyInv, BlockCall
  PROVE  RubyInv'
<1>1. PICK receiver \in {Self, Dynamic} :
        Enter(local_graph, << >>, << >>, <<receiver, "foo", Part(6)>>)
  BY DEF BlockCall
<1>2. <<receiver, "foo", Part(6)>> \in Calls
  BY OperandKinds, Offsets DEF Calls
<1>3. StackOK(local_graph, << >>, Here + 100) /\ << >> \in Seq(Modifiers)
  BY NoBodyOK
<1> QED
  BY <1>1, <1>2, <1>3, NodeBegins, EnterInv DEF RubyInv

-----------------------------------------------------------------------------
(* Visits of nodes without a body: constants and variables.                 *)

LEMMA ReferenceGrows ==
  ASSUME NEW l, Now(l), NEW path, Len(path.texts) \in Nat, NEW at
  PROVE  Grown(l, IndexReference(l, path, at))
BY ConstantReferenceMade DEF IndexReference, Made

\* The segments of a path are in one part of the node.
LEMMA InNode ==
  ASSUME RubyInv, NEW n \in Nat, n < 10
  PROVE  SamePart(Here + n, Here)
<1> DEFINE p == position + 1
<1>1. p \in Nat /\ Here = 100 * p
  BY PositionNat DEF RubyInv, Here
<1> HIDE DEF p
<1>2. (100 * p + n) \div 10 = 10 * p /\ (100 * p) \div 10 = 10 * p
  BY <1>1
<1> QED
  BY <1>1, <1>2 DEF SamePart

\* A constant has the name of its path to spare, or it is at the place of a
\* reference of that name.
LEMMA ConstantGrows ==
  ASSUME NEW l, Now(l), NEW kind \in {"constant", "constant_alias"},
         NEW path, Len(path.texts) \in Nat, NEW push \in BOOLEAN, NEW at \in Nat, Here <= at,
         push => at = Here /\ Len(path.texts) < 10, NEW target
  PROVE  Grown(l, AddConstant(l, kind, path, push, at, target))
<1> DEFINE r == IndexConstantReference(l, path, push, at)
  d == [Definition(kind, at, r.id, None, ParentLexicalScope) EXCEPT !.target = target]
  m == Owned(r.l, d)
  n == Len(path.texts)
<1>1. AddConstant(l, kind, path, push, at, target) = IF r.id = None THEN r.l ELSE m
  BY DEF AddConstant
<1>2. /\ Made(l, r) /\ (~ push => Spared(l, r))
      /\ push /\ r.id # None => <<r.id, at + n>> \in r.l.refs
  BY ConstantReferenceMade
<1> HIDE DEF r, n
<1>3. Now(r.l) /\ Grown(l, r.l) /\ Known(r.l, r.id) /\ ReceiverKnown(r.l, None)
  BY <1>2, NowMade, Whereabouts
<1>4. /\ IsDefinition(d) /\ d.kind = kind /\ d.name = r.id /\ d.receiver = None
      /\ d.at = at /\ d.str = None
  BY NoneOfSeq DEF Definition, IsDefinition
<1> HIDE DEF d
<1>5. DefinitionFits(r.l, d) /\ DefinitionStrings(d) = {None}
  BY <1>3, <1>4 DEF DefinitionFits, DefinitionStrings
<1>6. ASSUME r.id # None PROVE Grown(l, m)
  <2>1. CASE ~ push
    <3>1. Spare(l, r.l, r.id, {})
      BY <1>2, <2>1 DEF Spared
    <3>2. Enough(m, r.id, {}, d.name, DefinitionStrings(d))
      BY <1>4, <1>5, EnoughToSpend
    <3> QED
      BY <1>3, <1>4, <1>5, <3>1, <3>2, OwnedGrows
  <2>2. CASE push
    <3>1. m \in {Owned(r.l, d), Scoped(r.l, d)}
      OBVIOUS
    <3> HIDE DEF m
    <3>2. /\ Turn(r.l, m, d.name, DefinitionStrings(d), None, {})
          /\ DefinitionId(d) \in DOMAIN m.defs /\ SameDefinition(d, m.defs[DefinitionId(d)])
      <4>1. Now(r.l) /\ DefinitionFits(r.l, d) /\ d.at \in Nat /\ Here <= d.at
        BY <1>3, <1>4, <1>5
      <4> QED
        BY <3>1, <4>1, Adds
    <3> DEFINE y == DefinitionId(d)
    <3>3. y \in DOMAIN m.defs /\ m.defs[y].name = r.id /\ m.defs[y].at = Here
      BY <1>4, <2>2, <3>2 DEF SameDefinition
    <3> HIDE DEF y
    <3>4. SamePart(Here + n, Here)
      BY <2>2, InNode DEF Now, n
    <3>5. m.panic \/ r.id \in CountedOnce(m)
      <4> SUFFICES ASSUME ~ m.panic PROVE r.id \in CountedOnce(m)
        OBVIOUS
      <4>1. <<r.id, Here + n>> \in m.refs
        BY <1>2, <1>6, <2>2, <3>2 DEF Turn, Extends
      <4> DEFINE use == <<r.id, Here + n>>
      <4>2. use \in m.refs /\ use[1] = m.defs[y].name /\ SamePart(use[2], m.defs[y].at)
        BY <3>3, <3>4, <4>1
      <4> HIDE DEF use
      <4>3. m.defs[y].name \in CountedOnce(m)
        BY <1>6, <3>3, <4>2, OrWrittenNames
      <4> QED
        BY <3>3, <4>3
    <3>6. Enough(m, None, {}, d.name, DefinitionStrings(d))
      BY <1>4, <1>5, <3>5 DEF Enough
    <3> QED
      BY <1>3, <1>4, <1>5, <3>1, <3>6, AddedGrows DEF Grown
  <2> QED
    BY <2>1, <2>2
<1> HIDE DEF m
<1> QED
  BY <1>1, <1>3, <1>6

\* The definitions that have a string: each is owned, without a name.
LEMMA NamelessGrows ==
  ASSUME NEW l, Now(l), NEW text, NEW d, IsDefinition(d), d.name = None,
         ReceiverKnown(l, d.receiver), d.at \in Nat, Here <= d.at,
         DefinitionStrings(d) \subseteq {Str(text)}
  PROVE  Grown(l, Owned(InternString(l, Str(text)), d))
<1> DEFINE str == Str(text)
  k == InternString(l, str)
<1>1. str # None /\ DefinitionStrings(d) \subseteq {str}
  BY DEF Str, None
<1> HIDE DEF str
<1>2. Spare(l, k, None, {str}) /\ Grown(l, k)
  BY <1>1, Whereabouts, InternStringGrows
<1> HIDE DEF k
<1>3. Now(k) /\ Known(k, None) /\ ReceiverKnown(k, d.receiver)
  BY <1>2, NowLater, Whereabouts, GrownReceiver
<1>4. DefinitionFits(k, d)
  BY <1>3 DEF DefinitionFits
<1>5. Enough(Owned(k, d), None, {str}, d.name, DefinitionStrings(d))
  BY <1>1, EnoughToSpend
<1>6. Grown(l, Owned(k, d))
  BY <1>2, <1>3, <1>4, <1>5, OwnedGrows
<1> QED
  BY <1>6 DEF k, str

LEMMA VariableGrows ==
  ASSUME NEW l, Now(l), NEW kind \in DOMAIN VariableText, NEW text, NEW at \in Nat, Here <= at
  PROVE  Grown(l, AddVariable(l, kind, text, at))
<1> DEFINE nesting == IF kind = "class_variable" THEN ParentLexicalScope ELSE ParentNesting
  d == Definition(kind, at, None, Str(text), nesting)
<1>1. AddVariable(l, kind, text, at) = Owned(InternString(l, Str(text)), d)
  BY DEF AddVariable
<1> HIDE DEF nesting
<1>2. /\ IsDefinition(d) /\ d.name = None /\ d.receiver = None /\ d.at = at
      /\ d.str = Str(text) /\ d.kind \in DOMAIN VariableText
  BY PlainDefinition DEF Definition
<1> HIDE DEF d
<1>3. DefinitionStrings(d) \subseteq {Str(text)}
  BY <1>2 DEF DefinitionStrings, VariableText
<1> QED
  BY <1>1, <1>2, <1>3, Whereabouts, NamelessGrows

LEMMA TargetGrows ==
  ASSUME NEW l, Now(l), NEW target, NEW at \in Nat, Here <= at
  PROVE  Grown(l, AddTarget(l, target, at))
<1>1. CASE target \in DOMAIN VariableText
  BY <1>1, VariableGrows DEF AddTarget
<1>2. CASE target \notin DOMAIN VariableText /\ target = "constant"
  <2>1. Grown(l, AddConstant(l, "constant", Read("A"), FALSE, at, None))
    BY PathTexts, ConstantGrows
  <2> QED
    BY <1>2, <2>1 DEF AddTarget
<1>3. CASE target \notin DOMAIN VariableText /\ target # "constant"
  <2>1. Grown(l, CallReference(l, Dynamic, "bar=", at))
    BY OperandKinds, CallGrows
  <2> QED
    BY <1>3, <2>1 DEF AddTarget
<1> QED
  BY <1>1, <1>2, <1>3

LEMMA AliasGrows ==
  ASSUME RubyInv, NEW path, Len(path.texts) \in Nat, Len(path.texts) < 10, NEW push \in BOOLEAN,
         NEW value, Len(value.texts) \in Nat, NEW chained \in BOOLEAN
  PROVE  Grown(local_graph, AddAlias(path, push, value, chained))
<1> DEFINE B(l, kind, id) ==
    IF chained THEN AddConstant(l, kind, Read("B"), FALSE, Part(2), id) ELSE l
  t == IndexConstantReference(local_graph, value, TRUE, Part(4))
  b == B(t.l, "constant_alias", t.id)
  c == AddConstant(t.l, "constant", path, push, Here, None)
<1>1. AddAlias(path, push, value, chained)
        = IF t.id # None THEN AddConstant(b, "constant_alias", path, push, Here, t.id)
          ELSE B(c, "constant", None)
  BY DEF AddAlias
<1>2. ASSUME NEW l, Now(l), NEW kind \in {"constant", "constant_alias"}, NEW id
      PROVE  Grown(l, B(l, kind, id))
  <2>1. Part(2) \in Nat /\ Here <= Part(2)
    BY Offsets
  <2>2. Grown(l, AddConstant(l, kind, Read("B"), FALSE, Part(2), id))
    BY <1>2, <2>1, PathTexts, ConstantGrows
  <2> QED
    BY <1>2, <2>2, Whereabouts, GrownReflexive
<1>3. Here \in Nat /\ Here <= Here
  BY Offsets
<1>4. Made(local_graph, t)
  BY NodeBegins, ConstantReferenceMade
<1> HIDE DEF t
<1>5. Now(t.l) /\ Grown(local_graph, t.l)
  BY <1>4, NodeBegins, NowMade
<1>6. Grown(t.l, b)
  BY <1>2, <1>5
<1> HIDE DEF b
<1>7. Now(b) /\ Grown(local_graph, b)
  BY <1>5, <1>6, NowLater, GrownTransitive
<1>8. Grown(b, AddConstant(b, "constant_alias", path, push, Here, t.id))
  BY <1>3, <1>7, ConstantGrows
<1>9. Grown(t.l, c)
  BY <1>3, <1>5, ConstantGrows
<1> HIDE DEF c
<1>10. Now(c) /\ Grown(local_graph, c)
  BY <1>5, <1>9, NowLater, GrownTransitive
<1>11. Grown(c, B(c, "constant", None))
  BY <1>2, <1>10
<1> QED
  BY <1>1, <1>7, <1>8, <1>10, <1>11, GrownTransitive

LEMMA ConstantsKeep ==
  ASSUME RubyInv, ConstantRead \/ WriteLiteral \/ WriteCall \/ WriteConstant
  PROVE  RubyInv'
<1>1. CASE ConstantRead
  <2>1. PICK path \in Paths : Leaf(IndexReference(local_graph, path, Here))
    BY <1>1 DEF ConstantRead
  <2>2. Grown(local_graph, IndexReference(local_graph, path, Here))
    BY NodeBegins, PathTexts, ReferenceGrows
  <2> QED
    BY <2>1, <2>2, LeafKeeps
<1>2. CASE WriteLiteral
  <2>1. PICK path \in ScopePaths, push \in BOOLEAN :
          Leaf(AddConstant(local_graph, "constant", path, push, Here, None))
    BY <1>2 DEF WriteLiteral
  <2>2. Here \in Nat /\ Here <= Here /\ Len(path.texts) \in Nat /\ Len(path.texts) < 10
    BY Offsets, PathTexts
  <2>3. Grown(local_graph, AddConstant(local_graph, "constant", path, push, Here, None))
    BY <2>2, NodeBegins, ConstantGrows
  <2> QED
    BY <2>1, <2>3, LeafKeeps
<1>3. CASE WriteCall
  <2>1. PICK path \in ScopePaths :
          Leaf(CallReference(AddConstant(local_graph, "constant", path, FALSE, Here, None),
                             Self, "foo", Part(3)))
    BY <1>3 DEF WriteCall
  <2> DEFINE m == AddConstant(local_graph, "constant", path, FALSE, Here, None)
  <2>2. Here \in Nat /\ Here <= Here /\ Len(path.texts) \in Nat /\ Len(path.texts) < 10
    BY Offsets, PathTexts
  <2>3. Grown(local_graph, m)
    BY <2>2, NodeBegins, ConstantGrows
  <2>4. Leaf(CallReference(m, Self, "foo", Part(3)))
    BY <2>1
  <2> HIDE DEF m
  <2>5. Grown(m, CallReference(m, Self, "foo", Part(3)))
    BY <2>3, NodeBegins, NowLater, OperandKinds, CallGrows
  <2>6. Grown(local_graph, CallReference(m, Self, "foo", Part(3)))
    BY <2>3, <2>5, GrownTransitive
  <2> QED
    BY <2>4, <2>6, LeafKeeps
<1>4. CASE WriteConstant
  <2>1. PICK path \in ScopePaths, value \in ScopePaths, push \in BOOLEAN, chained \in BOOLEAN :
          Leaf(AddAlias(path, push, value, chained))
    BY <1>4 DEF WriteConstant
  <2>2. Grown(local_graph, AddAlias(path, push, value, chained))
    BY PathTexts, AliasGrows
  <2> QED
    BY <2>1, <2>2, LeafKeeps
<1> QED
  BY <1>1, <1>2, <1>3, <1>4

LEMMA VariablesKeep ==
  ASSUME RubyInv, WriteVariable \/ MultiWrite
  PROVE  RubyInv'
<1>1. CASE WriteVariable
  <2>1. PICK kind \in DOMAIN VariableText :
          Leaf(AddVariable(local_graph, kind, VariableText[kind], Here))
    BY <1>1 DEF WriteVariable
  <2>2. Here \in Nat /\ Here <= Here
    BY Offsets
  <2>3. Grown(local_graph, AddVariable(local_graph, kind, VariableText[kind], Here))
    BY <2>2, NodeBegins, VariableGrows
  <2> QED
    BY <2>1, <2>3, LeafKeeps
<1>2. CASE MultiWrite
  <2>1. PICK target \in DOMAIN VariableText \cup {"constant", "call"} :
          Leaf(AddTarget(AddTarget(local_graph, target, Here), "constant", Part(3)))
    BY <1>2 DEF MultiWrite
  <2> DEFINE m == AddTarget(local_graph, target, Here)
  <2>2. Here \in Nat /\ Here <= Here /\ Part(3) \in Nat /\ Here <= Part(3)
    BY Offsets
  <2>3. Grown(local_graph, m)
    BY <2>2, NodeBegins, TargetGrows
  <2>4. Leaf(AddTarget(m, "constant", Part(3)))
    BY <2>1
  <2> HIDE DEF m
  <2>5. Grown(m, AddTarget(m, "constant", Part(3)))
    BY <2>2, <2>3, NodeBegins, NowLater, TargetGrows
  <2>6. Grown(local_graph, AddTarget(m, "constant", Part(3)))
    BY <2>3, <2>5, GrownTransitive
  <2> QED
    BY <2>4, <2>6, LeafKeeps
<1> QED
  BY <1>1, <1>2

-----------------------------------------------------------------------------
(* Calls that declare something.                                            *)

LEMMA AttributeGrows ==
  ASSUME NEW l, Now(l), NEW kind \in {"attr_reader", "attr_writer", "attr_accessor"},
         NEW text, NEW at \in Nat, Here <= at, NEW visibility
  PROVE  Grown(l, AddAttribute(l, kind, text, at, visibility))
<1> DEFINE effect == IF visibility = "module_function" THEN "private" ELSE visibility
  d == [Definition(kind, at, None, Str(text), ParentNesting) EXCEPT !.visibility = effect]
<1>1. AddAttribute(l, kind, text, at, visibility) = Owned(InternString(l, Str(text)), d)
  BY DEF AddAttribute
<1> HIDE DEF effect
<1>2. /\ IsDefinition(d) /\ d.name = None /\ d.receiver = None /\ d.at = at
      /\ d.str = Str(text) /\ d.kind \in {"attr_reader", "attr_writer", "attr_accessor"}
  BY NoneOfSeq DEF Definition, IsDefinition
<1> HIDE DEF d
<1>3. DefinitionStrings(d) \subseteq {Str(text)}
  BY <1>2 DEF DefinitionStrings
<1> QED
  BY <1>1, <1>2, <1>3, Whereabouts, NamelessGrows

LEMMA MethodVisibilityGrows ==
  ASSUME NEW l, Now(l), NEW visibility, NEW at \in Nat, Here <= at
  PROVE  Grown(l, MethodVisibility(l, visibility, at))
<1> DEFINE d == [Definition("method_visibility", at, None, Str("f()"), CurrentNesting)
                   EXCEPT !.visibility = visibility]
<1>1. MethodVisibility(l, visibility, at) = Owned(InternString(l, Str("f()")), d)
  BY DEF MethodVisibility
<1>2. /\ IsDefinition(d) /\ d.name = None /\ d.receiver = None /\ d.at = at
      /\ d.str = Str("f()") /\ d.kind = "method_visibility"
  BY NoneOfSeq DEF Definition, IsDefinition
<1> HIDE DEF d
<1>3. DefinitionStrings(d) \subseteq {Str("f()")}
  BY <1>2 DEF DefinitionStrings
<1> QED
  BY <1>1, <1>2, <1>3, Whereabouts, NamelessGrows

\* self is the name of the innermost lexical scope, which is not counted again.
LEMMA MixinArgumentMade ==
  ASSUME NEW l, Now(l), NEW argument, IsOperand(argument), argument.kind \in {"constant", "self"},
         NEW at
  PROVE  LET r == MixinArgument(l, argument, at) IN
         Made(l, r) /\ (Spared(l, r) \/ argument.kind = "self")
<1>1. CASE argument.kind = "constant"
  <2> DEFINE r == IndexConstantReference(l, argument.path, FALSE, at)
  <2>1. Made(l, r) /\ Spared(l, r)
    BY ConstantReferenceMade DEF IsOperand
  <2>2. MixinArgument(l, argument, at) = r
    BY <1>1 DEF MixinArgument
  <2> HIDE DEF r
  <2> QED
    BY <2>1, <2>2
<1>2. CASE argument.kind # "constant"
  <2> DEFINE P == CurrentNesting # None /\ LexicalScopeName = None
    m == [l EXCEPT !.panic = @ \/ P]
  <2>1. MixinArgument(l, argument, at) = [l |-> m, id |-> LexicalScopeName]
    BY <1>2 DEF MixinArgument
  <2>2. Good(l) /\ Known(l, LexicalScopeName)
    BY Whereabouts
  <2> HIDE DEF P
  <2>3. IsGraph(m) /\ m.defs = l.defs /\ m.names = l.names /\ m.refs = l.refs
        /\ m.deps = l.deps /\ m.mrefs = l.mrefs /\ m.strings = l.strings
    BY <2>2 DEF Good, IsGraph, Fields
  <2>4. m.panic = (l.panic \/ P)
    BY <2>2 DEF Good, IsGraph, Fields
  <2> HIDE DEF m
  <2>5. m.panic \in BOOLEAN /\ (l.panic => m.panic)
    BY <2>2, <2>4 DEF Good
  <2>6. /\ IsFiniteSet(m.mrefs) /\ None \notin DOMAIN m.strings
        /\ \A str \in DOMAIN m.strings : m.strings[str] \in Nat
    BY <2>2, <2>3 DEF Good, Closed
  <2>7. ASSUME NEW str
        PROVE  StringBalance(l, str) + One(str \in {}) <= StringBalance(m, str) + One(str \in {})
    <3>1. StringBalance(m, str) = StringBalance(l, str)
      BY <2>3 DEF StringBalance, Releases
    <3>2. StringBalance(l, str) \in Int /\ One(str \in {}) \in Nat
      BY <2>2, BalancesAreIntegers, CreditsAreNaturals
    <3> QED
      BY <3>1, <3>2
  <2>8. Turn(l, m, None, {}, None, {})
    BY <2>2, <2>3, <2>5, <2>6, <2>7, SameLinks
  <2>9. Grown(l, m)
    BY <2>8 DEF Grown, Spare
  <2>10. Known(m, LexicalScopeName)
    BY <2>2, <2>9, GrownKnown
  <2> DEFINE r == MixinArgument(l, argument, at)
  <2>11. r = [l |-> m, id |-> LexicalScopeName]
    BY <2>1
  <2> HIDE DEF r
  <2>12. Made(l, r) /\ argument.kind = "self"
    BY <1>2, <2>9, <2>10, <2>11 DEF Made
  <2> QED
    BY <2>12 DEF r
<1> QED
  BY <1>1, <1>2

\* A mixin releases its name: one to spare, unless it is what self stands for.
LEMMA MixinGrows ==
  ASSUME NEW k, NEW l, Now(l), Grown(k, l), NEW id, Known(l, id), id # None,
         NEW written, Spare(k, l, id, {}) \/ written = "self",
         CurrentNesting # None, NEW kind, NEW at
  PROVE  Grown(k, AddMixin(l, CurrentNesting, kind, id, at, written))
<1> DEFINE m == AddMixin(l, CurrentNesting, kind, id, at, written)
<1>1. Good(l) /\ id \in DOMAIN l.names
  BY Whereabouts DEF Known
<1>2. CurrentNesting \in DOMAIN l.defs
  BY InnermostKnown DEF Now, CurrentNesting, Grown, Spare, Turn, Larger
<1>3. m = AddMixin(l, CurrentNesting, kind, id, at, written)
  OBVIOUS
<1> HIDE DEF m
<1>4. Turn(l, m, id, {}, None, {})
  BY <1>1, <1>2, <1>3, AddMixinGrows
<1>5. PICK z \in DOMAIN m.defs : \E i \in DOMAIN m.defs[z].mixins :
        m.defs[z].mixins[i][2][1] = id /\ m.defs[z].mixins[i][3] = written
  BY <1>1, <1>2, <1>3, AddMixinGrows
<1>6. CASE Spare(k, l, id, {})
  <2>1. Enough(m, id, {}, id, {})
    BY EnoughToSpend
  <2> QED
    BY <1>4, <1>6, <2>1, Spent DEF m
<1>7. CASE written = "self"
  <2>1. id \in CountedOnce(m)
    BY <1>5, <1>7, SelfMixedNames
  <2>2. Enough(m, None, {}, id, {})
    BY <2>1 DEF Enough
  <2> QED
    BY <1>4, <2>2, Spent DEF Grown, m
<1> QED
  BY <1>6, <1>7

LEMMA AttributesKeep ==
  ASSUME RubyInv, Attributes \/ VisibilityAttribute
  PROVE  RubyInv'
<1>1. Part(1) \in Nat /\ Here <= Part(1) /\ Part(2) \in Nat /\ Here <= Part(2)
  BY Offsets
<1>2. CASE Attributes
  <2>1. PICK kind \in {"attr_reader", "attr_writer", "attr_accessor"} :
          Leaf(AddAttribute(AddAttribute(local_graph, kind, "f()", Part(1), Visibility),
                            kind, "g()", Part(2), Visibility))
    BY <1>2 DEF Attributes
  <2> DEFINE m == AddAttribute(local_graph, kind, "f()", Part(1), Visibility)
  <2>2. Grown(local_graph, m)
    BY <1>1, NodeBegins, AttributeGrows
  <2>3. Leaf(AddAttribute(m, kind, "g()", Part(2), Visibility))
    BY <2>1
  <2> HIDE DEF m
  <2>4. Grown(m, AddAttribute(m, kind, "g()", Part(2), Visibility))
    BY <1>1, <2>2, NodeBegins, NowLater, AttributeGrows
  <2>5. Grown(local_graph, AddAttribute(m, kind, "g()", Part(2), Visibility))
    BY <2>2, <2>4, GrownTransitive
  <2> QED
    BY <2>3, <2>5, LeafKeeps
<1>3. CASE VisibilityAttribute
  <2>1. PICK visibility \in {"private", "module_function"} :
          Leaf(AddAttribute(local_graph, "attr_reader", "f()", Part(1), visibility))
    BY <1>3 DEF VisibilityAttribute
  <2>2. Grown(local_graph, AddAttribute(local_graph, "attr_reader", "f()", Part(1), visibility))
    BY <1>1, NodeBegins, AttributeGrows
  <2> QED
    BY <2>1, <2>2, LeafKeeps
<1> QED
  BY <1>2, <1>3

\* Two strings interned, one after the other.
LEMMA TwoStrings ==
  ASSUME RubyInv, NEW g, g # None, NEW f, f # None, f # g
  PROVE  LET l == InternString(InternString(local_graph, g), f) IN
         Spare(local_graph, l, None, {g} \cup {f}) /\ Now(l)
<1> DEFINE k == InternString(local_graph, g)
  l == InternString(k, f)
<1>1. Spare(local_graph, k, None, {g})
  BY NodeBegins, Whereabouts, InternStringGrows
<1> HIDE DEF k
<1>2. Spare(local_graph, l, None, {g} \cup {f})
  BY <1>1, InternedSpare
<1> HIDE DEF l
<1>3. Now(l)
  BY <1>2, SpareGrown DEF Now
<1> QED
  BY <1>2, <1>3 DEF l, k

\* A call of alias_method counts its old name for the reference to it too.
LEMMA TargetCounted ==
  ASSUME NEW l, NEW y \in DOMAIN l.defs, l.defs[y].written = "call"
  PROVE  l.defs[y].target \in StringsCountedOnce(l)
BY DEF StringsCountedOnce

LEMMA AliasMethodCallKeeps ==
  ASSUME RubyInv, AliasMethodCall
  PROVE  RubyInv'
<1> DEFINE g == Str("g()")
  f == Str("f()")
  k == InternString(local_graph, g)
  l == InternString(k, f)
  alias(link) == [Definition("method_alias", Here, None, g, CurrentNesting)
                    EXCEPT !.target = f, !.receiver = link, !.written = "call"]
  add(r, link) == Owned(AddMethodReference(r.l, f, Part(3), r.id), alias(link))
  on(r) == add(r, IF r.id = None THEN None ELSE <<"constant", r.id>>)
<1>1. PICK receiver \in {Self, Dynamic} \cup {Constant(p) : p \in Paths} :
        Leaf(CASE receiver.kind = "call" -> VisitReceiver(local_graph, receiver, Here)
               [] receiver.kind = "self" -> add(MethodReceiver(l, Self, Here), None)
               [] OTHER -> on(IndexConstantReference(l, receiver.path, TRUE, Here)))
  BY DEF AliasMethodCall
<1>2. f # None /\ g # None /\ f # g
  BY DEF Str, None
<1> HIDE DEF f, g
<1>3. Spare(local_graph, l, None, {g} \cup {f}) /\ Now(l)
  BY <1>2, TwoStrings
<1> HIDE DEF k, l
<1>4. ASSUME NEW r, Made(l, r), NEW link, ReceiverKnown(r.l, link)
      PROVE  Grown(local_graph, add(r, link))
  <2> DEFINE m == AddMethodReference(r.l, f, Part(3), r.id)
    d == alias(link)
    o == Owned(m, d)
  <2>1. Now(r.l) /\ Good(r.l) /\ Spare(local_graph, r.l, None, {g} \cup {f})
    BY <1>3, <1>4, NowMade, SpareAround
  <2>2. Turn(r.l, m, None, {g} \cup {f}, None, {g})
    BY <1>2, <2>1, AddMethodReferenceGrows
  <2> HIDE DEF m
  <2>3. Spare(local_graph, m, None, {g})
    <3>1. Enough(m, None, {g} \cup {f}, None, {g} \cup {f})
      BY EnoughToSpend
    <3> QED
      BY <2>1, <2>2, <3>1, TurnAfterTurn DEF Spare
  <2>4. Now(m) /\ ReceiverKnown(m, link)
    <3>1. DOMAIN r.l.names \subseteq DOMAIN m.names /\ DOMAIN r.l.defs \subseteq DOMAIN m.defs
      BY <2>2 DEF Turn, Larger
    <3> QED
      BY <1>4, <2>3, <3>1, SpareGrown DEF Now, ReceiverKnown, Known
  <2>5. /\ IsDefinition(d) /\ d.kind = "method_alias" /\ d.name = None /\ d.receiver = link
        /\ d.at = Here /\ d.str = g /\ d.target = f /\ d.written = "call"
    BY NoneOfSeq DEF Definition, IsDefinition
  <2> HIDE DEF d, alias
  <2>6. DefinitionFits(m, d) /\ DefinitionStrings(d) = {g, f}
    BY <2>4, <2>5 DEF DefinitionFits, DefinitionStrings, Known
  <2>7. o \in {Owned(m, d), Scoped(m, d)}
    OBVIOUS
  <2> HIDE DEF o
  <2>8. Here \in Nat /\ Here <= Here
    BY Offsets
  <2>9. f \in StringsCountedOnce(o)
    <3> DEFINE y == DefinitionId(d)
    <3>1. y \in DOMAIN o.defs /\ SameDefinition(d, o.defs[y])
      BY <2>4, <2>5, <2>6, <2>7, <2>8, Adds
    <3> HIDE DEF y
    <3>2. o.defs[y].written = "call" /\ o.defs[y].target = f
      BY <2>5, <3>1 DEF SameDefinition
    <3> QED
      BY <3>1, <3>2, TargetCounted
  <2>10. Enough(o, None, {g}, d.name, DefinitionStrings(d))
    BY <2>5, <2>6, <2>9 DEF Enough
  <2>11. Grown(local_graph, o)
    BY <2>3, <2>4, <2>5, <2>6, <2>7, <2>8, <2>10, AddedGrows
  <2> QED
    BY <2>11 DEF m, d, o
<1> HIDE DEF alias, add
<1>5. CASE receiver.kind = "call"
  <2>1. Leaf(VisitReceiver(local_graph, receiver, Here))
    BY <1>1, <1>5
  <2>2. Grown(local_graph, VisitReceiver(local_graph, receiver, Here))
    BY NodeBegins, VisitedGrows
  <2> QED
    BY <2>1, <2>2, LeafKeeps
<1>6. CASE receiver.kind = "self"
  <2> DEFINE r == MethodReceiver(l, Self, Here)
  <2>1. Leaf(add(r, None))
    BY <1>1, <1>6
  <2>2. Made(l, r)
    BY <1>3, OperandKinds, ReceiverMade
  <2> HIDE DEF r
  <2>3. Grown(local_graph, add(r, None))
    BY <1>4, <2>2 DEF ReceiverKnown
  <2> QED
    BY <2>1, <2>3, LeafKeeps
<1>7. CASE receiver.kind # "call" /\ receiver.kind # "self"
  <2> DEFINE r == IndexConstantReference(l, receiver.path, TRUE, Here)
    link == IF r.id = None THEN None ELSE <<"constant", r.id>>
  <2>1. Leaf(add(r, link))
    BY <1>1, <1>7
  <2>2. Len(receiver.path.texts) \in Nat
    BY OperandKinds, PathTexts DEF IsOperand
  <2>3. Made(l, r)
    BY <1>3, <2>2, ConstantReferenceMade
  <2> HIDE DEF r
  <2>4. ReceiverKnown(r.l, link)
    BY <2>3 DEF ReceiverKnown, Made
  <2> HIDE DEF link
  <2>5. Grown(local_graph, add(r, link))
    BY <1>4, <2>3, <2>4
  <2> QED
    BY <2>1, <2>5, LeafKeeps
<1> QED
  BY <1>5, <1>6, <1>7

\* An alias that has a string and the string of its target.
LEMMA AliasAdded ==
  ASSUME RubyInv, NEW kind \in {"method_alias", "global_alias"}, NEW new, NEW old, new # old, NEW owner
  PROVE  LET d == [Definition(kind, Here, None, Str(new), owner) EXCEPT !.target = Str(old)] IN
         Grown(local_graph, Owned(InternString(InternString(local_graph, Str(new)), Str(old)), d))
<1> DEFINE g == Str(new)
  f == Str(old)
  d == [Definition(kind, Here, None, g, owner) EXCEPT !.target = f]
  l == InternString(InternString(local_graph, g), f)
<1>1. f # None /\ g # None /\ f # g
  BY DEF Str, None
<1> HIDE DEF f, g
<1>2. Spare(local_graph, l, None, {g} \cup {f}) /\ Now(l)
  BY <1>1, TwoStrings
<1> HIDE DEF l
<1>3. /\ IsDefinition(d) /\ d.kind = kind /\ d.name = None /\ d.receiver = None
      /\ d.at = Here /\ d.str = g /\ d.target = f
  BY NoneOfSeq DEF Definition, IsDefinition
<1> HIDE DEF d
<1>4. DefinitionFits(l, d) /\ DefinitionStrings(d) = {g, f}
  BY <1>3 DEF DefinitionFits, DefinitionStrings, Known, ReceiverKnown
<1>5. Enough(Owned(l, d), None, {g} \cup {f}, d.name, DefinitionStrings(d))
  BY <1>3, <1>4, EnoughToSpend
<1>6. Grown(local_graph, Owned(l, d))
  BY <1>2, <1>3, <1>4, <1>5, Offsets, OwnedGrows
<1> QED
  BY <1>6 DEF d, l, f, g

LEMMA AliasesKeep ==
  ASSUME RubyInv, AliasMethodNode \/ AliasGlobal
  PROVE  RubyInv'
<1>1. CASE AliasMethodNode
  <2> DEFINE d == [Definition("method_alias", Here, None, Str("g()"), CurrentNesting)
                     EXCEPT !.target = Str("f()")]
    m == Owned(InternString(InternString(local_graph, Str("g()")), Str("f()")), d)
  <2>1. Leaf(IndexMethodReference(m, "f()", Part(3), None))
    BY <1>1 DEF AliasMethodNode
  <2>2. Grown(local_graph, m)
    BY AliasAdded
  <2> HIDE DEF m
  <2>3. Now(m)
    BY <2>2, NodeBegins, NowLater
  <2>4. Grown(local_graph, IndexMethodReference(m, "f()", Part(3), None))
    BY <2>2, <2>3, MethodReferenceGrows, GrownTransitive
  <2> QED
    BY <2>1, <2>4, LeafKeeps
<1>2. CASE AliasGlobal
  <2> DEFINE d == [Definition("global_alias", Here, None, Str("$y"), ParentNesting)
                     EXCEPT !.target = Str("$x")]
    m == Owned(InternString(InternString(local_graph, Str("$y")), Str("$x")), d)
  <2>1. Leaf(m)
    BY <1>2 DEF AliasGlobal
  <2>2. Grown(local_graph, m)
    BY AliasAdded
  <2> HIDE DEF m
  <2> QED
    BY <2>1, <2>2, LeafKeeps
<1> QED
  BY <1>1, <1>2

LEMMA MixinKeeps ==
  ASSUME RubyInv, Mixin
  PROVE  RubyInv'
<1>1. PICK kind \in MixinKinds, x \in {Self} \cup {Constant(p) : p \in ScopePaths},
           y \in {Self} \cup {Constant(p) : p \in ScopePaths} :
        LET written(argument) == IF argument.kind = "self" THEN "self" ELSE "path"
            insert(l, id, at, how) == IF id = None \/ CurrentNesting = None THEN l
                                      ELSE AddMixin(l, CurrentNesting, kind, id, at, how)
            both(first, second) == insert(insert(second.l, second.id, Part(4), written(y)),
                                          first.id, Part(1), written(x))
            next(first) == both(first, MixinArgument(first.l, y, Part(4)))
        IN  Leaf(next(MixinArgument(local_graph, x, Part(1))))
  BY DEF Mixin
<1> DEFINE written(argument) == IF argument.kind = "self" THEN "self" ELSE "path"
  insert(l, id, at, how) == IF id = None \/ CurrentNesting = None THEN l
                            ELSE AddMixin(l, CurrentNesting, kind, id, at, how)
  first == MixinArgument(local_graph, x, Part(1))
  second == MixinArgument(first.l, y, Part(4))
  m == insert(second.l, second.id, Part(4), written(y))
<1>2. Leaf(insert(m, first.id, Part(1), written(x)))
  BY <1>1
<1>3. /\ IsOperand(x) /\ x.kind \in {"constant", "self"}
      /\ IsOperand(y) /\ y.kind \in {"constant", "self"}
  BY OperandKinds, PathTexts DEF Self, Constant, Receiver
<1>4. ASSUME NEW k, NEW l, Now(l), Grown(k, l), NEW id, Known(l, id), NEW at, NEW how,
             Spare(k, l, id, {}) \/ how = "self"
      PROVE  Grown(k, insert(l, id, at, how))
  <2>1. CASE id = None \/ CurrentNesting = None
    BY <1>4, <2>1
  <2>2. CASE id # None /\ CurrentNesting # None
    <3>1. Grown(k, AddMixin(l, CurrentNesting, kind, id, at, how))
      BY <1>4, <2>2, MixinGrows
    <3> QED
      BY <2>2, <3>1
  <2> QED
    BY <2>1, <2>2
<1> HIDE DEF insert
<1>5. Made(local_graph, first) /\ (Spared(local_graph, first) \/ written(x) = "self")
  BY <1>3, NodeBegins, MixinArgumentMade
<1> HIDE DEF first
<1>6. Now(first.l) /\ Known(first.l, first.id) /\ Grown(local_graph, first.l)
  BY <1>5, NodeBegins, NowMade
<1>7. Made(first.l, second) /\ (Spared(first.l, second) \/ written(y) = "self")
  BY <1>3, <1>6, MixinArgumentMade
<1> HIDE DEF second, written
<1>8. Now(second.l) /\ Known(second.l, second.id) /\ Grown(first.l, second.l)
  BY <1>6, <1>7, NowMade
<1>9. Grown(first.l, m)
  <2>1. Spare(first.l, second.l, second.id, {}) \/ written(y) = "self"
    BY <1>7 DEF Spared
  <2> QED
    BY <1>4, <1>8, <2>1
<1> HIDE DEF m
<1>10. Now(m) /\ Known(m, first.id) /\ Grown(local_graph, m)
  BY <1>6, <1>9, NowLater, GrownKnown, GrownTransitive
<1>11. Spare(local_graph, m, first.id, {}) \/ written(x) = "self"
  BY <1>5, <1>9, SpareAround DEF Spared
<1>12. Grown(local_graph, insert(m, first.id, Part(1), written(x)))
  BY <1>4, <1>10, <1>11
<1> QED
  BY <1>2, <1>12, LeafKeeps

LEMMA VisibilityCallKeeps ==
  ASSUME RubyInv, VisibilityCall
  PROVE  RubyInv'
<1>1. PICK visibility \in {"private", "module_function"} :
        Leaf(LET other == CallReference(local_graph, Self, "foo", Part(4)) IN
             IF visibility = "module_function" /\ ~ InModule THEN other
             ELSE CallReference(MethodVisibility(local_graph, visibility, Part(1)), Self, "foo", Part(4)))
  BY DEF VisibilityCall
<1> DEFINE other == CallReference(local_graph, Self, "foo", Part(4))
  m == MethodVisibility(local_graph, visibility, Part(1))
  both == CallReference(m, Self, "foo", Part(4))
<1>2. Leaf(other) \/ Leaf(both)
  BY <1>1
<1>3. Grown(local_graph, other)
  BY NodeBegins, OperandKinds, CallGrows
<1>4. Part(1) \in Nat /\ Here <= Part(1)
  BY Offsets
<1>5. Grown(local_graph, m)
  BY <1>4, NodeBegins, MethodVisibilityGrows
<1> HIDE DEF m, other
<1>6. Grown(m, both)
  BY <1>5, NodeBegins, NowLater, OperandKinds, CallGrows
<1> HIDE DEF both
<1>7. Grown(local_graph, both)
  BY <1>5, <1>6, GrownTransitive
<1> QED
  BY <1>2, <1>3, <1>7, LeafKeeps

LEMMA SingletonVisibilityKeeps ==
  ASSUME RubyInv, SingletonVisibility
  PROVE  RubyInv'
<1>1. PICK receiver \in {Self, Dynamic} :
        \/ Leaf(MethodVisibility(local_graph, "private", Part(1)))
        \/ Leaf(VisitReceiver(local_graph, receiver, Here))
  BY DEF SingletonVisibility
<1>2. Part(1) \in Nat /\ Here <= Part(1)
  BY Offsets
<1>3. Grown(local_graph, MethodVisibility(local_graph, "private", Part(1)))
  BY <1>2, NodeBegins, MethodVisibilityGrows
<1>4. Grown(local_graph, VisitReceiver(local_graph, receiver, Here))
  BY NodeBegins, VisitedGrows
<1> QED
  BY <1>1, <1>3, <1>4, LeafKeeps

LEMMA ConstantVisibilityKeeps ==
  ASSUME RubyInv, ConstantVisibility
  PROVE  RubyInv'
<1> DEFINE change(link) == [Definition("constant_visibility", Part(1), None, Str("A"), CurrentNesting)
                              EXCEPT !.receiver = link]
  add(l, link) == Owned(InternString(l, Str("A")), change(link))
  on(r) == add(r.l, IF r.id = None THEN None ELSE <<"constant", r.id>>)
<1>1. PICK receiver \in {Self, Dynamic} \cup {Constant(p) : p \in ScopePaths} :
        Leaf(CASE receiver.kind = "constant" ->
                    on(IndexConstantReference(local_graph, receiver.path, TRUE, Here))
               [] receiver = Self /\ ~ InMethod /\ nesting_stack # << >> -> add(local_graph, None)
               [] OTHER -> VisitReceiver(local_graph, receiver, Here))
  BY DEF ConstantVisibility
<1>2. ASSUME NEW l, Now(l), NEW link, ReceiverKnown(l, link) PROVE Grown(l, add(l, link))
  <2> DEFINE d == change(link)
  <2>1. /\ IsDefinition(d) /\ d.kind = "constant_visibility" /\ d.name = None
        /\ d.receiver = link /\ d.at = Part(1)
    BY NoneOfSeq DEF Definition, IsDefinition
  <2> HIDE DEF d
  <2>2. Part(1) \in Nat /\ Here <= Part(1)
    BY Offsets
  <2>3. DefinitionStrings(d) \subseteq {Str("A")}
    BY <2>1 DEF DefinitionStrings
  <2>4. Grown(l, Owned(InternString(l, Str("A")), d))
    BY <1>2, <2>1, <2>2, <2>3, NamelessGrows
  <2> QED
    BY <2>4 DEF d
<1> HIDE DEF change, add
<1>3. CASE receiver.kind = "constant"
  <2> DEFINE r == IndexConstantReference(local_graph, receiver.path, TRUE, Here)
    link == IF r.id = None THEN None ELSE <<"constant", r.id>>
  <2>1. Leaf(add(r.l, link))
    <3>1. receiver # Self
      BY <1>3 DEF Self, Receiver
    <3> QED
      BY <1>1, <1>3, <3>1
  <2>2. Len(receiver.path.texts) \in Nat
    BY OperandKinds, PathTexts DEF IsOperand
  <2>3. Made(local_graph, r)
    BY <2>2, NodeBegins, ConstantReferenceMade
  <2> HIDE DEF r
  <2>4. Now(r.l) /\ Grown(local_graph, r.l)
    BY <2>3, NodeBegins, NowMade
  <2>5. ReceiverKnown(r.l, link)
    BY <2>3 DEF ReceiverKnown, Made
  <2> HIDE DEF link
  <2>6. Grown(local_graph, add(r.l, link))
    BY <1>2, <2>4, <2>5, GrownTransitive
  <2> QED
    BY <2>1, <2>6, LeafKeeps
<1>4. CASE receiver.kind # "constant"
  <2>1. Leaf(add(local_graph, None)) \/ Leaf(VisitReceiver(local_graph, receiver, Here))
    BY <1>1, <1>4
  <2>2. Grown(local_graph, add(local_graph, None))
    BY <1>2, NodeBegins DEF ReceiverKnown
  <2>3. Grown(local_graph, VisitReceiver(local_graph, receiver, Here))
    BY NodeBegins, VisitedGrows
  <2> QED
    BY <2>1, <2>2, <2>3, LeafKeeps
<1> QED
  BY <1>3, <1>4

-----------------------------------------------------------------------------
(* Calls that refer to methods.                                             *)

\* Two references with one receiver.
LEMMA TwiceGrows ==
  ASSUME NEW l, Now(l), NEW receiver, IsOperand(receiver), NEW at, NEW one, NEW other, NEW offset
  PROVE  LET r == KnownReceiver(l, receiver, at) IN
         Grown(l, IndexMethodReference(CallOn(r, one, offset), other, offset, r.id))
<1> DEFINE r == KnownReceiver(l, receiver, at)
  m == CallOn(r, one, offset)
<1>1. Made(l, r)
  BY KnownReceiverMade
<1> HIDE DEF r
<1>2. Grown(l, m) /\ Now(m)
  BY <1>1, CallOnGrows, NowLater
<1> HIDE DEF m
<1>3. Grown(l, IndexMethodReference(m, other, offset, r.id))
  BY <1>2, MethodReferenceGrows, GrownTransitive
<1> QED
  BY <1>3 DEF m, r

LEMMA ReceiverOperand == \A receiver \in Receivers : IsOperand(receiver)
BY OperandKinds, PathTexts DEF Receivers

LEMMA CallsKeep ==
  ASSUME RubyInv, OperatorCall \/ UpdateAttribute \/ AndOr \/ BlockArgument \/ DynamicDef
  PROVE  RubyInv'
<1>1. CASE OperatorCall
  <2> DEFINE l == IndexReference(local_graph, Read("A"), Part(3))
  <2>1. PICK receiver \in Receivers :
          LET r == KnownReceiver(l, receiver, Here)
          IN  Leaf(IndexMethodReference(CallOn(r, "<", Part(2)), "<=>", Part(2), r.id))
    BY <1>1 DEF OperatorCall
  <2>2. Grown(local_graph, l) /\ Now(l)
    BY NodeBegins, PathTexts, ReferenceGrows, NowLater
  <2> HIDE DEF l
  <2> DEFINE r == KnownReceiver(l, receiver, Here)
    m == IndexMethodReference(CallOn(r, "<", Part(2)), "<=>", Part(2), r.id)
  <2>3. Grown(l, m)
    BY <2>2, ReceiverOperand, TwiceGrows
  <2>4. Leaf(m)
    BY <2>1
  <2> HIDE DEF m
  <2> QED
    BY <2>2, <2>3, <2>4, GrownTransitive, LeafKeeps
<1>2. CASE UpdateAttribute
  <2>1. PICK receiver \in Receivers :
          LET r == KnownReceiver(local_graph, receiver, Here)
          IN  Leaf(IndexMethodReference(CallOn(r, "bar", Part(2)), "bar=", Part(2), r.id))
    BY <1>2 DEF UpdateAttribute
  <2> DEFINE r == KnownReceiver(local_graph, receiver, Here)
    m == IndexMethodReference(CallOn(r, "bar", Part(2)), "bar=", Part(2), r.id)
  <2>2. Grown(local_graph, m)
    BY NodeBegins, ReceiverOperand, TwiceGrows
  <2>3. Leaf(m)
    BY <2>1
  <2> HIDE DEF m
  <2> QED
    BY <2>2, <2>3, LeafKeeps
<1>3. CASE AndOr
  <2>1. PICK left \in Receivers :
          Leaf(IndexReference(CallReference(local_graph, left, "&&", Here), Read("A"), Part(3)))
    BY <1>3 DEF AndOr
  <2> DEFINE m == CallReference(local_graph, left, "&&", Here)
  <2>2. Grown(local_graph, m) /\ Now(m)
    BY NodeBegins, ReceiverOperand, CallGrows, NowLater
  <2>3. Leaf(IndexReference(m, Read("A"), Part(3)))
    BY <2>1
  <2> HIDE DEF m
  <2>4. Grown(m, IndexReference(m, Read("A"), Part(3)))
    BY <2>2, PathTexts, ReferenceGrows
  <2> QED
    BY <2>2, <2>3, <2>4, GrownTransitive, LeafKeeps
<1>4. CASE BlockArgument
  BY <1>4, NodeBegins, MethodReferenceGrows, LeafKeeps DEF BlockArgument
<1>5. CASE DynamicDef
  <2> DEFINE l == InternString(local_graph, Str("f()"))
  <2>1. Leaf(VisitReceiver(l, Dynamic, Here))
    BY <1>5 DEF DynamicDef
  <2>2. Grown(local_graph, l) /\ Now(l)
    <3>1. Str("f()") # None
      BY DEF Str, None
    <3> QED
      BY <3>1, NodeBegins, Whereabouts, InternStringGrows, NowLater
  <2> HIDE DEF l
  <2>3. Grown(l, VisitReceiver(l, Dynamic, Here))
    BY <2>2, VisitedGrows
  <2> QED
    BY <2>1, <2>2, <2>3, GrownTransitive, LeafKeeps
<1> QED
  BY <1>1, <1>2, <1>3, <1>4, <1>5

-----------------------------------------------------------------------------

\* The calls of the visitor match, the graph is closed, and name_dependents are
\* exact: what the traversal of any Ruby file keeps.
THEOREM RubyInvariant == RubySpec => []RubyInv
<1>1. RubyInit => RubyInv
  BY StartInv DEF RubyInit, RubyInv
<1>2. RubyInv /\ [RubyNext]_vars => RubyInv'
  <2> SUFFICES ASSUME RubyInv, [RubyNext]_vars PROVE RubyInv'
    OBVIOUS
  <2>1. CASE ClassOrModuleNode \/ ClassNew \/ SingletonClassNode \/ DefNode
    BY <2>1, ClassOrModuleKeeps, ClassNewKeeps, SingletonClassKeeps, DefKeeps
  <2>2. CASE VisibilityDef \/ BlockCall \/ Leave
    BY <2>2, VisibilityDefKeeps, BlockKeeps, LeaveKeeps
  <2>3. CASE VisibilityFlag
    BY <2>3, FlagInv DEF VisibilityFlag, RubyInv
  <2>4. CASE ConstantRead \/ WriteLiteral \/ WriteCall \/ WriteConstant
    BY <2>4, ConstantsKeep
  <2>5. CASE WriteVariable \/ MultiWrite
    BY <2>5, VariablesKeep
  <2>6. CASE Attributes \/ VisibilityAttribute
    BY <2>6, AttributesKeep
  <2>7. CASE AliasMethodCall
    BY <2>7, AliasMethodCallKeeps
  <2>8. CASE AliasMethodNode \/ AliasGlobal
    BY <2>8, AliasesKeep
  <2>9. CASE Mixin
    BY <2>9, MixinKeeps
  <2>10. CASE VisibilityCall \/ SingletonVisibility \/ ConstantVisibility
    BY <2>10, VisibilityCallKeeps, SingletonVisibilityKeeps, ConstantVisibilityKeeps
  <2>11. CASE OperatorCall \/ UpdateAttribute \/ AndOr \/ BlockArgument \/ DynamicDef
    BY <2>11, CallsKeep
  <2>12. CASE UNCHANGED vars
    BY <2>12, StutterInv DEF RubyInv
  <2> QED
    BY <2>1, <2>2, <2>3, <2>4, <2>5, <2>6, <2>7, <2>8, <2>9, <2>10, <2>11, <2>12 DEF RubyNext
<1> QED
  BY <1>1, <1>2, PTL DEF RubySpec

\* In every Ruby file: each entry of the nesting stack is a definition of a kind that
\* can have a body, and a visibility is in effect.
THEOREM RubyStacks == RubySpec => []IndexerTypeOK
<1>1. RubyInv => IndexerTypeOK
  BY InvImpliesProperties DEF RubyInv
<1> QED
  BY <1>1, RubyInvariant, PTL

\* In every Ruby file: the scope and the nesting of a name in use stay in the graph.
THEOREM RubyScopesKept == RubySpec => []ScopesKept
<1>1. RubyInv => ScopesKept
  BY InvImpliesProperties DEF RubyInv
<1> QED
  BY <1>1, RubyInvariant, PTL

\* In every Ruby file: name_dependents list exactly the uses of a name.
THEOREM RubyDependents == RubySpec => []DependentsComplete
<1>1. RubyInv => DependentsComplete
  BY InvImpliesProperties DEF RubyInv
<1> QED
  BY <1>1, RubyInvariant, PTL

\* In every Ruby file: removing the file releases no name more often than the file
\* counted it, but for the names in CountedOnce.
THEOREM RubyNamesCovered == RubySpec => []NamesCovered
<1>1. RubyInv => NamesCovered
  BY InvImpliesProperties DEF RubyInv
<1> QED
  BY <1>1, RubyInvariant, PTL

\* In every Ruby file: nor any string, but for those of such names, the old names of
\* aliases, and the name of a method under module_function.
THEOREM RubyStringsCovered == RubySpec => []StringsCovered
<1>1. RubyInv => StringsCovered
  BY InvImpliesProperties DEF RubyInv
<1> QED
  BY <1>1, RubyInvariant, PTL

=============================================================================
