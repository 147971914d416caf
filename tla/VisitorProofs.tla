--------------------------- MODULE VisitorProofs ---------------------------
(***************************************************************************)
(* What the two indexers keep true of a local graph, operation by          *)
(* operation: the lemmas on which the proofs about RubyIndexer and         *)
(* RbsIndexer rest.  Each operation of LocalGraph only adds to a graph     *)
(* (Grown) and leaves it closed: the scope, the nesting and the definitions*)
(* that anything in it mentions are in it too (Closed),                    *)
(* name_dependents are exact unless an assertion of the code has failed,   *)
(* and names and strings are counted before they are used (Turn).          *)
(***************************************************************************)
EXTENDS Visitor, FiniteSetTheorems, SequenceTheorems, WellFoundedInduction, TLAPS

Fields == {"defs", "strings", "names", "refs", "mrefs", "deps", "panic"}
IsGraph(l) == l = [f \in Fields |-> l[f]]

Known(l, n) == n = None \/ n \in DOMAIN l.names

\* The receiver of a method is a name, or the definition whose body it is in.
ReceiverKnown(l, receiver) ==
  receiver # None => IF receiver[1] = "self" THEN receiver[2] \in DOMAIN l.defs
                     ELSE Known(l, receiver[2])

IsDefinition(d) ==
  /\ {"kind", "at", "name", "str", "receiver", "target", "members", "mixins", "written"}
       \subseteq DOMAIN d
  /\ \E S : d.mixins \in Seq(S)

DefinitionFits(l, d) ==
  /\ IsDefinition(d)
  /\ Known(l, d.name)
  /\ ReceiverKnown(l, d.receiver)

Closed(l) ==
  /\ IsFiniteSet(DOMAIN l.defs) /\ IsFiniteSet(l.refs) /\ IsFiniteSet(l.mrefs)
  /\ None \notin DOMAIN l.names \cup DOMAIN l.deps \cup DOMAIN l.strings
  /\ \A n \in DOMAIN l.names :
       l.names[n] \in Nat \ {0} /\ Known(l, ParentOf(n)) /\ Known(l, NestingOf(n))
  /\ \A str \in DOMAIN l.strings : l.strings[str] \in Nat
  /\ \A r \in l.refs : r[1] \in DOMAIN l.names
  /\ \A x \in DOMAIN l.defs : DefinitionFits(l, l.defs[x])

Good(l) ==
  /\ IsGraph(l) /\ l.panic \in BOOLEAN
  /\ Closed(l)
  /\ ~ l.panic => DependentsExact(l)

\* l is k with more in it; what was there before the node that is being visited
\* is still of the same kind.
Larger(k, l) ==
  /\ Good(k) /\ Good(l)
  /\ k.panic => l.panic
  /\ DOMAIN k.names \subseteq DOMAIN l.names
  /\ \A x \in DOMAIN k.defs :
       x \in DOMAIN l.defs /\ (x[1] < Here => l.defs[x].kind = k.defs[x].kind)

-----------------------------------------------------------------------------
(* What a graph counts, less what it releases.  An operation counts for     *)
(* another to release: between the two there is a name, and strings, to     *)
(* spare.                                                                   *)

NameBalance(l, n) == At(l.names, n, 0) - Uses(l, n)
StringBalance(l, str) == At(l.strings, str, 0) - Releases(l, str)

One(P) == IF P THEN 1 ELSE 0
Credit(str, n, T) == One(n # None /\ str = n[1]) + One(str \in T)

\* d and e are the same definition, but for its members and more mixins.
SameDefinition(d, e) ==
  /\ DOMAIN e = DOMAIN d
  /\ e.kind = d.kind /\ e.at = d.at /\ e.name = d.name /\ e.str = d.str
  /\ e.receiver = d.receiver /\ e.target = d.target /\ e.written = d.written
  /\ \A i \in DOMAIN d.mixins : i \in DOMAIN e.mixins /\ e.mixins[i] = d.mixins[i]

Extends(k, l) ==
  /\ k.refs \subseteq l.refs
  /\ \A x \in DOMAIN k.defs : x \in DOMAIN l.defs /\ SameDefinition(k.defs[x], l.defs[x])

\* With the name o and the strings U to spare in k there are n and T in l, unless an
\* assertion of the code has failed: what is counted once for two uses left out.
Turn(k, l, o, U, n, T) ==
  /\ Larger(k, l)
  /\ l.panic \/
       /\ Extends(k, l)
       /\ \A x : x = None \/ x \in CountedOnce(l)
                 \/ NameBalance(k, x) + One(x = n) <= NameBalance(l, x) + One(x = o)
       /\ \A str : str = None \/ str \in StringsCountedOnce(l)
                 \/ StringBalance(k, str) + Credit(str, n, T)
                      <= StringBalance(l, str) + Credit(str, o, U)

\* In m, what was to spare, n and T, is enough for the uses p and V.
Enough(m, n, T, p, V) ==
  m.panic \/
    /\ p \in {None, n} \cup CountedOnce(m)
    /\ V \subseteq T \cup {None} \cup StringsCountedOnce(m)

\* From k to l a use was counted for each release, and n and T are to spare.
Spare(k, l, n, T) == Turn(k, l, None, {}, n, T)
Grown(k, l) == Spare(k, l, None, {})

\* Nothing is released more often than it was counted.
Balanced(l) ==
  l.panic \/
    /\ \A x : x = None \/ x \in CountedOnce(l) \/ 0 <= NameBalance(l, x)
    /\ \A str : str = None \/ str \in StringsCountedOnce(l) \/ 0 <= StringBalance(l, str)

\* What an operator of an indexer that makes an id returns; Spared, when the id is
\* a name that was counted for what is to come.
Made(l, r) == {"l", "id"} \subseteq DOMAIN r /\ Grown(l, r.l) /\ Known(r.l, r.id)
Spared(l, r) == Made(l, r) /\ Spare(l, r.l, r.id, {})

-----------------------------------------------------------------------------
(* Accounts.                                                                *)

\* The uses and the releases of a graph are finitely many.
LEMMA ReleasesAreFinite ==
  ASSUME NEW l, Good(l), NEW str
  PROVE  /\ At(l.strings, str, 0) \in Nat /\ Releases(l, str) \in Nat
         /\ Cardinality({x \in DOMAIN l.defs : str \in DefinitionStrings(l.defs[x])}) \in Nat
         /\ Cardinality({r \in l.mrefs : r[1] = str}) \in Nat
         /\ Cardinality({x \in DOMAIN l.defs : l.defs[x].name # None /\ l.defs[x].name[1] = str}) \in Nat
         /\ Cardinality({r \in l.refs : r[1][1] = str}) \in Nat
<1>1. IsFiniteSet(DOMAIN l.defs) /\ IsFiniteSet(l.refs) /\ IsFiniteSet(l.mrefs)
  BY DEF Good, Closed
<1>2. At(l.strings, str, 0) \in Nat
  BY DEF At, Good, Closed
<1>3. Cardinality({x \in DOMAIN l.defs : str \in DefinitionStrings(l.defs[x])}) \in Nat
  <2>1. {x \in DOMAIN l.defs : str \in DefinitionStrings(l.defs[x])} \subseteq DOMAIN l.defs
    OBVIOUS
  <2> QED
    BY <1>1, <2>1, FS_Subset, FS_CardinalityType
<1>4. Cardinality({r \in l.mrefs : r[1] = str}) \in Nat
  BY <1>1, FS_Subset, FS_CardinalityType
<1>5. Cardinality({x \in DOMAIN l.defs : l.defs[x].name # None /\ l.defs[x].name[1] = str}) \in Nat
  BY <1>1, FS_Subset, FS_CardinalityType
<1>6. Cardinality({r \in l.refs : r[1][1] = str}) \in Nat
  BY <1>1, FS_Subset, FS_CardinalityType
<1>7. Releases(l, str) \in Nat
  BY <1>3, <1>4, <1>5, <1>6 DEF Releases
<1> QED
  BY <1>2, <1>3, <1>4, <1>5, <1>6, <1>7

LEMMA ReleasesAreNaturals ==
  ASSUME NEW l, Good(l), NEW str
  PROVE  At(l.strings, str, 0) \in Nat /\ Releases(l, str) \in Nat
BY ReleasesAreFinite

LEMMA UsesAreNaturals ==
  ASSUME NEW l, Good(l), NEW n
  PROVE  /\ At(l.names, n, 0) \in Nat /\ Uses(l, n) \in Nat
         /\ IsFiniteSet(DefsNamed(l, n)) /\ Cardinality(DefsNamed(l, n)) \in Nat
         /\ IsFiniteSet(RefsNamed(l, n)) /\ Cardinality(RefsNamed(l, n)) \in Nat
<1>1. IsFiniteSet(DOMAIN l.defs) /\ IsFiniteSet(l.refs)
  BY DEF Good, Closed
<1>2. IsFiniteSet(DefsNamed(l, n)) /\ Cardinality(DefsNamed(l, n)) \in Nat
  BY <1>1, FS_Subset, FS_CardinalityType DEF DefsNamed
<1>3. IsFiniteSet(RefsNamed(l, n)) /\ Cardinality(RefsNamed(l, n)) \in Nat
  BY <1>1, FS_Subset, FS_CardinalityType DEF RefsNamed
<1>4. At(l.names, n, 0) \in Nat
  BY DEF At, Good, Closed
<1> QED
  BY <1>2, <1>3, <1>4 DEF Uses

LEMMA BalancesAreIntegers ==
  ASSUME NEW l, Good(l), NEW n, NEW str
  PROVE  NameBalance(l, n) \in Int /\ StringBalance(l, str) \in Int
<1>1. At(l.names, n, 0) \in Nat /\ Uses(l, n) \in Nat
  BY UsesAreNaturals
<1>2. At(l.strings, str, 0) \in Nat /\ Releases(l, str) \in Nat
  BY ReleasesAreNaturals
<1> QED
  BY <1>1, <1>2 DEF NameBalance, StringBalance

LEMMA CreditsAreNaturals ==
  \A n, str, T, P : One(P) \in 0..1 /\ Credit(str, n, T) \in Nat
BY DEF One, Credit

\* What a file counts once stays so while its graph grows.
LEMMA CountedOnceGrows ==
  ASSUME NEW k, NEW l, Extends(k, l)
  PROVE  CountedOnce(k) \subseteq CountedOnce(l) /\ StringsCountedOnce(k) \subseteq StringsCountedOnce(l)
<1>1. CountedOnce(k) \subseteq CountedOnce(l)
  <2> SUFFICES ASSUME NEW n \in CountedOnce(k) PROVE n \in CountedOnce(l)
    OBVIOUS
  <2>1. CASE \E y \in DOMAIN k.defs : n = k.defs[y].name
               /\ \E r \in RefsNamed(k, n) : SamePart(r[2], k.defs[y].at)
    BY <2>1 DEF CountedOnce, OrWritten, Extends, SameDefinition, RefsNamed
  <2>2. CASE \E z \in DOMAIN k.defs : \E i \in DOMAIN k.defs[z].mixins :
               k.defs[z].mixins[i][2][1] = n /\ k.defs[z].mixins[i][3] = "self"
    BY <2>2 DEF CountedOnce, SelfMixed, ToSet, Extends, SameDefinition
  <2> QED
    BY <2>1, <2>2 DEF CountedOnce, OrWritten, SelfMixed, ToSet
<1>2. ASSUME NEW str \in StringsCountedOnce(k) PROVE str \in StringsCountedOnce(l)
  <2>1. CASE \E n \in CountedOnce(k) \ {None} : str = n[1]
    BY <1>1, <2>1 DEF StringsCountedOnce
  <2>2. CASE \E y \in DOMAIN k.defs : str = k.defs[y].target /\ k.defs[y].written = "call"
    BY <2>2 DEF StringsCountedOnce, Extends, SameDefinition
  <2>3. CASE \E y \in DOMAIN k.defs : str = k.defs[y].str
               /\ \E z \in DOMAIN k.defs \ {y} :
                    k.defs[z].at = k.defs[y].at /\ k.defs[z].str = k.defs[y].str
    BY <2>3 DEF StringsCountedOnce, Extends, SameDefinition
  <2> QED
    BY <2>1, <2>2, <2>3 DEF StringsCountedOnce
<1> QED
  BY <1>1, <1>2

\* The name of a definition is counted once if its own part of the node refers to it.
LEMMA OrWrittenNames ==
  ASSUME NEW l, NEW y \in DOMAIN l.defs,
         \E r \in l.refs : r[1] = l.defs[y].name /\ SamePart(r[2], l.defs[y].at)
  PROVE  l.defs[y].name \in CountedOnce(l)
BY DEF CountedOnce, OrWritten, RefsNamed

\* A name that self is mixed in as is counted once.
LEMMA SelfMixedNames ==
  ASSUME NEW l, NEW n, NEW z \in DOMAIN l.defs, NEW i \in DOMAIN l.defs[z].mixins,
         l.defs[z].mixins[i][2][1] = n, l.defs[z].mixins[i][3] = "self"
  PROVE  n \in CountedOnce(l)
BY DEF CountedOnce, SelfMixed, ToSet

\* One account after another: what the second starts from is what the first leaves,
\* or counted once.
LEMMA TurnAfterTurn ==
  ASSUME NEW k, NEW l, NEW m, NEW o, NEW U, NEW n, NEW T, Turn(k, l, o, U, n, T),
         NEW p, NEW V, NEW q, NEW W, Turn(l, m, p, V, q, W),
         Enough(m, n, T, p, V)
  PROVE  Turn(k, m, o, U, q, W)
<1>1. Larger(k, m)
  BY DEF Turn, Larger
<1>2. ASSUME ~ m.panic
      PROVE  /\ Extends(k, m)
             /\ \A x : x = None \/ x \in CountedOnce(m)
                       \/ NameBalance(k, x) + One(x = q) <= NameBalance(m, x) + One(x = o)
             /\ \A str : str = None \/ str \in StringsCountedOnce(m)
                       \/ StringBalance(k, str) + Credit(str, q, W)
                            <= StringBalance(m, str) + Credit(str, o, U)
  <2>1. ~ l.panic /\ Good(k) /\ Good(l) /\ Good(m)
    BY <1>2 DEF Turn, Larger
  <2> USE DEF Enough
  <2>2. Extends(k, l) /\ Extends(l, m)
    BY <1>2, <2>1 DEF Turn
  <2>3. Extends(k, m)
    BY <2>2 DEF Extends, SameDefinition
  <2>4. CountedOnce(l) \subseteq CountedOnce(m) /\ StringsCountedOnce(l) \subseteq StringsCountedOnce(m)
    BY <2>2, CountedOnceGrows
  <2>5. ASSUME NEW x, x # None, x \notin CountedOnce(m)
        PROVE  NameBalance(k, x) + One(x = q) <= NameBalance(m, x) + One(x = o)
    <3>1. NameBalance(k, x) \in Int /\ NameBalance(l, x) \in Int /\ NameBalance(m, x) \in Int
      BY <2>1, BalancesAreIntegers
    <3>2. One(x = q) \in 0..1 /\ One(x = o) \in 0..1 /\ One(x = n) \in 0..1 /\ One(x = p) \in 0..1
      BY CreditsAreNaturals
    <3>3. One(x = p) <= One(x = n)
      BY <1>2, <2>5 DEF One
    <3>4. /\ NameBalance(k, x) + One(x = n) <= NameBalance(l, x) + One(x = o)
          /\ NameBalance(l, x) + One(x = q) <= NameBalance(m, x) + One(x = p)
      BY <1>2, <2>1, <2>4, <2>5 DEF Turn
    <3> QED
      BY <3>1, <3>2, <3>3, <3>4
  <2>6. ASSUME NEW str, str # None, str \notin StringsCountedOnce(m)
        PROVE  StringBalance(k, str) + Credit(str, q, W) <= StringBalance(m, str) + Credit(str, o, U)
    <3>1. StringBalance(k, str) \in Int /\ StringBalance(l, str) \in Int /\ StringBalance(m, str) \in Int
      BY <2>1, BalancesAreIntegers
    <3>2. /\ Credit(str, q, W) \in Nat /\ Credit(str, o, U) \in Nat
          /\ Credit(str, n, T) \in Nat /\ Credit(str, p, V) \in Nat
      BY CreditsAreNaturals
    <3>3. Credit(str, p, V) <= Credit(str, n, T)
      <4>1. p # None /\ str = p[1] => p = n
        BY <1>2, <2>6 DEF StringsCountedOnce
      <4>2. str \in V => str \in T
        BY <1>2, <2>6
      <4> QED
        BY <4>1, <4>2 DEF Credit, One
    <3>4. /\ StringBalance(k, str) + Credit(str, n, T) <= StringBalance(l, str) + Credit(str, o, U)
          /\ StringBalance(l, str) + Credit(str, q, W) <= StringBalance(m, str) + Credit(str, p, V)
      BY <1>2, <2>1, <2>4, <2>6 DEF Turn
    <3> QED
      BY <3>1, <3>2, <3>3, <3>4
  <2> QED
    BY <2>3, <2>5, <2>6
<1> QED
  BY <1>1, <1>2 DEF Turn

\* What is to spare stays to spare while a graph grows.
LEMMA Kept ==
  ASSUME NEW l, NEW m, Grown(l, m), NEW n, NEW T
  PROVE  Turn(l, m, n, T, n, T)
<1>1. ASSUME ~ m.panic, NEW x, x # None, x \notin CountedOnce(m)
      PROVE  NameBalance(l, x) + One(x = n) <= NameBalance(m, x) + One(x = n)
  <2>1. NameBalance(l, x) \in Int /\ NameBalance(m, x) \in Int
    BY BalancesAreIntegers DEF Grown, Spare, Turn, Larger
  <2>2. One(x = n) \in 0..1
    BY CreditsAreNaturals
  <2>3. NameBalance(l, x) + One(x = None) <= NameBalance(m, x) + One(x = None)
    BY <1>1 DEF Grown, Spare, Turn
  <2>4. One(x = None) = 0
    BY <1>1 DEF One
  <2> QED
    BY <2>1, <2>2, <2>3, <2>4
<1>2. ASSUME ~ m.panic, NEW str, str # None, str \notin StringsCountedOnce(m)
      PROVE  StringBalance(l, str) + Credit(str, n, T) <= StringBalance(m, str) + Credit(str, n, T)
  <2>1. StringBalance(l, str) \in Int /\ StringBalance(m, str) \in Int
    BY BalancesAreIntegers DEF Grown, Spare, Turn, Larger
  <2>2. Credit(str, n, T) \in Nat
    BY CreditsAreNaturals
  <2>3. StringBalance(l, str) + Credit(str, None, {}) <= StringBalance(m, str) + Credit(str, None, {})
    BY <1>2 DEF Grown, Spare, Turn
  <2>4. Credit(str, None, {}) = 0
    BY DEF Credit, One
  <2> QED
    BY <2>1, <2>2, <2>3, <2>4
<1> QED
  BY <1>1, <1>2 DEF Grown, Spare, Turn

\* Nothing changes.
LEMMA GrownReflexive == ASSUME NEW l, Good(l) PROVE Grown(l, l)
<1>1. Larger(l, l) /\ Extends(l, l)
  BY DEF Larger, Extends, SameDefinition
<1>2. ASSUME NEW n, NEW str
      PROVE  /\ NameBalance(l, n) + One(n = None) <= NameBalance(l, n) + One(n = None)
             /\ StringBalance(l, str) + Credit(str, None, {}) <= StringBalance(l, str) + Credit(str, None, {})
  BY BalancesAreIntegers, CreditsAreNaturals
<1> QED
  BY <1>1, <1>2 DEF Grown, Spare, Turn

\* What is to spare need not be used: a name that was counted and dropped.
LEMMA SpareGrown ==
  ASSUME NEW k, NEW l, NEW n, NEW T, Spare(k, l, n, T)
  PROVE  Grown(k, l)
<1>1. Good(l)
  BY DEF Spare, Turn, Larger
<1>2. Turn(l, l, None, {}, None, {})
  BY <1>1, GrownReflexive DEF Grown, Spare
<1> QED
  BY <1>2, TurnAfterTurn DEF Grown, Spare, Enough

\* Growing further is growing, and what is known stays known.
LEMMA GrownTransitive ==
  ASSUME NEW k, NEW l, NEW m, Grown(k, l), Grown(l, m)
  PROVE  Grown(k, m)
BY TurnAfterTurn DEF Grown, Spare, Enough

\* Neither what came before nor what comes after touches what is to spare.
LEMMA SpareAround ==
  ASSUME NEW k, NEW l, NEW m, NEW n, NEW T
  PROVE  /\ Grown(k, l) /\ Spare(l, m, n, T) => Spare(k, m, n, T)
         /\ Spare(k, l, n, T) /\ Grown(l, m) => Spare(k, m, n, T)
<1>1. ASSUME Grown(k, l), Spare(l, m, n, T) PROVE Spare(k, m, n, T)
  BY <1>1, TurnAfterTurn DEF Grown, Spare, Enough
<1>2. ASSUME Spare(k, l, n, T), Grown(l, m) PROVE Spare(k, m, n, T)
  <2>1. Turn(l, m, n, T, n, T)
    BY <1>2, Kept
  <2>2. Turn(k, l, None, {}, n, T)
    BY <1>2 DEF Spare
  <2>3. Enough(m, n, T, n, T)
    BY DEF Enough
  <2>4. Turn(k, m, None, {}, n, T)
    BY <2>1, <2>2, <2>3, TurnAfterTurn
  <2> QED
    BY <2>4 DEF Spare
<1> QED
  BY <1>1, <1>2

\* What was counted for a release is released.
LEMMA Spent ==
  ASSUME NEW k, NEW l, NEW m, NEW n, NEW T, Spare(k, l, n, T),
         NEW o, NEW U, Turn(l, m, o, U, None, {}),
         Enough(m, n, T, o, U)
  PROVE  Grown(k, m)
BY TurnAfterTurn DEF Grown, Spare

\* A definition as the indexers make it, with no mixins yet.
LEMMA NoneOfSeq == << >> \in Seq({})
OBVIOUS

LEMMA PlainDefinition ==
  ASSUME NEW kind, NEW at, NEW name, NEW str, NEW nesting
  PROVE  IsDefinition(Definition(kind, at, name, str, nesting))
BY NoneOfSeq DEF Definition, IsDefinition

\* What is to spare is enough for itself.
LEMMA EnoughToSpend ==
  ASSUME NEW m, NEW n, NEW T, NEW p, p = None \/ p = n, NEW V, V \subseteq T \cup {None}
  PROVE  Enough(m, n, T, p, V)
BY DEF Enough

\* Two definitions of one string at one place: the string counts for both.
LEMMA CountedForBoth ==
  ASSUME NEW l, NEW x \in DOMAIN l.defs, NEW y \in DOMAIN l.defs, x # y,
         l.defs[x].at = l.defs[y].at, l.defs[x].str = l.defs[y].str
  PROVE  l.defs[y].str \in StringsCountedOnce(l)
BY DEF StringsCountedOnce

LEMMA BalancedLater ==
  ASSUME NEW k, NEW l, Balanced(k), Grown(k, l)
  PROVE  Balanced(l)
<1> SUFFICES ASSUME ~ l.panic
             PROVE  /\ \A x : x = None \/ x \in CountedOnce(l) \/ 0 <= NameBalance(l, x)
                    /\ \A str : str = None \/ str \in StringsCountedOnce(l) \/ 0 <= StringBalance(l, str)
  BY DEF Balanced
<1>1. ~ k.panic /\ Good(k) /\ Good(l) /\ Extends(k, l)
  BY DEF Grown, Spare, Turn, Larger
<1>2. CountedOnce(k) \subseteq CountedOnce(l) /\ StringsCountedOnce(k) \subseteq StringsCountedOnce(l)
  BY <1>1, CountedOnceGrows
<1>3. ASSUME NEW x, x # None, x \notin CountedOnce(l) PROVE 0 <= NameBalance(l, x)
  <2>1. NameBalance(k, x) \in Int /\ NameBalance(l, x) \in Int /\ 0 <= NameBalance(k, x)
    BY <1>1, <1>2, <1>3, BalancesAreIntegers DEF Balanced
  <2>2. NameBalance(k, x) + One(x = None) <= NameBalance(l, x) + One(x = None) /\ One(x = None) = 0
    BY <1>3 DEF Grown, Spare, Turn, One
  <2> QED
    BY <2>1, <2>2
<1>4. ASSUME NEW str, str # None, str \notin StringsCountedOnce(l) PROVE 0 <= StringBalance(l, str)
  <2>1. StringBalance(k, str) \in Int /\ StringBalance(l, str) \in Int /\ 0 <= StringBalance(k, str)
    BY <1>1, <1>2, <1>4, BalancesAreIntegers DEF Balanced
  <2>2. StringBalance(k, str) + Credit(str, None, {}) <= StringBalance(l, str) + Credit(str, None, {})
    BY <1>4 DEF Grown, Spare, Turn
  <2>3. Credit(str, None, {}) = 0
    BY DEF Credit, One
  <2> QED
    BY <2>1, <2>2, <2>3
<1> QED
  BY <1>3, <1>4

LEMMA GrownGood == ASSUME NEW k, NEW l, Grown(k, l) PROVE Good(l)
BY DEF Grown, Spare, Turn, Larger

LEMMA GrownKnown ==
  ASSUME NEW k, NEW l, Grown(k, l), NEW n, Known(k, n)
  PROVE  Known(l, n)
BY DEF Grown, Spare, Turn, Larger, Known

LEMMA GrownReceiver ==
  ASSUME NEW k, NEW l, Grown(k, l), NEW receiver, ReceiverKnown(k, receiver)
  PROVE  ReceiverKnown(l, receiver)
BY GrownKnown DEF Grown, Spare, Turn, Larger, ReceiverKnown

\* In a closed graph, DependentsExact speaks of every name, known or not.
LEMMA ExactEverywhere ==
  ASSUME NEW l, Closed(l), DependentsExact(l), NEW n, n # None
  PROVE  At(l.deps, n, {}) = DependentsOf(l, n)
<1>1. CASE n \in DOMAIN l.names \cup DOMAIN l.deps
  BY <1>1 DEF DependentsExact
<1>2. CASE n \notin DOMAIN l.names \cup DOMAIN l.deps
  <2>1. At(l.deps, n, {}) = {}
    BY <1>2 DEF At
  <2>2. DefsNamed(l, n) = {} /\ RefsNamed(l, n) = {}
    BY <1>2 DEF DefsNamed, RefsNamed, Closed, DefinitionFits, Known
  <2>3. {x \in DOMAIN l.names : ParentOf(x) = n} = {} /\ {x \in DOMAIN l.names : NestingOf(x) = n} = {}
    BY <1>2 DEF Closed, Known
  <2> QED
    BY <2>1, <2>2, <2>3 DEF DependentsOf
<1> QED
  BY <1>1, <1>2

-----------------------------------------------------------------------------
(* The operations of a local graph.                                         *)

\* An operation that leaves definitions, names, constant references and
\* name_dependents alone only has the strings to account for.
LEMMA SameLinks ==
  ASSUME NEW l, Good(l), NEW m, IsGraph(m),
         m.defs = l.defs, m.names = l.names, m.refs = l.refs, m.deps = l.deps,
         m.panic \in BOOLEAN, l.panic => m.panic,
         IsFiniteSet(m.mrefs), None \notin DOMAIN m.strings,
         \A str \in DOMAIN m.strings : m.strings[str] \in Nat,
         NEW U, NEW T,
         m.panic \/ \A str : str = None \/ StringBalance(l, str) + One(str \in T)
                                             <= StringBalance(m, str) + One(str \in U)
  PROVE  Turn(l, m, None, U, None, T)
<1>1. Closed(m)
  BY DEF Good, Closed, DefinitionFits, Known, ReceiverKnown
<1>2. ASSUME ~ m.panic PROVE DependentsExact(m)
  BY <1>2 DEF Good, DependentsExact, DependentsOf, DefsNamed, RefsNamed
<1>3. Larger(l, m)
  BY <1>1, <1>2 DEF Good, Larger
<1>4. Extends(l, m)
  BY DEF Extends, SameDefinition
<1>5. ASSUME NEW n PROVE NameBalance(m, n) = NameBalance(l, n) /\ NameBalance(l, n) \in Int
  BY BalancesAreIntegers DEF NameBalance, Uses, DefsNamed, RefsNamed
<1>6. ASSUME NEW n PROVE NameBalance(l, n) + One(n = None) <= NameBalance(m, n) + One(n = None)
  BY <1>5, CreditsAreNaturals
<1>7. ASSUME NEW str, NEW V PROVE Credit(str, None, V) = One(str \in V)
  BY DEF Credit, One
<1> QED
  BY <1>3, <1>4, <1>6, <1>7 DEF Turn

\* An interned string is there to be released, once more than before.
LEMMA InternStringSpare ==
  ASSUME NEW l, Good(l), NEW str, str # None, NEW T, str \notin T
  PROVE  Turn(l, InternString(l, str), None, T, None, T \cup {str})
<1> DEFINE m == InternString(l, str)
<1>1. IsGraph(m) /\ m.defs = l.defs /\ m.names = l.names /\ m.refs = l.refs
      /\ m.mrefs = l.mrefs /\ m.deps = l.deps /\ m.panic = l.panic
  BY DEF InternString, Good, IsGraph, Fields
<1>2. m.strings = Put(l.strings, str, At(l.strings, str, 0) + 1)
  BY DEF InternString, Interned, Good, IsGraph, Fields
<1> HIDE DEF m
<1>3. /\ DOMAIN m.strings = DOMAIN l.strings \cup {str}
      /\ m.strings[str] = At(l.strings, str, 0) + 1
      /\ \A x \in DOMAIN l.strings : x # str => m.strings[x] = l.strings[x]
  BY <1>2 DEF Put
<1>4. \A x : At(l.strings, x, 0) \in Nat
  BY DEF At, Good, Closed
<1>5. None \notin DOMAIN m.strings /\ \A x \in DOMAIN m.strings : m.strings[x] \in Nat
  BY <1>3, <1>4 DEF Good, Closed
<1>6. ASSUME NEW x PROVE StringBalance(l, x) + One(x \in T \cup {str}) <= StringBalance(m, x) + One(x \in T)
  <2>1. At(m.strings, x, 0) = At(l.strings, x, 0) + One(x = str)
    BY <1>3, <1>4 DEF At, One
  <2>2. Releases(m, x) = Releases(l, x)
    BY <1>1 DEF Releases
  <2>3. StringBalance(l, x) \in Int /\ Good(l)
    BY BalancesAreIntegers
  <2>4. StringBalance(m, x) = (At(l.strings, x, 0) + One(x = str)) - Releases(l, x)
    BY <2>1, <2>2 DEF StringBalance
  <2>5. Releases(l, x) \in Int
    BY <2>3, ReleasesAreNaturals
  <2>6. StringBalance(m, x) = StringBalance(l, x) + One(x = str)
    BY <1>4, <2>4, <2>5, CreditsAreNaturals DEF StringBalance
  <2>7. One(x \in T \cup {str}) = One(x \in T) + One(x = str)
    BY DEF One
  <2> QED
    BY <2>3, <2>6, <2>7, CreditsAreNaturals
<1>7. IsFiniteSet(m.mrefs) /\ m.panic \in BOOLEAN
  BY <1>1 DEF Good, Closed
<1>8. Turn(l, m, None, T, None, T \cup {str})
  BY <1>1, <1>5, <1>6, <1>7, SameLinks
<1> QED
  BY <1>8 DEF m

LEMMA InternedSpare ==
  ASSUME NEW k, NEW l, NEW T, Spare(k, l, None, T), NEW str, str # None, str \notin T
  PROVE  Spare(k, InternString(l, str), None, T \cup {str})
<1>1. Good(l) /\ Turn(k, l, None, {}, None, T)
  BY DEF Spare, Turn, Larger
<1>2. Turn(l, InternString(l, str), None, T, None, T \cup {str})
  BY <1>1, InternStringSpare
<1>3. Enough(InternString(l, str), None, T, None, T)
  BY DEF Enough
<1> QED
  BY <1>1, <1>2, <1>3, TurnAfterTurn DEF Spare

LEMMA InternStringGrows ==
  ASSUME NEW l, Good(l), NEW str, str # None
  PROVE  /\ Spare(l, InternString(l, str), None, {str})
         /\ Grown(l, InternString(l, str))
<1>1. Turn(l, InternString(l, str), None, {}, None, {} \cup {str}) /\ {} \cup {str} = {str}
  BY InternStringSpare
<1>2. Spare(l, InternString(l, str), None, {str})
  BY <1>1 DEF Spare
<1> QED
  BY <1>2, SpareGrown

\* A method reference releases the string it was interned for.
LEMMA AddMethodReferenceGrows ==
  ASSUME NEW l, Good(l), NEW str, NEW at, NEW receiver, NEW T, str \notin T
  PROVE  Turn(l, AddMethodReference(l, str, at, receiver), None, T \cup {str}, None, T)
<1> DEFINE m == AddMethodReference(l, str, at, receiver)
  new == <<str, at, receiver>>
<1>1. IsGraph(m) /\ m.defs = l.defs /\ m.names = l.names /\ m.refs = l.refs
      /\ m.deps = l.deps /\ m.strings = l.strings /\ m.mrefs = l.mrefs \cup {new}
  BY DEF AddMethodReference, Good, IsGraph, Fields
<1>2. m.panic = (l.panic \/ \E r \in l.mrefs : r[1] = str /\ r[2] = at)
  BY DEF AddMethodReference, Good, IsGraph, Fields
<1> HIDE DEF m
<1>3. m.panic \in BOOLEAN /\ (l.panic => m.panic)
  BY <1>2
<1>4. IsFiniteSet(m.mrefs)
  <2>1. IsFiniteSet(l.mrefs)
    BY DEF Good, Closed
  <2> HIDE DEF new
  <2> QED
    BY <1>1, <2>1, FS_AddElement
<1>5. None \notin DOMAIN m.strings /\ \A x \in DOMAIN m.strings : m.strings[x] \in Nat
  BY <1>1 DEF Good, Closed
<1>6. ASSUME ~ m.panic, NEW x
      PROVE  StringBalance(l, x) + One(x \in T) <= StringBalance(m, x) + One(x \in T \cup {str})
  <2> DEFINE R == {r \in l.mrefs : r[1] = x}
    S == {r \in m.mrefs : r[1] = x}
  <2>1. new \notin l.mrefs /\ new[1] = str
    BY <1>2, <1>6
  <2>2. IsFiniteSet(R)
    BY FS_Subset DEF Good, Closed
  <2>3. S = IF x = str THEN R \cup {new} ELSE R
    BY <1>1, <2>1
  <2>4. new \notin R
    BY <2>1
  <2> HIDE DEF R, S, new
  <2>5. Cardinality(S) = Cardinality(R) + One(x = str)
    <3>1. Cardinality(R \cup {new}) = Cardinality(R) + 1 /\ Cardinality(R) \in Nat
      BY <2>2, <2>4, FS_AddElement, FS_CardinalityType
    <3> QED
      BY <2>3, <3>1 DEF One
  <2>6. Releases(m, x) = Releases(l, x) + One(x = str)
    <3> DEFINE a == Cardinality({y \in DOMAIN l.defs : x \in DefinitionStrings(l.defs[y])})
      c == Cardinality({y \in DOMAIN l.defs : l.defs[y].name # None /\ l.defs[y].name[1] = x})
      d == Cardinality({r \in l.refs : r[1][1] = x})
    <3>1. a \in Nat
      BY ReleasesAreFinite
    <3>2. c \in Nat
      BY FS_Subset, FS_CardinalityType DEF Good, Closed
    <3>3. d \in Nat
      BY ReleasesAreFinite
    <3>4. Cardinality(R) \in Nat
      BY <2>2, FS_CardinalityType
    <3>5. Releases(l, x) = a + Cardinality(R) + c + d
      BY DEF Releases, R
    <3>6. Releases(m, x) = a + Cardinality(S) + c + d
      BY <1>1 DEF Releases, S
    <3>7. One(x = str) \in 0..1
      BY CreditsAreNaturals
    <3> HIDE DEF a, c, d
    <3> QED
      BY <2>5, <3>1, <3>2, <3>3, <3>4, <3>5, <3>6, <3>7
  <2>7. StringBalance(m, x) = StringBalance(l, x) - One(x = str)
    <3>1. At(l.strings, x, 0) \in Nat /\ Releases(l, x) \in Nat
      BY ReleasesAreNaturals
    <3>2. One(x = str) \in 0..1
      BY CreditsAreNaturals
    <3> QED
      BY <1>1, <2>6, <3>1, <3>2 DEF StringBalance
  <2>8. One(x \in T \cup {str}) = One(x \in T) + One(x = str)
    BY DEF One
  <2> QED
    BY <2>7, <2>8, BalancesAreIntegers, CreditsAreNaturals
<1>7. Turn(l, m, None, T \cup {str}, None, T)
  BY <1>1, <1>3, <1>4, <1>5, <1>6, SameLinks
<1> QED
  BY <1>7 DEF m

\* A definition whose name, string and receiver stay is the same to the graph.
LEMMA EditedDefinitions ==
  ASSUME NEW l, Good(l), NEW m, IsGraph(m),
         m.strings = l.strings, m.names = l.names, m.refs = l.refs, m.mrefs = l.mrefs,
         m.deps = l.deps, m.panic = l.panic,
         DOMAIN m.defs = DOMAIN l.defs,
         \A x \in DOMAIN l.defs :
           SameDefinition(l.defs[x], m.defs[x]) /\ \E S : m.defs[x].mixins \in Seq(S)
  PROVE  Grown(l, m)
<1>1. Closed(m)
  <2>1. ASSUME NEW x \in DOMAIN l.defs PROVE DefinitionFits(m, m.defs[x])
    BY DEF Good, Closed, DefinitionFits, IsDefinition, SameDefinition, Known, ReceiverKnown
  <2> QED
    BY <2>1 DEF Good, Closed, Known
<1>2. ASSUME NEW n PROVE DefsNamed(m, n) = DefsNamed(l, n)
  BY DEF DefsNamed, SameDefinition
<1>3. ASSUME ~ m.panic PROVE DependentsExact(m)
  BY <1>2, <1>3 DEF Good, DependentsExact, DependentsOf, RefsNamed
<1>4. Larger(l, m)
  BY <1>1, <1>3 DEF Good, Larger, SameDefinition
<1>5. Extends(l, m)
  BY DEF Extends
<1>6. ASSUME NEW n PROVE NameBalance(m, n) = NameBalance(l, n)
  BY <1>2 DEF NameBalance, Uses, RefsNamed
<1>7. ASSUME NEW str PROVE StringBalance(m, str) = StringBalance(l, str)
  <2>1. \A x \in DOMAIN l.defs : DefinitionStrings(m.defs[x]) = DefinitionStrings(l.defs[x])
    BY DEF DefinitionStrings, SameDefinition
  <2>2. {x \in DOMAIN m.defs : str \in DefinitionStrings(m.defs[x])}
          = {x \in DOMAIN l.defs : str \in DefinitionStrings(l.defs[x])}
    BY <2>1
  <2>3. {x \in DOMAIN m.defs : m.defs[x].name # None /\ m.defs[x].name[1] = str}
          = {x \in DOMAIN l.defs : l.defs[x].name # None /\ l.defs[x].name[1] = str}
    BY DEF SameDefinition
  <2> QED
    BY <2>2, <2>3 DEF StringBalance, Releases
<1>8. ASSUME NEW n, NEW str
      PROVE  /\ NameBalance(l, n) + One(n = None) <= NameBalance(m, n) + One(n = None)
             /\ StringBalance(l, str) + Credit(str, None, {}) <= StringBalance(m, str) + Credit(str, None, {})
  <2>1. NameBalance(l, n) \in Int /\ StringBalance(l, str) \in Int
    BY BalancesAreIntegers
  <2>2. One(n = None) \in 0..1 /\ Credit(str, None, {}) \in Nat
    BY CreditsAreNaturals
  <2> QED
    BY <1>6, <1>7, <2>1, <2>2
<1> QED
  BY <1>4, <1>5, <1>8 DEF Grown, Spare, Turn

LEMMA AddMemberGrows ==
  ASSUME NEW l, Good(l), NEW owner, NEW member
  PROVE  /\ Grown(l, AddMember(l, owner, member))
         /\ DOMAIN AddMember(l, owner, member).defs = DOMAIN l.defs
         /\ AddMember(l, owner, member).panic = l.panic
         /\ \A x \in DOMAIN l.defs :
              SameDefinition(l.defs[x], AddMember(l, owner, member).defs[x])
<1> DEFINE m == AddMember(l, owner, member)
<1>1. CASE owner = None
  BY <1>1, GrownReflexive DEF AddMember, SameDefinition
<1>2. CASE owner # None
  <2>1. m = [l EXCEPT !.defs[owner].members = @ \cup {member}]
    BY <1>2 DEF AddMember
  <2>2. IsGraph(m) /\ m.strings = l.strings /\ m.names = l.names /\ m.refs = l.refs
        /\ m.mrefs = l.mrefs /\ m.deps = l.deps /\ m.panic = l.panic
    BY <2>1 DEF Good, IsGraph, Fields
  <2>3. m.defs = [l.defs EXCEPT ![owner].members = @ \cup {member}]
    BY <2>1 DEF Good, IsGraph, Fields
  <2>4. DOMAIN m.defs = DOMAIN l.defs
    BY <2>3
  <2>5. ASSUME NEW x \in DOMAIN l.defs
        PROVE  SameDefinition(l.defs[x], m.defs[x]) /\ m.defs[x].mixins = l.defs[x].mixins
    <3>1. IsDefinition(l.defs[x])
      BY DEF Good, Closed, DefinitionFits
    <3>2. CASE x = owner
      <4>1. m.defs[x] = [l.defs[x] EXCEPT !.members = @ \cup {member}]
        BY <2>3, <3>2
      <4> QED
        BY <3>1, <4>1 DEF IsDefinition, SameDefinition
    <3>3. CASE x # owner
      BY <2>3, <3>3 DEF SameDefinition
    <3> QED
      BY <3>2, <3>3
  <2> HIDE DEF m
  <2>6. \A x \in DOMAIN l.defs : \E S : m.defs[x].mixins \in Seq(S)
    BY <2>5 DEF Good, Closed, DefinitionFits, IsDefinition
  <2>7. Grown(l, m)
    BY <2>2, <2>4, <2>5, <2>6, EditedDefinitions
  <2> QED
    BY <2>2, <2>4, <2>5, <2>7 DEF m
<1> QED
  BY <1>1, <1>2


\* One more, if P.
LEMMA OneMore ==
  ASSUME NEW S, IsFiniteSet(S), NEW x, x \notin S, NEW P \in BOOLEAN,
         NEW T, T = IF P THEN S \cup {x} ELSE S
  PROVE  Cardinality(T) = Cardinality(S) + One(P)
<1>1. Cardinality(S \cup {x}) = Cardinality(S) + 1 /\ Cardinality(S) \in Nat
  BY FS_AddElement, FS_CardinalityType
<1> QED
  BY <1>1 DEF One

\* Uses and releases of a name, of the definitions and of the references.
LEMMA NameAccount ==
  ASSUME NEW l, Good(l), NEW m, m.names = l.names, NEW x, NEW i \in Nat, NEW j \in Nat,
         Cardinality(DefsNamed(m, x)) = Cardinality(DefsNamed(l, x)) + i,
         Cardinality(RefsNamed(m, x)) = Cardinality(RefsNamed(l, x)) + j
  PROVE  NameBalance(m, x) + i + j = NameBalance(l, x) /\ NameBalance(m, x) \in Int
<1>1. /\ At(l.names, x, 0) \in Nat
      /\ Cardinality(DefsNamed(l, x)) \in Nat /\ Cardinality(RefsNamed(l, x)) \in Nat
  BY UsesAreNaturals
<1> QED
  BY <1>1 DEF NameBalance, Uses

ByString(l, str) == {x \in DOMAIN l.defs : str \in DefinitionStrings(l.defs[x])}
ByName(l, str) == {x \in DOMAIN l.defs : l.defs[x].name # None /\ l.defs[x].name[1] = str}
ByReference(l, str) == {r \in l.refs : r[1][1] = str}

LEMMA StringAccount ==
  ASSUME NEW l, Good(l), NEW m, m.strings = l.strings, m.mrefs = l.mrefs, NEW str,
         NEW i \in Nat, NEW j \in Nat, NEW k \in Nat,
         Cardinality(ByString(m, str)) = Cardinality(ByString(l, str)) + i,
         Cardinality(ByName(m, str)) = Cardinality(ByName(l, str)) + j,
         Cardinality(ByReference(m, str)) = Cardinality(ByReference(l, str)) + k
  PROVE  StringBalance(m, str) + i + j + k = StringBalance(l, str) /\ StringBalance(m, str) \in Int
<1> DEFINE b == Cardinality({r \in l.mrefs : r[1] = str})
<1>1. IsFiniteSet(ByString(l, str)) /\ IsFiniteSet(ByName(l, str)) /\ IsFiniteSet(ByReference(l, str))
  <2>1. ByString(l, str) \subseteq DOMAIN l.defs /\ ByName(l, str) \subseteq DOMAIN l.defs
        /\ ByReference(l, str) \subseteq l.refs
    BY DEF ByString, ByName, ByReference
  <2> QED
    BY <2>1, FS_Subset DEF Good, Closed
<1>2. /\ Cardinality(ByString(l, str)) \in Nat /\ Cardinality(ByName(l, str)) \in Nat
      /\ Cardinality(ByReference(l, str)) \in Nat
  BY <1>1, FS_CardinalityType
<1>3. b \in Nat
  BY ReleasesAreFinite
<1>4. At(l.strings, str, 0) \in Nat
  BY ReleasesAreNaturals
<1>5. Releases(l, str) = Cardinality(ByString(l, str)) + b + Cardinality(ByName(l, str))
                           + Cardinality(ByReference(l, str))
  BY DEF Releases, ByString, ByName, ByReference
<1>6. Releases(m, str) = Cardinality(ByString(m, str)) + b + Cardinality(ByName(m, str))
                           + Cardinality(ByReference(m, str))
  BY DEF Releases, ByString, ByName, ByReference
<1> HIDE DEF b
<1> QED
  BY <1>2, <1>3, <1>4, <1>5, <1>6 DEF StringBalance

\* Nothing depends on no name.
LEMMA DependNone ==
  ASSUME NEW deps, None \notin DOMAIN deps, NEW n, NEW x
  PROVE  None \notin DOMAIN Depend(deps, n, x)
BY DEF Depend, Put

\* What an entry of name_dependents holds after one more dependent.
LEMMA DependAt ==
  ASSUME NEW deps, NEW n, NEW x, NEW m, m # None
  PROVE  At(Depend(deps, n, x), m, {}) = At(deps, m, {}) \cup (IF m = n THEN {x} ELSE {})
<1>1. CASE n = None
  BY <1>1 DEF Depend
<1>2. CASE n # None
  <2> DEFINE new == At(deps, n, {}) \cup {x}
  <2>1. Depend(deps, n, x) = Put(deps, n, new)
    BY <1>2 DEF Depend
  <2> HIDE DEF new
  <2>2. CASE m = n
    <3>1. At(Depend(deps, n, x), m, {}) = new
      BY <2>1, <2>2 DEF At, Put
    <3> QED
      BY <2>2, <3>1 DEF new
  <2>3. CASE m # n
    BY <2>1, <2>3 DEF At, Put
  <2> QED
    BY <2>2, <2>3
<1> QED
  BY <1>1, <1>2

\* A reference releases the name it was counted for.
LEMMA AddConstantReferenceGrows ==
  ASSUME NEW l, Good(l), NEW n, n \in DOMAIN l.names, NEW at
  PROVE  /\ Turn(l, AddConstantReference(l, n, at), n, {}, None, {})
         /\ <<n, at>> \in AddConstantReference(l, n, at).refs
         /\ n \in DOMAIN AddConstantReference(l, n, at).names
         /\ AddConstantReference(l, n, at).defs = l.defs
<1> DEFINE m == AddConstantReference(l, n, at)
  use == <<"ref", <<n, at>>>>
<1>1. IsGraph(m) /\ m.defs = l.defs /\ m.names = l.names /\ m.strings = l.strings
      /\ m.mrefs = l.mrefs
  BY DEF AddConstantReference, Good, IsGraph, Fields
<1>2. m.refs = l.refs \cup {<<n, at>>} /\ m.deps = Depend(l.deps, n, use)
  BY DEF AddConstantReference, Good, IsGraph, Fields
<1>3. m.panic = (l.panic \/ <<n, at>> \in l.refs)
  BY DEF AddConstantReference, Good, IsGraph, Fields
<1> HIDE DEF m
<1>4. n # None /\ None \notin DOMAIN l.deps
  BY DEF Good, Closed
<1>5. None \notin DOMAIN m.deps
  <2> HIDE DEF use
  <2> QED
    BY <1>2, <1>4, DependNone
<1>6. IsFiniteSet(m.refs)
  <2>1. IsFiniteSet(l.refs)
    BY DEF Good, Closed
  <2> QED
    BY <1>2, <2>1, FS_AddElement
<1>7. \A r \in m.refs : r[1] \in DOMAIN m.names
  BY <1>1, <1>2 DEF Good, Closed
<1>8. Closed(m)
  BY <1>1, <1>5, <1>6, <1>7 DEF Good, Closed, DefinitionFits, Known, ReceiverKnown
<1>9. ASSUME ~ m.panic PROVE DependentsExact(m)
  <2>1. ~ l.panic /\ DependentsExact(l) /\ <<n, at>> \notin l.refs
    BY <1>3, <1>9 DEF Good
  <2> SUFFICES ASSUME NEW k \in DOMAIN m.names \cup DOMAIN m.deps
               PROVE  At(m.deps, k, {}) = DependentsOf(m, k)
    BY DEF DependentsExact
  <2>2. k # None
    BY <1>1, <1>5 DEF Good, Closed
  <2>3. At(l.deps, k, {}) = DependentsOf(l, k)
    BY <2>1, <2>2, ExactEverywhere DEF Good
  <2>4. At(m.deps, k, {}) = At(l.deps, k, {}) \cup (IF k = n THEN {use} ELSE {})
    <3> HIDE DEF use
    <3> QED
      BY <1>2, <2>2, DependAt
  <2>5. DefsNamed(m, k) = DefsNamed(l, k)
    BY <1>1 DEF DefsNamed
  <2>6. RefsNamed(m, k) = RefsNamed(l, k) \cup (IF k = n THEN {<<n, at>>} ELSE {})
    BY <1>2 DEF RefsNamed
  <2>7. DependentsOf(m, k) = DependentsOf(l, k) \cup (IF k = n THEN {use} ELSE {})
    BY <1>1, <2>5, <2>6 DEF DependentsOf
  <2> QED
    BY <2>3, <2>4, <2>7
<1>10. Larger(l, m)
  BY <1>1, <1>3, <1>8, <1>9 DEF Good, Larger
<1>11. Extends(l, m)
  BY <1>1, <1>2 DEF Extends, SameDefinition
<1>12. ASSUME ~ m.panic, NEW x, x # None
       PROVE  NameBalance(l, x) + One(x = None) <= NameBalance(m, x) + One(x = n)
  <2> DEFINE new == <<n, at>>
  <2>1. new \notin RefsNamed(l, x)
    BY <1>3, <1>12 DEF RefsNamed
  <2>2. RefsNamed(m, x) = IF x = n THEN RefsNamed(l, x) \cup {new} ELSE RefsNamed(l, x)
    BY <1>2 DEF RefsNamed
  <2> HIDE DEF new
  <2>3. IsFiniteSet(RefsNamed(l, x)) /\ Cardinality(DefsNamed(l, x)) \in Nat
    BY UsesAreNaturals
  <2>4. Cardinality(RefsNamed(m, x)) = Cardinality(RefsNamed(l, x)) + One(x = n)
    BY <2>1, <2>2, <2>3, OneMore
  <2>5. Cardinality(DefsNamed(m, x)) = Cardinality(DefsNamed(l, x)) + 0
    <3>1. DefsNamed(m, x) = DefsNamed(l, x)
      BY <1>1 DEF DefsNamed
    <3> QED
      BY <2>3, <3>1
  <2>6. One(x = n) \in Nat /\ One(x = None) = 0
    BY <1>12, CreditsAreNaturals DEF One
  <2>7. NameBalance(m, x) + 0 + One(x = n) = NameBalance(l, x) /\ NameBalance(m, x) \in Int
    BY <1>1, <2>4, <2>5, <2>6, NameAccount
  <2> QED
    BY <2>6, <2>7
<1>13. ASSUME ~ m.panic, NEW str
       PROVE  StringBalance(l, str) + Credit(str, None, {}) <= StringBalance(m, str) + Credit(str, n, {})
  <2> DEFINE new == <<n, at>>
  <2>1. new \notin ByReference(l, str)
    BY <1>3, <1>13 DEF ByReference
  <2>2. ByReference(m, str) = IF str = n[1] THEN ByReference(l, str) \cup {new} ELSE ByReference(l, str)
    BY <1>2 DEF ByReference
  <2> HIDE DEF new
  <2>3. IsFiniteSet(ByReference(l, str))
    <3>1. ByReference(l, str) \subseteq l.refs
      BY DEF ByReference
    <3> QED
      BY <3>1, FS_Subset DEF Good, Closed
  <2>4. Cardinality(ByReference(m, str)) = Cardinality(ByReference(l, str)) + One(str = n[1])
    BY <2>1, <2>2, <2>3, OneMore
  <2>5. ByString(m, str) = ByString(l, str) /\ ByName(m, str) = ByName(l, str)
    BY <1>1 DEF ByString, ByName
  <2>6. Cardinality(ByString(l, str)) \in Nat /\ Cardinality(ByName(l, str)) \in Nat
    <3>1. ByString(l, str) \subseteq DOMAIN l.defs /\ ByName(l, str) \subseteq DOMAIN l.defs
      BY DEF ByString, ByName
    <3> QED
      BY <3>1, FS_Subset, FS_CardinalityType DEF Good, Closed
  <2>7. One(str = n[1]) \in Nat
    BY CreditsAreNaturals
  <2>8. StringBalance(m, str) + 0 + 0 + One(str = n[1]) = StringBalance(l, str)
        /\ StringBalance(m, str) \in Int
    <3>1. /\ Cardinality(ByString(m, str)) = Cardinality(ByString(l, str)) + 0
          /\ Cardinality(ByName(m, str)) = Cardinality(ByName(l, str)) + 0
      BY <2>5, <2>6
    <3> QED
      BY <1>1, <2>4, <2>7, <3>1, StringAccount
  <2>9. Credit(str, None, {}) = 0 /\ Credit(str, n, {}) = One(str = n[1])
    BY <1>4 DEF Credit, One
  <2> QED
    BY <2>7, <2>8, <2>9
<1>14. Turn(l, m, n, {}, None, {})
  BY <1>10, <1>11, <1>12, <1>13 DEF Turn
<1> QED
  BY <1>1, <1>2, <1>14 DEF m

\* What is mixed in is a reference, and is found among the mixins of the owner.
LEMMA AddMixinGrows ==
  ASSUME NEW l, Good(l), NEW owner \in DOMAIN l.defs, NEW kind, NEW n, n \in DOMAIN l.names, NEW at,
         NEW written, NEW m, m = AddMixin(l, owner, kind, n, at, written)
  PROVE  /\ Turn(l, m, n, {}, None, {})
         /\ \E z \in DOMAIN m.defs : \E i \in DOMAIN m.defs[z].mixins :
              m.defs[z].mixins[i][2][1] = n /\ m.defs[z].mixins[i][3] = written
<1> DEFINE k == AddConstantReference(l, n, at)
  link == <<kind, <<n, at>>, written>>
<1>1. Turn(l, k, n, {}, None, {}) /\ Good(k) /\ owner \in DOMAIN k.defs
  BY AddConstantReferenceGrows DEF Turn, Larger
<1>2. m = [k EXCEPT !.defs[owner].mixins = Append(@, link)]
  BY DEF AddMixin
<1> HIDE DEF k
<1>3. IsGraph(m) /\ m.names = k.names /\ m.refs = k.refs /\ m.deps = k.deps
      /\ m.panic = k.panic /\ m.strings = k.strings /\ m.mrefs = k.mrefs
  BY <1>1, <1>2 DEF Good, IsGraph, Fields
<1>4. m.defs = [k.defs EXCEPT ![owner].mixins = Append(@, link)]
  BY <1>1, <1>2 DEF Good, IsGraph, Fields
<1>5. DOMAIN m.defs = DOMAIN k.defs
  BY <1>4
<1> DEFINE old == k.defs[owner].mixins
<1>6. PICK S : old \in Seq(S)
  BY <1>1 DEF Good, Closed, DefinitionFits, IsDefinition
<1>7. m.defs[owner] = [k.defs[owner] EXCEPT !.mixins = Append(old, link)]
  BY <1>1, <1>4
<1>8. m.defs[owner].mixins = Append(old, link) /\ SameDefinition(k.defs[owner], m.defs[owner])
  <2>1. IsDefinition(k.defs[owner])
    BY <1>1 DEF Good, Closed, DefinitionFits
  <2>2. m.defs[owner].mixins = Append(old, link)
    BY <1>7, <2>1 DEF IsDefinition
  <2> HIDE DEF link
  <2>3. \A i \in DOMAIN old : i \in DOMAIN Append(old, link) /\ Append(old, link)[i] = old[i]
    BY <1>6
  <2> QED
    BY <1>7, <2>1, <2>2, <2>3 DEF IsDefinition, SameDefinition
<1>9. Append(old, link) \in Seq(S \cup {link})
  <2> HIDE DEF link
  <2>1. old \in Seq(S \cup {link})
    BY <1>6
  <2> QED
    BY <2>1
<1>10. ASSUME NEW x \in DOMAIN k.defs
       PROVE  SameDefinition(k.defs[x], m.defs[x]) /\ \E R : m.defs[x].mixins \in Seq(R)
  <2>1. CASE x = owner
    BY <1>8, <1>9, <2>1
  <2>2. CASE x # owner
    <3>1. m.defs[x] = k.defs[x]
      BY <1>4, <2>2
    <3>2. IsDefinition(k.defs[x])
      BY <1>1 DEF Good, Closed, DefinitionFits
    <3> QED
      BY <3>1, <3>2 DEF IsDefinition, SameDefinition
  <2> QED
    BY <2>1, <2>2
<1>11. Grown(k, m)
  BY <1>1, <1>3, <1>5, <1>10, EditedDefinitions
<1>12. Turn(l, m, n, {}, None, {})
  <2>1. Turn(k, m, None, {}, None, {}) /\ Enough(m, None, {}, None, {})
    BY <1>11 DEF Grown, Spare, Enough
  <2> QED
    BY <1>1, <2>1, TurnAfterTurn
<1>13. \E i \in DOMAIN m.defs[owner].mixins :
         m.defs[owner].mixins[i][2][1] = n /\ m.defs[owner].mixins[i][3] = written
  <2>1. Len(old) + 1 \in DOMAIN Append(old, link) /\ Append(old, link)[Len(old) + 1] = link
    <3> HIDE DEF link
    <3> QED
      BY <1>6
  <2>2. link[2][1] = n /\ link[3] = written
    OBVIOUS
  <2>3. m.defs[owner].mixins = Append(old, link)
    BY <1>8
  <2> HIDE DEF link, old
  <2> QED
    BY <2>1, <2>2, <2>3
<1> QED
  BY <1>1, <1>5, <1>12, <1>13

\* A definition under an identifier that is taken is the collision the code
\* asserts against; otherwise it is one more dependent of its name, and releases
\* its name and its strings.
LEMMA AddDefinitionGrows ==
  ASSUME NEW l, Good(l), NEW d, DefinitionFits(l, d), ~ (DefinitionId(d)[1] < Here)
  PROVE  /\ Turn(l, AddDefinition(l, d), d.name, DefinitionStrings(d), None, {})
         /\ DefinitionId(d) \in DOMAIN AddDefinition(l, d).defs
         /\ AddDefinition(l, d).defs[DefinitionId(d)] = d
         /\ DefinitionId(d) \in DOMAIN l.defs => AddDefinition(l, d).panic
<1> DEFINE m == AddDefinition(l, d)
  id == DefinitionId(d)
  use == <<"def", id>>
<1>1. IsGraph(m) /\ m.names = l.names /\ m.refs = l.refs /\ m.strings = l.strings
      /\ m.mrefs = l.mrefs
  BY DEF AddDefinition, Good, IsGraph, Fields
<1>2. m.defs = Put(l.defs, id, d) /\ m.deps = Depend(l.deps, d.name, use)
  BY DEF AddDefinition, Good, IsGraph, Fields
<1>3. m.panic = (l.panic \/ id \in DOMAIN l.defs)
  BY DEF AddDefinition, Good, IsGraph, Fields
<1> HIDE DEF m, id
<1>4. /\ DOMAIN m.defs = DOMAIN l.defs \cup {id} /\ m.defs[id] = d
      /\ \A x \in DOMAIN l.defs : x # id => m.defs[x] = l.defs[x]
  BY <1>2 DEF Put
<1>5. None \notin DOMAIN m.deps
  <2>1. None \notin DOMAIN l.deps
    BY DEF Good, Closed
  <2> HIDE DEF use
  <2> QED
    BY <1>2, <2>1, DependNone
<1>6. IsFiniteSet(DOMAIN m.defs)
  <2>1. IsFiniteSet(DOMAIN l.defs)
    BY DEF Good, Closed
  <2> QED
    BY <1>4, <2>1, FS_AddElement
<1>7. ASSUME NEW x \in DOMAIN m.defs PROVE DefinitionFits(m, m.defs[x])
  <2>1. \E y \in {d, l.defs[x]} : m.defs[x] = y /\ DefinitionFits(l, y)
    BY <1>4 DEF Good, Closed
  <2> QED
    BY <1>1, <1>4, <2>1 DEF DefinitionFits, Known, ReceiverKnown
<1>8. Closed(m)
  BY <1>1, <1>5, <1>6, <1>7 DEF Good, Closed, Known
<1>9. ASSUME ~ m.panic PROVE DependentsExact(m)
  <2>1. ~ l.panic /\ DependentsExact(l) /\ id \notin DOMAIN l.defs
    BY <1>3, <1>9 DEF Good
  <2> SUFFICES ASSUME NEW k \in DOMAIN m.names \cup DOMAIN m.deps
               PROVE  At(m.deps, k, {}) = DependentsOf(m, k)
    BY DEF DependentsExact
  <2>2. k # None
    BY <1>1, <1>5 DEF Good, Closed
  <2>3. At(l.deps, k, {}) = DependentsOf(l, k)
    BY <2>1, <2>2, ExactEverywhere DEF Good
  <2>4. At(m.deps, k, {}) = At(l.deps, k, {}) \cup (IF k = d.name THEN {use} ELSE {})
    <3> HIDE DEF use
    <3> QED
      BY <1>2, <2>2, DependAt
  <2>5. RefsNamed(m, k) = RefsNamed(l, k)
    BY <1>1 DEF RefsNamed
  <2>6. DefsNamed(m, k) = DefsNamed(l, k) \cup (IF k = d.name THEN {id} ELSE {})
    BY <1>4, <2>1 DEF DefsNamed
  <2>7. DependentsOf(m, k) = DependentsOf(l, k) \cup (IF k = d.name THEN {use} ELSE {})
    BY <1>1, <2>5, <2>6 DEF DependentsOf
  <2> QED
    BY <2>3, <2>4, <2>7
<1>10. Larger(l, m)
  BY <1>1, <1>3, <1>4, <1>8, <1>9 DEF Good, Larger, id
<1>11. ASSUME ~ m.panic PROVE id \notin DOMAIN l.defs /\ Extends(l, m)
  <2>1. id \notin DOMAIN l.defs
    BY <1>3, <1>11
  <2> QED
    BY <1>1, <1>4, <2>1 DEF Extends, SameDefinition
<1>12. ASSUME ~ m.panic, NEW x, x # None
       PROVE  NameBalance(l, x) + One(x = None) <= NameBalance(m, x) + One(x = d.name)
  <2>1. id \notin DefsNamed(l, x)
    BY <1>11, <1>12 DEF DefsNamed
  <2>2. DefsNamed(m, x) = IF x = d.name THEN DefsNamed(l, x) \cup {id} ELSE DefsNamed(l, x)
    BY <1>4, <1>11, <1>12 DEF DefsNamed
  <2>3. IsFiniteSet(DefsNamed(l, x)) /\ Cardinality(RefsNamed(l, x)) \in Nat
    BY UsesAreNaturals
  <2>4. Cardinality(DefsNamed(m, x)) = Cardinality(DefsNamed(l, x)) + One(x = d.name)
    BY <2>1, <2>2, <2>3, OneMore
  <2>5. Cardinality(RefsNamed(m, x)) = Cardinality(RefsNamed(l, x)) + 0
    <3>1. RefsNamed(m, x) = RefsNamed(l, x)
      BY <1>1 DEF RefsNamed
    <3> QED
      BY <2>3, <3>1
  <2>6. One(x = d.name) \in Nat /\ One(x = None) = 0
    BY <1>12, CreditsAreNaturals DEF One
  <2>7. NameBalance(m, x) + One(x = d.name) + 0 = NameBalance(l, x) /\ NameBalance(m, x) \in Int
    BY <1>1, <2>4, <2>5, <2>6, NameAccount
  <2> QED
    BY <2>6, <2>7
<1>13. ASSUME ~ m.panic, NEW str
       PROVE  StringBalance(l, str) + Credit(str, None, {})
                <= StringBalance(m, str) + Credit(str, d.name, DefinitionStrings(d))
  <2> DEFINE P == str \in DefinitionStrings(d)
    Q == d.name # None /\ str = d.name[1]
  <2>1. id \notin ByString(l, str) /\ id \notin ByName(l, str)
    BY <1>11, <1>13 DEF ByString, ByName
  <2>2. ByString(m, str) = IF P THEN ByString(l, str) \cup {id} ELSE ByString(l, str)
    BY <1>4, <1>11, <1>13 DEF ByString
  <2>3. ByName(m, str) = IF Q THEN ByName(l, str) \cup {id} ELSE ByName(l, str)
    BY <1>4, <1>11, <1>13 DEF ByName
  <2>4. P \in BOOLEAN /\ Q \in BOOLEAN
    OBVIOUS
  <2>5. Credit(str, None, {}) = 0 /\ Credit(str, d.name, DefinitionStrings(d)) = One(Q) + One(P)
    BY DEF Credit, One
  <2> HIDE DEF P, Q
  <2>6. IsFiniteSet(ByString(l, str)) /\ IsFiniteSet(ByName(l, str))
    <3>1. ByString(l, str) \subseteq DOMAIN l.defs /\ ByName(l, str) \subseteq DOMAIN l.defs
      BY DEF ByString, ByName
    <3> QED
      BY <3>1, FS_Subset DEF Good, Closed
  <2>7. Cardinality(ByString(m, str)) = Cardinality(ByString(l, str)) + One(P)
    BY <2>1, <2>2, <2>4, <2>6, OneMore
  <2>8. Cardinality(ByName(m, str)) = Cardinality(ByName(l, str)) + One(Q)
    BY <2>1, <2>3, <2>4, <2>6, OneMore
  <2>9. Cardinality(ByReference(m, str)) = Cardinality(ByReference(l, str)) + 0
    <3>1. ByReference(l, str) \subseteq l.refs /\ ByReference(m, str) = ByReference(l, str)
      BY <1>1 DEF ByReference
    <3>2. Cardinality(ByReference(l, str)) \in Nat
      BY <3>1, FS_Subset, FS_CardinalityType DEF Good, Closed
    <3> QED
      BY <3>1, <3>2
  <2>10. One(P) \in Nat /\ One(Q) \in Nat
    BY CreditsAreNaturals
  <2>11. StringBalance(m, str) + One(P) + One(Q) + 0 = StringBalance(l, str)
         /\ StringBalance(m, str) \in Int
    BY <1>1, <2>7, <2>8, <2>9, <2>10, StringAccount
  <2> QED
    BY <2>5, <2>10, <2>11
<1>14. Turn(l, m, d.name, DefinitionStrings(d), None, {})
  BY <1>10, <1>11, <1>12, <1>13 DEF Turn
<1> QED
  BY <1>3, <1>4, <1>14 DEF m, id

\* A name is added with its string, and may be released once more than before.
LEMMA AddNameGrows ==
  ASSUME NEW l, Good(l), NEW str, str # None, NEW scope, NEW parent, Known(l, parent),
         NEW nesting, Known(l, nesting)
  PROVE  /\ Spare(l, AddName(l, Name(str, scope, parent, nesting)),
                  Name(str, scope, parent, nesting), {})
         /\ Name(str, scope, parent, nesting)
              \in DOMAIN AddName(l, Name(str, scope, parent, nesting)).names
         /\ Name(str, scope, parent, nesting) # None
<1> DEFINE n == Name(str, scope, parent, nesting)
  m == AddName(l, n)
  child == <<"child", n>>
  nested == <<"nested", n>>
  before == IF n \in DOMAIN l.names THEN l.deps
            ELSE Depend(Depend(l.deps, parent, child), nesting, nested)
<1>1. n # None /\ ParentOf(n) = parent /\ NestingOf(n) = nesting /\ n[1] = str
  BY DEF Name, None, ParentOf, NestingOf
<1> HIDE DEF n
<1>2. IsGraph(m) /\ m.defs = l.defs /\ m.refs = l.refs /\ m.panic = l.panic /\ m.mrefs = l.mrefs
  BY DEF AddName, Count, Link, InternString, Good, IsGraph, Fields
<1>3. m.names = Put(l.names, n, At(l.names, n, 0) + 1)
  BY DEF AddName, Count, Link, InternString, Good, IsGraph, Fields
<1>4. m.deps = before
  BY <1>1 DEF AddName, Count, Link, InternString, Good, IsGraph, Fields
<1>5. m.strings = Put(l.strings, str, At(l.strings, str, 0) + 1)
  BY <1>1 DEF AddName, Count, Link, InternString, Interned, Good, IsGraph, Fields
<1> HIDE DEF m
<1>6. /\ DOMAIN m.names = DOMAIN l.names \cup {n} /\ m.names[n] = At(l.names, n, 0) + 1
      /\ \A x \in DOMAIN l.names : x # n => m.names[x] = l.names[x]
  BY <1>3 DEF Put
<1>7. /\ DOMAIN m.strings = DOMAIN l.strings \cup {str}
      /\ m.strings[str] = At(l.strings, str, 0) + 1
      /\ \A x \in DOMAIN l.strings : x # str => m.strings[x] = l.strings[x]
  BY <1>5 DEF Put
<1>8. None \notin DOMAIN m.deps
  <2>1. None \notin DOMAIN l.deps
    BY DEF Good, Closed
  <2> HIDE DEF child, nested
  <2>2. None \notin DOMAIN Depend(l.deps, parent, child)
    BY <2>1, DependNone
  <2>3. None \notin DOMAIN Depend(Depend(l.deps, parent, child), nesting, nested)
    BY <2>2, DependNone
  <2> QED
    BY <1>4, <2>1, <2>3
<1>9. ASSUME NEW x \in DOMAIN m.names
      PROVE  m.names[x] \in Nat \ {0} /\ Known(m, ParentOf(x)) /\ Known(m, NestingOf(x))
  <2>1. At(l.names, n, 0) \in Nat
    BY DEF At, Good, Closed
  <2>2. CASE x = n
    BY <1>1, <1>6, <2>1, <2>2 DEF Known
  <2>3. CASE x # n
    BY <1>6, <2>3 DEF Known, Good, Closed
  <2> QED
    BY <2>2, <2>3
<1>10. \A x : At(l.strings, x, 0) \in Nat /\ At(l.names, x, 0) \in Nat
  BY DEF At, Good, Closed
<1>11. None \notin DOMAIN m.strings /\ \A x \in DOMAIN m.strings : m.strings[x] \in Nat
  BY <1>7, <1>10 DEF Good, Closed
<1>12. Closed(m)
  BY <1>1, <1>2, <1>6, <1>8, <1>9, <1>11 DEF Good, Closed, DefinitionFits, Known, ReceiverKnown
<1>13. ASSUME ~ m.panic PROVE DependentsExact(m)
  <2>1. ~ l.panic /\ DependentsExact(l)
    BY <1>2, <1>13 DEF Good
  <2> SUFFICES ASSUME NEW k \in DOMAIN m.names \cup DOMAIN m.deps
               PROVE  At(m.deps, k, {}) = DependentsOf(m, k)
    BY DEF DependentsExact
  <2>2. k # None
    BY <1>1, <1>6, <1>8 DEF Good, Closed
  <2>3. At(l.deps, k, {}) = DependentsOf(l, k)
    BY <2>1, <2>2, ExactEverywhere DEF Good
  <2>4. RefsNamed(m, k) = RefsNamed(l, k) /\ DefsNamed(m, k) = DefsNamed(l, k)
    BY <1>2 DEF RefsNamed, DefsNamed
  <2>5. CASE n \in DOMAIN l.names
    <3>1. DOMAIN m.names = DOMAIN l.names
      BY <1>6, <2>5
    <3>2. DependentsOf(m, k) = DependentsOf(l, k)
      BY <2>4, <3>1 DEF DependentsOf
    <3> QED
      BY <1>4, <2>3, <2>5, <3>2
  <2>6. CASE n \notin DOMAIN l.names
    <3>1. At(m.deps, k, {}) = (At(l.deps, k, {}) \cup (IF k = parent THEN {child} ELSE {}))
                                \cup (IF k = nesting THEN {nested} ELSE {})
      <4> HIDE DEF child, nested
      <4>1. At(Depend(l.deps, parent, child), k, {})
              = At(l.deps, k, {}) \cup (IF k = parent THEN {child} ELSE {})
        BY <2>2, DependAt
      <4>2. At(Depend(Depend(l.deps, parent, child), nesting, nested), k, {})
              = At(Depend(l.deps, parent, child), k, {}) \cup (IF k = nesting THEN {nested} ELSE {})
        BY <2>2, DependAt
      <4> QED
        BY <1>4, <2>6, <4>1, <4>2
    <3>2. {x \in DOMAIN m.names : ParentOf(x) = k}
            = {x \in DOMAIN l.names : ParentOf(x) = k} \cup (IF k = parent THEN {n} ELSE {})
      BY <1>1, <1>6
    <3>3. {x \in DOMAIN m.names : NestingOf(x) = k}
            = {x \in DOMAIN l.names : NestingOf(x) = k} \cup (IF k = nesting THEN {n} ELSE {})
      BY <1>1, <1>6
    <3>4. DependentsOf(m, k)
            = (DependentsOf(l, k) \cup (IF k = parent THEN {child} ELSE {}))
                \cup (IF k = nesting THEN {nested} ELSE {})
      BY <2>4, <3>2, <3>3 DEF DependentsOf
    <3> QED
      BY <2>3, <3>1, <3>4
  <2> QED
    BY <2>5, <2>6
<1>14. Larger(l, m)
  BY <1>2, <1>6, <1>12, <1>13 DEF Good, Larger
<1>15. Extends(l, m)
  BY <1>2 DEF Extends, SameDefinition
<1>16. ASSUME NEW x, x # None
       PROVE  NameBalance(l, x) + One(x = n) <= NameBalance(m, x) + One(x = None)
  <2>1. At(m.names, x, 0) = At(l.names, x, 0) + One(x = n)
    BY <1>6, <1>10 DEF At, One
  <2>2. Uses(m, x) = Uses(l, x) /\ Uses(l, x) \in Nat
    BY <1>2, UsesAreNaturals DEF Uses, DefsNamed, RefsNamed
  <2>3. One(x = n) \in Nat /\ One(x = None) = 0
    BY <1>16, CreditsAreNaturals DEF One
  <2> QED
    BY <1>10, <2>1, <2>2, <2>3 DEF NameBalance
<1>17. ASSUME NEW x
       PROVE  StringBalance(l, x) + Credit(x, n, {}) <= StringBalance(m, x) + Credit(x, None, {})
  <2>1. At(m.strings, x, 0) = At(l.strings, x, 0) + One(x = str)
    BY <1>7, <1>10 DEF At, One
  <2>2. Releases(m, x) = Releases(l, x) /\ Releases(l, x) \in Nat
    BY <1>2, ReleasesAreNaturals DEF Releases
  <2>3. Credit(x, n, {}) = One(x = str) /\ Credit(x, None, {}) = 0
    BY <1>1 DEF Credit, One
  <2>4. One(x = str) \in Nat
    BY CreditsAreNaturals
  <2> QED
    BY <1>10, <2>1, <2>2, <2>3, <2>4 DEF StringBalance
<1>18. Spare(l, m, n, {})
  BY <1>14, <1>15, <1>16, <1>17 DEF Turn, Spare
<1> QED
  BY <1>1, <1>6, <1>18 DEF m, n

\* A definition that is added and becomes a member is what was pushed or recorded.
LEMMA AddedMember ==
  ASSUME NEW l, Good(l), NEW d, DefinitionFits(l, d), ~ (DefinitionId(d)[1] < Here), NEW owner,
         NEW m, m = AddMember(AddDefinition(l, d), owner, DefinitionId(d))
  PROVE  /\ Turn(l, m, d.name, DefinitionStrings(d), None, {})
         /\ DefinitionId(d) \in DOMAIN m.defs /\ SameDefinition(d, m.defs[DefinitionId(d)])
         /\ DefinitionId(d) \in DOMAIN l.defs => m.panic
<1> DEFINE k == AddDefinition(l, d)
  id == DefinitionId(d)
<1>1. /\ Turn(l, k, d.name, DefinitionStrings(d), None, {})
      /\ id \in DOMAIN k.defs /\ k.defs[id] = d /\ (id \in DOMAIN l.defs => k.panic)
  BY AddDefinitionGrows
<1>2. m = AddMember(k, owner, id)
  OBVIOUS
<1> HIDE DEF k, id
<1>3. Good(k)
  BY <1>1 DEF Turn, Larger
<1>4. /\ Grown(k, m) /\ DOMAIN m.defs = DOMAIN k.defs /\ m.panic = k.panic
      /\ SameDefinition(k.defs[id], m.defs[id])
  BY <1>1, <1>2, <1>3, AddMemberGrows
<1>5. Turn(l, m, d.name, DefinitionStrings(d), None, {})
  <2>1. Turn(k, m, None, {}, None, {}) /\ Enough(m, None, {}, None, {})
    BY <1>4 DEF Grown, Spare, Enough
  <2> QED
    BY <1>1, <2>1, TurnAfterTurn
<1>6. id \in DOMAIN m.defs /\ SameDefinition(d, m.defs[id]) /\ (id \in DOMAIN l.defs => m.panic)
  BY <1>1, <1>4
<1> QED
  BY <1>5, <1>6 DEF id

-----------------------------------------------------------------------------
(* The state of a visitor.                                                  *)

Openable == {"scope", "owner", "method"}
Modifiers == [visibility: {"public", "private", "protected", "module_function"}, inline: BOOLEAN]

\* An entry of the nesting stack is a definition of a kind that can be there, made
\* before the offset `before`.
EntryOK(l, e, before) ==
  /\ e.id[1] \in 0..(before - 1)
  /\ CASE e.kind = "scope" -> l.defs[e.id].kind \in {"class", "module", "singleton_class"}
       [] e.kind = "owner" -> l.defs[e.id].kind \in {"class", "module"}
       [] e.kind = "method" -> l.defs[e.id].kind = "method"

StackOK(l, stack, before) ==
  /\ stack \in Seq([kind: Openable, id: DOMAIN l.defs])
  /\ \A i \in DOMAIN stack : EntryOK(l, stack[i], before)

\* Calls are what the end of a node may have left to index.
VisitorInv(Calls) ==
  /\ position \in 0..MaxNodes /\ leaves \in 0..MaxLeaves
  /\ Good(local_graph) /\ Balanced(local_graph)
  /\ StackOK(local_graph, nesting_stack, Here)
  /\ visibility_stack \in Seq(Modifiers)
  /\ frames \in Seq([nested: BOOLEAN, modifiers: Seq(Modifiers), call: Calls, begin: Nat])
  /\ Len(frames) <= MaxDepth

\* What the invariant says of the properties that the runs check.
LEMMA InvImpliesProperties ==
  ASSUME NEW Calls, VisitorInv(Calls)
  PROVE  IndexerTypeOK /\ ScopesKept /\ DependentsComplete /\ NamesCovered /\ StringsCovered
<1>1. IndexerTypeOK
  <2>1. ASSUME NEW i \in DOMAIN nesting_stack
        PROVE  /\ nesting_stack[i] \in [kind: Openable, id: DOMAIN local_graph.defs]
               /\ EntryOK(local_graph, nesting_stack[i], Here)
    <3> DEFINE S == [kind: Openable, id: DOMAIN local_graph.defs]
    <3>1. nesting_stack \in Seq(S) /\ EntryOK(local_graph, nesting_stack[i], Here)
      BY DEF VisitorInv, StackOK
    <3> HIDE DEF S
    <3>2. nesting_stack[i] \in S
      BY <3>1
    <3> QED
      BY <3>1, <3>2 DEF S
  <2>2. ASSUME NEW i \in DOMAIN visibility_stack PROVE visibility_stack[i] \in Modifiers
    BY <2>2 DEF VisitorInv
  <2>3. position \in 0..MaxNodes /\ leaves \in 0..MaxLeaves /\ Len(frames) <= MaxDepth
    BY DEF VisitorInv
  <2>4. ASSUME NEW i \in DOMAIN nesting_stack
        PROVE  /\ nesting_stack[i].id \in DOMAIN local_graph.defs
               /\ LET kind == local_graph.defs[nesting_stack[i].id].kind IN
                    CASE nesting_stack[i].kind = "scope" -> kind \in {"class", "module", "singleton_class"}
                      [] nesting_stack[i].kind = "owner" -> kind \in {"class", "module"}
                      [] nesting_stack[i].kind = "method" -> kind = "method"
    <3> DEFINE e == nesting_stack[i]
    <3>1. e.id \in DOMAIN local_graph.defs /\ e.kind \in Openable /\ EntryOK(local_graph, e, Here)
      BY <2>1, <2>4
    <3>2. e.kind \in {"scope", "owner", "method"}
      BY <3>1 DEF Openable
    <3> HIDE DEF e
    <3>3. LET kind == local_graph.defs[e.id].kind IN
            CASE e.kind = "scope" -> kind \in {"class", "module", "singleton_class"}
              [] e.kind = "owner" -> kind \in {"class", "module"}
              [] e.kind = "method" -> kind = "method"
      BY <3>1, <3>2 DEF EntryOK
    <3> QED
      BY <3>1, <3>3 DEF e
  <2> QED
    BY <2>2, <2>3, <2>4 DEF IndexerTypeOK, Modifiers
<1>2. UsedNamesCounted(local_graph) /\ ScopesOutlive(local_graph)
  BY DEF UsedNamesCounted, ScopesOutlive, VisitorInv, Good, Closed, DefinitionFits, Known
<1>3. DependentsComplete
  BY DEF VisitorInv, Good, DependentsComplete, Holds
<1>4. NamesCovered
  <2> SUFFICES ASSUME ~ local_graph.panic,
                      NEW n \in DOMAIN local_graph.names \ CountedOnce(local_graph)
               PROVE  Covered(local_graph, n)
    BY DEF NamesCovered
  <2>1. Good(local_graph) /\ n # None
    BY DEF VisitorInv, Good, Closed
  <2>2. 0 <= NameBalance(local_graph, n)
    BY <2>1 DEF VisitorInv, Balanced
  <2>3. At(local_graph.names, n, 0) \in Nat /\ Uses(local_graph, n) \in Nat
    BY <2>1, UsesAreNaturals
  <2> QED
    BY <2>2, <2>3 DEF NameBalance, Covered
<1>5. StringsCovered
  <2> SUFFICES ASSUME ~ local_graph.panic,
                      NEW str \in DOMAIN local_graph.strings \ StringsCountedOnce(local_graph)
               PROVE  StringCovered(local_graph, str)
    BY DEF StringsCovered
  <2>1. Good(local_graph) /\ str # None
    BY DEF VisitorInv, Good, Closed
  <2>2. 0 <= StringBalance(local_graph, str)
    BY <2>1 DEF VisitorInv, Balanced
  <2>3. At(local_graph.strings, str, 0) \in Nat /\ Releases(local_graph, str) \in Nat
    BY <2>1, ReleasesAreNaturals
  <2> QED
    BY <2>2, <2>3 DEF StringBalance, StringCovered
<1> QED
  BY <1>1, <1>2, <1>3, <1>4, <1>5 DEF ScopesKept, Holds

LEMMA EmptyIsGood == Good(EmptyGraph) /\ Balanced(EmptyGraph)
<1>1. EmptyGraph.defs = << >> /\ EmptyGraph.names = << >> /\ EmptyGraph.deps = << >>
      /\ EmptyGraph.refs = {} /\ EmptyGraph.panic = FALSE
      /\ EmptyGraph.strings = << >> /\ EmptyGraph.mrefs = {}
  BY DEF EmptyGraph
<1>2. DOMAIN << >> = {}
  OBVIOUS
<1>3. Closed(EmptyGraph)
  BY <1>1, <1>2, FS_EmptySet DEF Closed
<1>4. DependentsExact(EmptyGraph)
  BY <1>1, <1>2 DEF DependentsExact
<1>5. IsGraph(EmptyGraph)
  BY DEF EmptyGraph, IsGraph, Fields
<1>6. Cardinality({}) = 0
  BY FS_EmptySet
<1>7. ASSUME NEW x PROVE NameBalance(EmptyGraph, x) = 0
  <2>1. DefsNamed(EmptyGraph, x) = {} /\ RefsNamed(EmptyGraph, x) = {}
    BY <1>1, <1>2 DEF DefsNamed, RefsNamed
  <2>2. At(EmptyGraph.names, x, 0) = 0
    BY <1>1, <1>2 DEF At
  <2> QED
    BY <1>6, <2>1, <2>2 DEF NameBalance, Uses
<1>8. ASSUME NEW str PROVE StringBalance(EmptyGraph, str) = 0
  <2>1. ByString(EmptyGraph, str) = {} /\ ByName(EmptyGraph, str) = {}
        /\ ByReference(EmptyGraph, str) = {} /\ {r \in EmptyGraph.mrefs : r[1] = str} = {}
    BY <1>1, <1>2 DEF ByString, ByName, ByReference
  <2>2. At(EmptyGraph.strings, str, 0) = 0
    BY <1>1, <1>2 DEF At
  <2>3. Releases(EmptyGraph, str)
          = Cardinality(ByString(EmptyGraph, str)) + Cardinality({r \in EmptyGraph.mrefs : r[1] = str})
            + Cardinality(ByName(EmptyGraph, str)) + Cardinality(ByReference(EmptyGraph, str))
    BY DEF Releases, ByString, ByName, ByReference
  <2>4. Releases(EmptyGraph, str) = 0
    BY <1>6, <2>1, <2>3
  <2> QED
    BY <2>2, <2>4 DEF StringBalance
<1>9. Balanced(EmptyGraph)
  BY <1>7, <1>8 DEF Balanced
<1> QED
  BY <1>1, <1>3, <1>4, <1>5, <1>9 DEF Good

LEMMA StartInv ==
  ASSUME NEW Calls, NEW visibility \in {"public", "private"}, Start(visibility)
  PROVE  VisitorInv(Calls)
<1>1. StackOK(local_graph, nesting_stack, Here)
  BY DEF Start, StackOK
<1>2. visibility_stack \in Seq(Modifiers)
  BY DEF Start, Modifier, Modifiers
<1>3. position \in 0..MaxNodes /\ leaves \in 0..MaxLeaves
  BY BoundsAssumption DEF Start
<1>4. /\ frames \in Seq([nested: BOOLEAN, modifiers: Seq(Modifiers), call: Calls, begin: Nat])
      /\ Len(frames) <= MaxDepth
  BY BoundsAssumption DEF Start
<1> QED
  BY <1>1, <1>2, <1>3, <1>4, EmptyIsGood DEF Start, VisitorInv

LEMMA StutterInv ==
  ASSUME NEW Calls, VisitorInv(Calls), UNCHANGED vars
  PROVE  VisitorInv(Calls)'
BY DEF VisitorInv, vars, StackOK, EntryOK, Here

\* What is left of a sequence without its last element; of none, none.
LEMMA FrontOfSeq ==
  ASSUME NEW S, NEW s \in Seq(S)
  PROVE  /\ Front(s) \in Seq(S) /\ Len(Front(s)) <= Len(s)
         /\ \A i \in DOMAIN Front(s) : i \in DOMAIN s /\ Front(s)[i] = s[i]
<1>1. CASE s = << >>
  <2>1. Len(s) = 0
    BY <1>1
  <2>2. Front(s) = << >>
    BY <1>1, <2>1 DEF Front
  <2>3. Front(s) \in Seq(S) /\ Len(Front(s)) = 0
    BY <2>2
  <2>4. ASSUME NEW i \in DOMAIN Front(s) PROVE FALSE
    BY <2>2
  <2> QED
    BY <2>1, <2>3, <2>4
<1>2. CASE s # << >>
  <2>1. Len(s) \in Nat \ {0} /\ DOMAIN s = 1..Len(s)
    BY <1>2
  <2>2. 1 \in 1..Len(s) + 1 /\ Len(s) - 1 \in 0..Len(s)
    BY <2>1
  <2>3. /\ Front(s) \in Seq(S) /\ Len(Front(s)) = Len(s) - 1
        /\ \A i \in 1..(Len(s) - 1) : Front(s)[i] = s[i]
    BY <2>1, <2>2, SubSeqProperties DEF Front
  <2> QED
    BY <2>1, <2>3
<1> QED
  BY <1>1, <1>2

\* The stack stays as it is while the graph grows, and later offsets are larger.
LEMMA StackGrows ==
  ASSUME NEW k, NEW l, Grown(k, l), NEW stack, StackOK(k, stack, Here),
         NEW before \in Nat, Here <= before, position \in Nat
  PROVE  StackOK(l, stack, before)
<1>1. stack \in Seq([kind: Openable, id: DOMAIN l.defs])
  <2> DEFINE S == [kind: Openable, id: DOMAIN k.defs]
    T == [kind: Openable, id: DOMAIN l.defs]
  <2>1. S \subseteq T
    BY DEF Grown, Spare, Turn, Larger
  <2>2. stack \in Seq(S)
    BY DEF StackOK
  <2> HIDE DEF S, T
  <2>3. stack \in Seq(T)
    BY <2>1, <2>2
  <2> QED
    BY <2>3 DEF T
<1>2. ASSUME NEW i \in DOMAIN stack PROVE EntryOK(l, stack[i], before)
  <2> DEFINE e == stack[i]
  <2>1. EntryOK(k, e, Here) /\ e.id \in DOMAIN k.defs
    <3> DEFINE S == [kind: Openable, id: DOMAIN k.defs]
    <3>1. stack \in Seq(S) /\ EntryOK(k, e, Here)
      BY DEF StackOK
    <3> HIDE DEF S
    <3>2. stack[i] \in S
      BY <3>1
    <3> QED
      BY <3>1, <3>2 DEF S
  <2> HIDE DEF e
  <2>2. e.id[1] \in 0..(Here - 1) /\ Here \in Nat
    BY <2>1 DEF EntryOK, Here
  <2>3. l.defs[e.id].kind = k.defs[e.id].kind
    BY <2>1, <2>2 DEF Grown, Spare, Turn, Larger
  <2>4. e.id[1] \in 0..(before - 1)
    BY <2>2
  <2>5. EntryOK(l, e, before)
    BY <2>1, <2>3, <2>4 DEF EntryOK
  <2> QED
    BY <2>5 DEF e
<1> QED
  BY <1>1, <1>2 DEF StackOK

LEMMA LeafInv ==
  ASSUME NEW Calls, VisitorInv(Calls), NEW l, Grown(local_graph, l), Leaf(l)
  PROVE  VisitorInv(Calls)'
<1>1. position' \in 0..MaxNodes /\ leaves' \in 0..MaxLeaves /\ position \in Nat
  BY BoundsAssumption DEF VisitorInv, Leaf, Continues
<1>2. Here' \in Nat /\ Here <= Here'
  BY <1>1 DEF Leaf, Here
<1>3. StackOK(l, nesting_stack, Here')
  BY <1>1, <1>2, StackGrows DEF VisitorInv
<1>4. Good(l) /\ Balanced(l)
  BY GrownGood, BalancedLater DEF VisitorInv
<1> QED
  BY <1>1, <1>3, <1>4 DEF VisitorInv, Leaf

LEMMA CloseInv ==
  ASSUME NEW Calls, VisitorInv(Calls), NEW l, Grown(local_graph, l), Close(l)
  PROVE  VisitorInv(Calls)'
<1> DEFINE Frames == [nested: BOOLEAN, modifiers: Seq(Modifiers), call: Calls, begin: Nat]
<1>1. position \in Nat /\ Here \in Nat /\ Here' = Here
  BY BoundsAssumption DEF VisitorInv, Close, Here
<1>2. StackOK(l, nesting_stack, Here)
  BY <1>1, StackGrows DEF VisitorInv
<1>3. StackOK(l, Front(nesting_stack), Here)
  <2> DEFINE S == [kind: Openable, id: DOMAIN l.defs]
  <2>1. nesting_stack \in Seq(S)
    BY <1>2 DEF StackOK
  <2> HIDE DEF S
  <2>2. Front(nesting_stack) \in Seq(S)
    BY <2>1, FrontOfSeq
  <2>3. \A i \in DOMAIN Front(nesting_stack) :
          i \in DOMAIN nesting_stack /\ Front(nesting_stack)[i] = nesting_stack[i]
    BY <2>1, FrontOfSeq
  <2> QED
    BY <1>2, <2>2, <2>3 DEF StackOK, S
<1>4. visibility_stack' \in Seq(Modifiers)
  BY FrontOfSeq DEF VisitorInv, Close
<1>5. frames' \in Seq(Frames) /\ Len(frames') <= MaxDepth
  <2>1. frames \in Seq(Frames) /\ Len(frames) <= MaxDepth /\ MaxDepth \in Nat
    BY BoundsAssumption DEF VisitorInv
  <2> HIDE DEF Frames
  <2>2. Front(frames) \in Seq(Frames) /\ Len(Front(frames)) <= Len(frames)
    BY <2>1, FrontOfSeq
  <2> QED
    BY <2>1, <2>2 DEF Close
<1>6. Good(l) /\ Balanced(l)
  BY GrownGood, BalancedLater DEF VisitorInv
<1> QED
  BY <1>1, <1>2, <1>3, <1>4, <1>5, <1>6 DEF VisitorInv, Close

LEMMA FlagInv ==
  ASSUME NEW Calls, VisitorInv(Calls),
         NEW visibility \in {"public", "private", "module_function"}, Flag(visibility)
  PROVE  VisitorInv(Calls)'
<1>1. position' \in 0..MaxNodes /\ position \in Nat
  BY BoundsAssumption DEF VisitorInv, Flag, Continues
<1>2. Here' \in Nat /\ Here <= Here'
  BY <1>1 DEF Flag, Here
<1>3. StackOK(local_graph, nesting_stack, Here')
  BY <1>1, <1>2, StackGrows, GrownReflexive DEF VisitorInv
<1>4. visibility_stack' \in Seq(Modifiers)
  <2>1. Front(visibility_stack) \in Seq(Modifiers)
    BY FrontOfSeq DEF VisitorInv
  <2>2. Modifier(visibility, FALSE) \in Seq(Modifiers)
    BY DEF Modifier, Modifiers
  <2>3. Front(visibility_stack) \o Modifier(visibility, FALSE) \in Seq(Modifiers)
    BY <2>1, <2>2, ConcatProperties
  <2> QED
    BY <2>3 DEF Flag
<1> QED
  BY <1>1, <1>3, <1>4 DEF VisitorInv, Flag

\* What is pushed was made by the node that is opened.
LEMMA EnterInv ==
  ASSUME NEW Calls, VisitorInv(Calls), NEW l, Grown(local_graph, l),
         NEW nesting, StackOK(l, nesting, Here + 100), NEW modifiers \in Seq(Modifiers),
         NEW call \in Calls, Enter(l, nesting, modifiers, call)
  PROVE  VisitorInv(Calls)'
<1> DEFINE Frames == [nested: BOOLEAN, modifiers: Seq(Modifiers), call: Calls, begin: Nat]
<1>1. position' \in 0..MaxNodes /\ position \in Nat
  BY BoundsAssumption DEF VisitorInv, Enter, Continues
<1>2. Here' = Here + 100 /\ Here \in Nat
  BY <1>1 DEF Enter, Here
<1>3. StackOK(l, nesting_stack, Here')
  BY <1>1, <1>2, StackGrows DEF VisitorInv
<1>4. StackOK(l, nesting_stack \o nesting, Here')
  <2> DEFINE S == [kind: Openable, id: DOMAIN l.defs]
  <2>1. nesting_stack \in Seq(S) /\ nesting \in Seq(S)
    BY <1>3 DEF StackOK
  <2> HIDE DEF S
  <2>2. nesting_stack \o nesting \in Seq(S)
    BY <2>1
  <2>3. ASSUME NEW i \in DOMAIN (nesting_stack \o nesting)
        PROVE  EntryOK(l, (nesting_stack \o nesting)[i], Here')
    <3>1. CASE i \in DOMAIN nesting_stack
      BY <1>3, <2>1, <3>1 DEF StackOK
    <3>2. CASE i \notin DOMAIN nesting_stack
      <4>1. i - Len(nesting_stack) \in DOMAIN nesting
            /\ (nesting_stack \o nesting)[i] = nesting[i - Len(nesting_stack)]
        BY <2>1, <3>2
      <4> QED
        BY <1>2, <4>1 DEF StackOK
    <3> QED
      BY <3>1, <3>2
  <2> QED
    BY <2>2, <2>3 DEF StackOK, S
<1>5. visibility_stack' \in Seq(Modifiers)
  BY DEF VisitorInv, Enter
<1>6. frames' \in Seq(Frames) /\ Len(frames') <= MaxDepth
  <2> DEFINE frame == [nested |-> nesting # << >>, modifiers |-> modifiers, call |-> call,
                       begin |-> position]
  <2>1. frames \in Seq(Frames) /\ MaxDepth \in Nat /\ Len(frames) < MaxDepth
        /\ frames' = Append(frames, frame)
    BY BoundsAssumption DEF VisitorInv, Enter
  <2>2. frame \in Frames
    BY <1>1
  <2> HIDE DEF Frames, frame
  <2> QED
    BY <2>1, <2>2
<1>7. Good(l) /\ Balanced(l)
  BY GrownGood, BalancedLater DEF VisitorInv
<1> QED
  BY <1>1, <1>4, <1>5, <1>6, <1>7 DEF VisitorInv, Enter

\* The entry that a definition just made pushes.
LEMMA BodyOK ==
  ASSUME NEW l, NEW kind \in Openable, NEW id \in DOMAIN l.defs, position \in Nat, id[1] = Here,
         kind = "scope" => l.defs[id].kind \in {"class", "module", "singleton_class"},
         kind = "owner" => l.defs[id].kind \in {"class", "module"},
         kind = "method" => l.defs[id].kind = "method"
  PROVE  StackOK(l, Body(kind, id), Here + 100)
<1> DEFINE e == [kind |-> kind, id |-> id]
<1>1. e.id[1] \in 0..(Here + 100 - 1)
  BY DEF Here
<1>2. EntryOK(l, e, Here + 100)
  <2>1. e.kind = kind /\ e.id = id
    OBVIOUS
  <2>2. kind \in {"scope", "owner", "method"}
    BY DEF Openable
  <2> HIDE DEF e
  <2>3. CASE kind = "scope"
    BY <1>1, <2>1, <2>3 DEF EntryOK
  <2>4. CASE kind = "owner"
    BY <1>1, <2>1, <2>4 DEF EntryOK
  <2>5. CASE kind = "method"
    BY <1>1, <2>1, <2>5 DEF EntryOK
  <2> QED
    BY <2>2, <2>3, <2>4, <2>5
<1>3. <<e>> \in Seq([kind: Openable, id: DOMAIN l.defs])
  OBVIOUS
<1> HIDE DEF e
<1>4. StackOK(l, <<e>>, Here + 100)
  BY <1>2, <1>3 DEF StackOK
<1> QED
  BY <1>4 DEF e, Body

LEMMA NoBodyOK == ASSUME NEW l PROVE StackOK(l, << >>, Here + 100)
BY DEF StackOK

\* What the innermost entry of the nesting stack is.
LEMMA EntryKnown ==
  ASSUME NEW Calls, VisitorInv(Calls), NEW i \in DOMAIN nesting_stack
  PROVE  /\ nesting_stack[i].id \in DOMAIN local_graph.defs
         /\ Known(local_graph, local_graph.defs[nesting_stack[i].id].name)
<1> DEFINE S == [kind: Openable, id: DOMAIN local_graph.defs]
<1>1. nesting_stack \in Seq(S)
  BY DEF VisitorInv, StackOK
<1> HIDE DEF S
<1>2. nesting_stack[i] \in S
  BY <1>1
<1>3. nesting_stack[i].id \in DOMAIN local_graph.defs
  BY <1>2 DEF S
<1> QED
  BY <1>3 DEF VisitorInv, Good, Closed, DefinitionFits

LEMMA LastIndex ==
  ASSUME NEW Calls, VisitorInv(Calls), nesting_stack # << >>
  PROVE  Len(nesting_stack) \in DOMAIN nesting_stack
<1> DEFINE S == [kind: Openable, id: DOMAIN local_graph.defs]
<1>1. nesting_stack \in Seq(S)
  BY DEF VisitorInv, StackOK
<1> HIDE DEF S
<1> QED
  BY <1>1

\* A finite set of numbers that is not empty has a largest one.
LEMMA Largest ==
  ASSUME NEW n \in Nat, NEW T, T \subseteq 1..n, T # {}
  PROVE  \E k \in T : \A j \in T : j <= k
<1> DEFINE U == {m \in Nat : \A j \in T : j <= m}
  R == {ss \in Nat \X Nat : ss[1] < ss[2]}
<1>1. R = OpToRel(<, Nat)
  BY DEF OpToRel
<1>2. IsWellFoundedOn(R, Nat)
  BY <1>1, NatLessThanWellFounded, Zenon
<1>3. n \in U /\ U \subseteq Nat
  OBVIOUS
<1> HIDE DEF R
<1>4. PICK m \in U : \A k \in U : ~ (<<k, m>> \in R)
  BY <1>2, <1>3, WFMin
<1>5. m \in Nat /\ (\A j \in T : j <= m) /\ m # 0
  <2>1. m \in Nat /\ \A j \in T : j <= m
    BY <1>3
  <2>2. PICK j : j \in T
    OBVIOUS
  <2>3. j \in Nat \ {0} /\ j <= m
    BY <2>1, <2>2
  <2> QED
    BY <2>1, <2>3
<1>6. ASSUME m \notin T PROVE FALSE
  <2>1. m - 1 \in U
    <3>1. ASSUME NEW j \in T PROVE j <= m - 1
      BY <1>5, <1>6
    <3> QED
      BY <1>5, <3>1
  <2>2. <<m - 1, m>> \in R
    BY <1>5 DEF R
  <2> QED
    BY <1>4, <2>1, <2>2
<1> QED
  BY <1>5, <1>6

LEMMA PositionNat == ASSUME NEW Calls, VisitorInv(Calls) PROVE position \in Nat /\ Here \in Nat
BY BoundsAssumption DEF VisitorInv, Here

-----------------------------------------------------------------------------
(* Paths are indexed segment by segment.                                    *)

\* Induction up to n: a set with 0 and, with each number below n, the next.
LEMMA UpTo ==
  ASSUME NEW n \in Nat, NEW S, 0 \in S, \A i \in 0..(n-1) : i \in S => i + 1 \in S
  PROVE  0..n \subseteq S
<1> DEFINE T == {i \in 0..n : i \notin S}
  R == {ss \in Nat \X Nat : ss[1] < ss[2]}
<1>1. R = OpToRel(<, Nat)
  BY DEF OpToRel
<1>2. IsWellFoundedOn(R, Nat)
  BY <1>1, NatLessThanWellFounded, Zenon
<1> SUFFICES ASSUME T # {} PROVE FALSE
  OBVIOUS
<1>3. T \subseteq Nat
  OBVIOUS
<1> HIDE DEF R
<1>4. PICK m \in T : \A k \in T : ~ (<<k, m>> \in R)
  BY <1>2, <1>3, WFMin
<1>5. m # 0 /\ m - 1 \in 0..(n-1)
  OBVIOUS
<1>6. m - 1 \notin T
  <2>1. ASSUME m - 1 \in T PROVE FALSE
    <3>1. <<m - 1, m>> \in R
      BY <1>3, <1>5 DEF R
    <3> QED
      BY <1>4, <2>1, <3>1
  <2> QED
    BY <2>1
<1> QED
  BY <1>5, <1>6

=============================================================================
