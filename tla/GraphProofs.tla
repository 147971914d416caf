----------------------------- MODULE GraphProofs -----------------------------
(***************************************************************************)
(* Proofs about Graph, for every code base and every sequence of document  *)
(* changes, invalidations and runs of a resolver that keeps to its         *)
(* contract: the counts and the reverse index of names are what the        *)
(* documents add up to.                                                    *)
(***************************************************************************)
EXTENDS Graph, FiniteSetTheorems, TLAPS

-----------------------------------------------------------------------------
(* Sorting a finite set *)

LEMMA SmallerSet ==
  ASSUME NEW B, IsFiniteSet(B), NEW A, A \subseteq B
  PROVE  /\ IsFiniteSet(A)
         /\ Cardinality(A) \in Nat /\ Cardinality(B) \in Nat
         /\ Cardinality(A) <= Cardinality(B)
         /\ A # B => Cardinality(A) < Cardinality(B)
<1>1. /\ IsFiniteSet(A) /\ Cardinality(A) <= Cardinality(B)
      /\ Cardinality(B) = Cardinality(A) => A = B
  BY FS_Subset
<1>2. Cardinality(A) \in Nat /\ Cardinality(B) \in Nat
  BY <1>1, FS_CardinalityType
<1> QED
  BY <1>1, <1>2

\* How many elements have a smaller key.
Lower(S, key, x) == {y \in S : key[y] < key[x]}
Rank(S, key, x) == Cardinality(Lower(S, key, x))

\* Elements with different keys have the ranks from 0, each one of them.
LEMMA RankOnto ==
  ASSUME NEW S, IsFiniteSet(S), NEW key \in [S -> Nat],
         \A x, y \in S : key[x] = key[y] => x = y,
         NEW i \in 1..Cardinality(S)
  PROVE  \E x \in S : Rank(S, key, x) = i - 1
<1> DEFINE n == Cardinality(S)
           f == [x \in S |-> Rank(S, key, x) + 1]
<1>1. n \in Nat
  BY FS_CardinalityType
<1>2. ASSUME NEW x \in S
      PROVE  Rank(S, key, x) \in 0..(n - 1)
  <2>1. Lower(S, key, x) \subseteq S /\ x \notin Lower(S, key, x)
    BY DEF Lower
  <2>2. /\ Cardinality(Lower(S, key, x)) \in Nat
        /\ Cardinality(Lower(S, key, x)) < n
    BY <2>1, SmallerSet
  <2> QED
    BY <1>1, <2>2 DEF Rank
<1>3. ASSUME NEW x \in S, NEW y \in S, key[x] < key[y]
      PROVE  Rank(S, key, x) < Rank(S, key, y)
  <2>1. /\ Lower(S, key, x) \subseteq Lower(S, key, y)
        /\ x \in Lower(S, key, y) /\ x \notin Lower(S, key, x)
    BY <1>3 DEF Lower
  <2>2. IsFiniteSet(Lower(S, key, y))
    BY FS_Subset DEF Lower
  <2> QED
    BY <2>1, <2>2, SmallerSet DEF Rank
<1>4. f \in [S -> 1..n]
  <2> SUFFICES ASSUME NEW x \in S PROVE Rank(S, key, x) + 1 \in 1..n
    OBVIOUS
  <2> QED
    BY <1>1, <1>2
<1>5. ASSUME NEW x \in S, NEW y \in S, f[x] = f[y]
      PROVE  x = y
  <2>1. Rank(S, key, x) = Rank(S, key, y)
    BY <1>1, <1>2, <1>5
  <2>2. ~(key[x] < key[y]) /\ ~(key[y] < key[x])
    BY <1>1, <1>2, <1>3, <2>1
  <2> QED
    BY <2>2
<1>6. f \in Injection(S, 1..n)
  BY <1>4, <1>5 DEF Injection, IsInjective
<1>7. IsFiniteSet(1..n) /\ Cardinality(1..n) = n
  BY <1>1, FS_Interval
<1>8. f \in Surjection(S, 1..n)
  BY <1>6, <1>7, FS_Injection
<1>9. PICK x \in S : f[x] = i
  BY <1>8 DEF Surjection
<1> QED
  BY <1>1, <1>2, <1>9

\* Uses of one name in one file, in the order of their offsets: each once.
LEMMA OrderByOffset ==
  ASSUME NEW S, IsFiniteSet(S), NEW u, NEW n, S \subseteq {u} \X Nat \X {n}
  PROVE  /\ Cardinality(S) \in Nat
         /\ InOrder(S, ByOffset) \in [1..Cardinality(S) -> S]
         /\ IsInjective(InOrder(S, ByOffset))
<1> DEFINE key == [x \in S |-> OffsetOf(x)]
           rank(x) == Cardinality({y \in S : ByOffset(y, x)})
           s == InOrder(S, ByOffset)
<1>1. Cardinality(S) \in Nat
  BY FS_CardinalityType
<1>2. key \in [S -> Nat]
  BY DEF OffsetOf
<1>3. \A x, y \in S : key[x] = key[y] => x = y
  BY DEF OffsetOf
<1>4. ASSUME NEW x \in S
      PROVE  rank(x) = Rank(S, key, x)
  <2>1. {y \in S : ByOffset(y, x)} = Lower(S, key, x)
    BY DEF ByOffset, Lower
  <2> QED
    BY <2>1 DEF Rank
<1>5. s = [i \in 1..Cardinality(S) |-> CHOOSE x \in S : rank(x) = i - 1]
  BY DEF InOrder
<1> HIDE DEF s, rank, key
<1>6. ASSUME NEW i \in 1..Cardinality(S)
      PROVE  s[i] \in S /\ rank(s[i]) = i - 1
  <2>1. \E x \in S : Rank(S, key, x) = i - 1
    BY <1>2, <1>3, RankOnto
  <2>2. \E x \in S : rank(x) = i - 1
    BY <1>4, <2>1
  <2>3. s[i] = CHOOSE x \in S : rank(x) = i - 1
    BY <1>5
  <2> QED
    BY <2>2, <2>3
<1>7. s \in [1..Cardinality(S) -> S]
  BY <1>5, <1>6
<1>8. IsInjective(s)
  BY <1>1, <1>6, <1>7 DEF IsInjective
<1> QED
  BY <1>1, <1>7, <1>8 DEF s

\* Positions in increasing order: each once, and all of them.
LEMMA OrderOfPositions ==
  ASSUME NEW S, IsFiniteSet(S), S \subseteq Nat
  PROVE  /\ Cardinality(S) \in Nat
         /\ InOrder(S, <) \in [1..Cardinality(S) -> S]
         /\ IsInjective(InOrder(S, <))
         /\ ToSet(InOrder(S, <)) = S
<1> DEFINE key == [x \in S |-> x]
           rank(x) == Cardinality({y \in S : y < x})
           s == InOrder(S, <)
<1>1. Cardinality(S) \in Nat
  BY FS_CardinalityType
<1>2. key \in [S -> Nat]
  OBVIOUS
<1>3. \A x, y \in S : key[x] = key[y] => x = y
  OBVIOUS
<1>4. ASSUME NEW x \in S
      PROVE  rank(x) = Rank(S, key, x)
  <2>1. {y \in S : y < x} = Lower(S, key, x)
    BY DEF Lower
  <2> QED
    BY <2>1 DEF Rank
<1>5. s = [i \in 1..Cardinality(S) |-> CHOOSE x \in S : rank(x) = i - 1]
  BY DEF InOrder
<1> HIDE DEF s, rank, key
<1>6. ASSUME NEW i \in 1..Cardinality(S)
      PROVE  s[i] \in S /\ rank(s[i]) = i - 1
  <2>1. \E x \in S : Rank(S, key, x) = i - 1
    BY <1>2, <1>3, RankOnto
  <2>2. \E x \in S : rank(x) = i - 1
    BY <1>4, <2>1
  <2>3. s[i] = CHOOSE x \in S : rank(x) = i - 1
    BY <1>5
  <2> QED
    BY <2>2, <2>3
<1>7. s \in [1..Cardinality(S) -> S]
  BY <1>5, <1>6
<1>8. IsInjective(s)
  BY <1>1, <1>6, <1>7 DEF IsInjective
<1>9. s \in Injection(1..Cardinality(S), S)
  BY <1>7, <1>8 DEF Injection
<1>10. IsFiniteSet(1..Cardinality(S)) /\ Cardinality(1..Cardinality(S)) = Cardinality(S)
  BY <1>1, FS_Interval
<1>11. s \in Surjection(1..Cardinality(S), S)
  BY <1>9, <1>10, FS_Injection
<1>12. ToSet(s) = S
  BY <1>7, <1>11 DEF Surjection, ToSet
<1> QED
  BY <1>1, <1>7, <1>8, <1>12 DEF s

-----------------------------------------------------------------------------
(* The sequences of the reverse index *)

\* What an entry of name_dependents is about.
UseIds == Nat \X Nat \X DOMAIN Names
Entries == {"ref", "def"} \X UseIds

LEMMA TwoSequences ==
  ASSUME NEW E, NEW s \in Seq(E), NEW t \in Seq(E)
  PROVE  /\ s \o t \in Seq(E)
         /\ ToSet(s \o t) = ToSet(s) \cup ToSet(t)
         /\ IsInjective(s) /\ IsInjective(t) /\ ToSet(s) \cap ToSet(t) = {}
              => IsInjective(s \o t)
<1>1. /\ s \o t \in Seq(E) /\ Len(s \o t) = Len(s) + Len(t)
      /\ Len(s) \in Nat /\ Len(t) \in Nat
      /\ DOMAIN s = 1..Len(s) /\ DOMAIN t = 1..Len(t) /\ DOMAIN (s \o t) = 1..(Len(s) + Len(t))
  OBVIOUS
<1>2. \A i \in 1..Len(s) : (s \o t)[i] = s[i]
  OBVIOUS
<1>3. \A i \in (Len(s) + 1)..(Len(s) + Len(t)) : (s \o t)[i] = t[i - Len(s)]
  OBVIOUS
<1> DEFINE st == s \o t
<1> HIDE DEF st
<1>4. ASSUME NEW i \in DOMAIN st
      PROVE  \/ i \in DOMAIN s /\ st[i] = s[i]
             \/ i - Len(s) \in DOMAIN t /\ st[i] = t[i - Len(s)]
  <2>1. i \in 1..(Len(s) + Len(t))
    BY <1>1 DEF st
  <2>2. CASE i <= Len(s)
    BY <1>1, <1>2, <2>1, <2>2 DEF st
  <2>3. CASE ~(i <= Len(s))
    <3>1. i \in (Len(s) + 1)..(Len(s) + Len(t)) /\ i - Len(s) \in 1..Len(t)
      BY <1>1, <2>1, <2>3
    <3> QED
      BY <1>1, <1>3, <3>1 DEF st
  <2> QED
    BY <2>2, <2>3
<1>5. /\ \A i \in DOMAIN s : i \in DOMAIN st /\ st[i] = s[i]
      /\ \A i \in DOMAIN t : Len(s) + i \in DOMAIN st /\ st[Len(s) + i] = t[i]
  BY <1>1, <1>2, <1>3 DEF st
<1>6. ToSet(st) = ToSet(s) \cup ToSet(t)
  BY <1>4, <1>5 DEF ToSet
<1>7. ASSUME IsInjective(s), IsInjective(t), ToSet(s) \cap ToSet(t) = {}
      PROVE  IsInjective(st)
  <2>1. SUFFICES ASSUME NEW i \in DOMAIN st, NEW j \in DOMAIN st, st[i] = st[j]
                 PROVE  i = j
    BY DEF IsInjective
  <2>2. \A k \in DOMAIN s : s[k] \in ToSet(s)
    BY DEF ToSet
  <2>3. \A k \in DOMAIN t : t[k] \in ToSet(t)
    BY DEF ToSet
  <2>4. i \in Nat /\ j \in Nat
    BY <1>1 DEF st
  <2> QED
    BY <1>1, <1>4, <1>7, <2>1, <2>2, <2>3, <2>4 DEF IsInjective
<1> QED
  BY <1>1, <1>6, <1>7 DEF st

\* Dropping the entries about some uses keeps the others.
LEMMA UsersKept ==
  ASSUME NEW us \in Seq(Entries), IsInjective(us), NEW gone
  PROVE  /\ UsersWithout(us, gone) \in Seq(Entries)
         /\ IsInjective(UsersWithout(us, gone))
         /\ ToSet(UsersWithout(us, gone)) = {e \in ToSet(us) : e[2] \notin gone}
<1> DEFINE S == {i \in DOMAIN us : us[i][2] \notin gone}
           kept == InOrder(S, <)
           w == [k \in DOMAIN kept |-> us[kept[k]]]
<1>1. DOMAIN us = 1..Len(us) /\ Len(us) \in Nat
  OBVIOUS
<1>2. IsFiniteSet(S) /\ S \subseteq Nat
  <2>1. S \subseteq 1..Len(us)
    BY <1>1
  <2>2. IsFiniteSet(1..Len(us))
    BY <1>1, FS_Interval
  <2> QED
    BY <2>1, <2>2, FS_Subset
<1> HIDE DEF S
<1>3. /\ Cardinality(S) \in Nat /\ kept \in [1..Cardinality(S) -> S]
      /\ IsInjective(kept) /\ ToSet(kept) = S
  BY <1>2, OrderOfPositions
<1> HIDE DEF kept
<1>4. \A k \in 1..Cardinality(S) : kept[k] \in DOMAIN us /\ us[kept[k]][2] \notin gone
  BY <1>3 DEF S
<1>5. w \in Seq(Entries)
  <2>1. w \in [1..Cardinality(S) -> Entries]
    BY <1>3, <1>4
  <2> QED
    BY <1>3, <2>1
<1>6. IsInjective(w)
  BY <1>3, <1>4 DEF IsInjective
<1>7. ASSUME NEW e \in ToSet(us), e[2] \notin gone
      PROVE  e \in ToSet(w)
  <2>1. PICK i \in DOMAIN us : us[i] = e
    BY <1>7 DEF ToSet
  <2>2. i \in S
    BY <1>7, <2>1 DEF S
  <2>3. PICK k \in DOMAIN kept : kept[k] = i
    BY <1>3, <2>2 DEF ToSet
  <2> QED
    BY <2>1, <2>3 DEF ToSet
<1>8. \A e \in ToSet(w) : e \in ToSet(us) /\ e[2] \notin gone
  BY <1>3, <1>4 DEF ToSet
<1>9. UsersWithout(us, gone) = w
  BY DEF UsersWithout, kept, S
<1> QED
  BY <1>5, <1>6, <1>7, <1>8, <1>9

LEMMA UsesFinite ==
  ASSUME NEW l, NEW u, Identified(l, u)
  PROVE  /\ IsFiniteSet(Uses(l))
         /\ Uses(l) \subseteq {u} \X Nat \X DOMAIN Names
<1>1. IsFiniteSet(Named(DOMAIN l.defs)) /\ IsFiniteSet(l.refs)
  BY FS_Subset DEF Identified, Named
<1>2. IsFiniteSet(Uses(l))
  BY <1>1, FS_Union DEF Uses
<1>3. Named(DOMAIN l.defs) \subseteq {u} \X Nat \X DOMAIN Names
  BY DEF Identified, Named, NameOf
<1> QED
  BY <1>2, <1>3 DEF Uses, Identified

\* The entries a file adds for a name: one per use of the name in the file.
LEMMA UsersOfFile ==
  ASSUME NEW l, NEW u \in Nat, Identified(l, u), NEW n \in DOMAIN Names
  PROVE  /\ Users(l, n) \in Seq(Entries)
         /\ IsInjective(Users(l, n))
         /\ \A e \in ToSet(Users(l, n)) : e[2] \in UsesOf(Uses(l), n)
<1> DEFINE S == UsesOf(Uses(l), n)
           uses == InOrder(S, ByOffset)
           tagged(x) == IF x \in l.refs THEN <<"ref", x>> ELSE <<"def", x>>
           w == [i \in DOMAIN uses |-> tagged(uses[i])]
<1>1. IsFiniteSet(S) /\ S \subseteq {u} \X Nat \X {n} /\ S \subseteq Uses(l)
  <2>1. S \subseteq Uses(l)
    BY DEF UsesOf
  <2>2. IsFiniteSet(S)
    BY <2>1, UsesFinite, FS_Subset
  <2>3. S \subseteq {u} \X Nat \X {n}
    BY UsesFinite DEF UsesOf, NameOf
  <2> QED
    BY <2>1, <2>2, <2>3
<1> HIDE DEF S
<1>2. /\ Cardinality(S) \in Nat /\ uses \in [1..Cardinality(S) -> S] /\ IsInjective(uses)
  BY <1>1, OrderByOffset
<1> HIDE DEF uses
<1>3. \A x \in S : /\ tagged(x) \in Entries
                   /\ tagged(x)[2] = x
  BY <1>1 DEF Entries, UseIds
<1> HIDE DEF tagged
<1>4. w \in [1..Cardinality(S) -> Entries]
  BY <1>2, <1>3
<1>5. w \in Seq(Entries)
  BY <1>2, <1>4
<1>6. IsInjective(w)
  BY <1>2, <1>3 DEF IsInjective
<1>7. \A e \in ToSet(w) : e[2] \in S
  BY <1>2, <1>3 DEF ToSet
<1>8. Users(l, n) = w
  BY DEF Users, uses, tagged, S
<1> QED
  BY <1>5, <1>6, <1>7, <1>8 DEF S

-----------------------------------------------------------------------------
(* Adding and removing a document *)

\* What the index of a graph is made of.
IndexTyped(g) ==
  /\ IndexFields \subseteq DOMAIN g
  /\ g.count \in [DOMAIN Names -> Nat]
  /\ g.users \in [DOMAIN Names -> Seq(Entries)]
  /\ DOMAIN g.edges = DOMAIN Names

\* Documents at other URIs than u, each with a closed local graph of its own.
OtherDocs(docs, u, files) ==
  /\ IsFiniteSet(DOMAIN docs) /\ DOMAIN docs \subseteq Nat \ {u}
  /\ \A v \in DOMAIN docs : docs[v] \in files /\ Identified(docs[v], v) /\ Closed(docs[v])

With(docs, u, l) == [v \in DOMAIN docs \cup {u} |-> IF v = u THEN l ELSE docs[v]]

LEMMA FilesDisjoint ==
  ASSUME NEW u, NEW l, Identified(l, u),
         NEW docs, NEW files, OtherDocs(docs, u, files), NEW v \in DOMAIN docs
  PROVE  /\ Uses(l) \cap Uses(docs[v]) = {}
         /\ DOMAIN l.defs \cap DOMAIN docs[v].defs = {}
         /\ l.refs \cap docs[v].refs = {}
<1>1. v # u /\ Identified(docs[v], v)
  BY DEF OtherDocs
<1>2. /\ Uses(l) \subseteq {u} \X Nat \X DOMAIN Names
      /\ Uses(docs[v]) \subseteq {v} \X Nat \X DOMAIN Names
  BY <1>1, UsesFinite
<1>3. Uses(l) \cap Uses(docs[v]) = {}
  BY <1>1, <1>2
<1>4. DOMAIN l.defs \cap DOMAIN docs[v].defs = {} /\ l.refs \cap docs[v].refs = {}
  BY <1>1 DEF Identified
<1> QED
  BY <1>3, <1>4

\* A file has k copies of a name that it counts k times.
LEMMA CopiesOfFile ==
  ASSUME NEW l, NEW u, Identified(l, u), NEW n
  PROVE  /\ RefCount(l, n) \in Nat
         /\ n \in DOMAIN l.count <=> RefCount(l, n) # 0
         /\ IsFiniteSet({u} \X (1..RefCount(l, n)))
         /\ Cardinality({u} \X (1..RefCount(l, n))) = RefCount(l, n)
<1>1. RefCount(l, n) \in Nat /\ (n \in DOMAIN l.count <=> RefCount(l, n) # 0)
  BY DEF Identified, RefCount
<1> DEFINE k == RefCount(l, n)
<1> HIDE DEF k
<1>2. IsFiniteSet(1..k) /\ Cardinality(1..k) = k
  BY <1>1, FS_Interval DEF k
<1>3. IsFiniteSet({u}) /\ Cardinality({u}) = 1
  BY FS_Singleton
<1>4. IsFiniteSet({u} \X (1..k)) /\ Cardinality({u} \X (1..k)) = 1 * k
  BY <1>2, <1>3, FS_Product
<1> QED
  BY <1>1, <1>4 DEF k

\* The copies of a name with one more file are as many more as it counts.
LEMMA CopiesAddUp ==
  ASSUME NEW u, NEW docs, NEW files, OtherDocs(docs, u, files),
         NEW l, Identified(l, u), NEW n
  PROVE  /\ Cardinality(Copies(docs, n)) \in Nat
         /\ RefCount(l, n) \in Nat
         /\ Cardinality(Copies(With(docs, u, l), n))
              = Cardinality(Copies(docs, n)) + RefCount(l, n)
         /\ Cardinality(Copies(docs, n)) = 0
              <=> \A v \in DOMAIN docs : n \notin DOMAIN docs[v].count
<1> DEFINE of(v) == {v} \X (1..RefCount(docs[v], n))
           T == {of(v) : v \in DOMAIN docs}
           A == Copies(docs, n)
           B == {u} \X (1..RefCount(l, n))
<1>1. \A v \in DOMAIN docs : Identified(docs[v], v)
  BY DEF OtherDocs
<1>2. IsFiniteSet(T)
  <2> DEFINE f == [v \in DOMAIN docs |-> of(v)]
  <2>1. f \in Surjection(DOMAIN docs, T)
    BY DEF Surjection
  <2> QED
    BY <2>1, FS_Surjection DEF OtherDocs
<1>3. \A v \in DOMAIN docs : IsFiniteSet(of(v))
  BY <1>1, CopiesOfFile
<1>4. A = UNION T
  BY DEF Copies
<1>5. IsFiniteSet(A)
  <2> HIDE DEF of
  <2>1. \A U \in T : IsFiniteSet(U)
    BY <1>3
  <2> QED
    BY <1>2, <1>4, <2>1, FS_UNION
<1>6. /\ IsFiniteSet(B) /\ Cardinality(B) = RefCount(l, n) /\ RefCount(l, n) \in Nat
  BY CopiesOfFile
<1>7. A \cap B = {}
  BY DEF Copies, OtherDocs
<1>8. Copies(With(docs, u, l), n) = A \cup B
  <2>1. u \notin DOMAIN docs
    BY DEF OtherDocs
  <2>2. /\ DOMAIN With(docs, u, l) = DOMAIN docs \cup {u}
        /\ With(docs, u, l)[u] = l
        /\ \A v \in DOMAIN docs : With(docs, u, l)[v] = docs[v]
    BY <2>1 DEF With
  <2> QED
    BY <2>2 DEF Copies
<1>9. A = {} <=> \A v \in DOMAIN docs : n \notin DOMAIN docs[v].count
  <2>1. ASSUME NEW v \in DOMAIN docs
        PROVE  of(v) = {} <=> n \notin DOMAIN docs[v].count
    <3>1. RefCount(docs[v], n) \in Nat /\ (n \in DOMAIN docs[v].count <=> RefCount(docs[v], n) # 0)
      BY <1>1, CopiesOfFile
    <3> DEFINE k == RefCount(docs[v], n)
    <3>2. 1..k = {} <=> k = 0
      <4>1. k \in Nat
        BY <3>1
      <4> HIDE DEF k
      <4>2. k # 0 => 1 \in 1..k
        BY <4>1
      <4> QED
        BY <4>1, <4>2
    <3>3. of(v) = {} <=> 1..k = {}
      <4>1. ASSUME NEW S
            PROVE  {v} \X S = {} <=> S = {}
        <5>1. \A x \in S : <<v, x>> \in {v} \X S
          OBVIOUS
        <5>2. S = {} => {v} \X S = {}
          OBVIOUS
        <5> QED
          BY <5>1, <5>2
      <4>2. of(v) = {v} \X (1..k)
        OBVIOUS
      <4> HIDE DEF of, k
      <4> QED
        BY <4>1, <4>2
    <3> QED
      BY <3>1, <3>2, <3>3
  <2> HIDE DEF of
  <2> QED
    BY <1>4, <2>1
<1>10. Cardinality(A) \in Nat /\ (Cardinality(A) = 0 <=> A = {})
  BY <1>5, FS_CardinalityType, FS_EmptySet
<1>11. Cardinality(A \cup B) = Cardinality(A) + Cardinality(B) - Cardinality(A \cap B)
  BY <1>5, <1>6, FS_Union
<1>12. Cardinality(A \cap B) = 0
  BY <1>7, FS_EmptySet
<1> HIDE DEF A, B
<1>13. Cardinality(A \cup B) = Cardinality(A) + RefCount(l, n)
  BY <1>6, <1>10, <1>11, <1>12
<1> QED
  BY <1>6, <1>8, <1>9, <1>10, <1>13 DEF A

\* One more document: its users, edges, definitions and references as well.
LEMMA PartsAddUp ==
  ASSUME NEW docs, NEW u, u \notin DOMAIN docs, NEW l
  PROVE  /\ \A n : /\ UsersIn(With(docs, u, l), n) = UsersIn(docs, n) \cup ToSet(Users(l, n))
                   /\ EdgesIn(With(docs, u, l), n) = EdgesIn(docs, n) \cup Edges(l, n)
         /\ DefsIn(With(docs, u, l)) = DefsIn(docs) \cup DOMAIN l.defs
         /\ RefsIn(With(docs, u, l)) = RefsIn(docs) \cup l.refs
<1> DEFINE w == With(docs, u, l)
<1>1. /\ DOMAIN w = DOMAIN docs \cup {u}
      /\ w[u] = l
      /\ \A v \in DOMAIN docs : w[v] = docs[v]
  BY DEF With
<1> HIDE DEF w
<1>2. ASSUME NEW n
      PROVE  UsersIn(w, n) = UsersIn(docs, n) \cup ToSet(Users(l, n))
  BY <1>1 DEF UsersIn
<1>3. ASSUME NEW n
      PROVE  EdgesIn(w, n) = EdgesIn(docs, n) \cup Edges(l, n)
  BY <1>1 DEF EdgesIn
<1>4. DefsIn(w) = DefsIn(docs) \cup DOMAIN l.defs
  BY <1>1 DEF DefsIn
<1>5. RefsIn(w) = RefsIn(docs) \cup l.refs
  BY <1>1 DEF RefsIn
<1> QED
  BY <1>2, <1>3, <1>4, <1>5 DEF w

\* The users of a name in other documents are about other uses.
LEMMA UsersApart ==
  ASSUME NEW u \in Nat, NEW l, Identified(l, u),
         NEW docs, NEW files, OtherDocs(docs, u, files), NEW n \in DOMAIN Names
  PROVE  /\ \A e \in ToSet(Users(l, n)) : e[2] \in Uses(l)
         /\ \A e \in UsersIn(docs, n) : e[2] \notin Uses(l)
<1>1. \A e \in ToSet(Users(l, n)) : e[2] \in Uses(l)
  BY UsersOfFile DEF UsesOf
<1>2. ASSUME NEW e \in UsersIn(docs, n)
      PROVE  e[2] \notin Uses(l)
  <2>1. PICK v \in DOMAIN docs : e \in ToSet(Users(docs[v], n))
    BY DEF UsersIn
  <2>2. v \in Nat /\ Identified(docs[v], v)
    BY DEF OtherDocs
  <2>3. e[2] \in Uses(docs[v])
    BY <2>1, <2>2, UsersOfFile DEF UsesOf
  <2> QED
    BY <2>3, FilesDisjoint
<1> QED
  BY <1>1, <1>2

\* Graph::extend: the index then matches the documents and the new one.
LEMMA ExtendIndex ==
  ASSUME NEW u \in Nat, NEW docs, NEW files, OtherDocs(docs, u, files),
         NEW l, Identified(l, u),
         NEW g, IndexTyped(g), IndexMatches(g, docs, files)
  PROVE  /\ IndexTyped(Extend(g, u, l))
         /\ IndexMatches(Extend(g, u, l), With(docs, u, l), files)
<1> DEFINE h == Extend(g, u, l)
           w == With(docs, u, l)
<1>1. /\ DOMAIN h = DOMAIN g
      /\ h.count = Counted(g, l)
      /\ h.users = [n \in DOMAIN g.users |-> g.users[n] \o Users(l, n)]
      /\ h.edges = [n \in DOMAIN g.edges |-> g.edges[n] \cup Edges(l, n)]
      /\ DOMAIN h.defs = DOMAIN g.defs \cup DOMAIN l.defs
      /\ h.refs = g.refs \cup l.refs
  BY DEF Extend, IndexTyped, IndexFields
<1>2. u \notin DOMAIN docs
  BY DEF OtherDocs
<1> HIDE DEF h, w
<1>3. ASSUME NEW n \in DOMAIN Names
      PROVE  /\ h.count[n] \in Nat
             /\ Exact(files, n) => h.count[n] = Cardinality(Copies(w, n))
             /\ Covered(files, n) => h.count[n] >= Cardinality(Copies(w, n))
  <2>1. /\ Exact(files, n) => g.count[n] = Cardinality(Copies(docs, n))
        /\ Covered(files, n) => g.count[n] >= Cardinality(Copies(docs, n))
    BY DEF IndexMatches
  <2>2. h.count[n] = g.count[n] + RefCount(l, n) /\ g.count[n] \in Nat
    BY <1>1 DEF IndexTyped, Counted
  <2>3. /\ Cardinality(Copies(docs, n)) \in Nat /\ RefCount(l, n) \in Nat
        /\ Cardinality(Copies(w, n)) = Cardinality(Copies(docs, n)) + RefCount(l, n)
    BY CopiesAddUp DEF w
  <2> QED
    BY <2>1, <2>2, <2>3
<1>4. ASSUME NEW n \in DOMAIN Names
      PROVE  /\ h.users[n] \in Seq(Entries)
             /\ IsInjective(h.users[n])
             /\ ToSet(h.users[n]) \subseteq UsersIn(w, n)
             /\ Covered(files, n) => UsersIn(w, n) \subseteq ToSet(h.users[n])
  <2>1. /\ g.users[n] \in Seq(Entries) /\ IsInjective(g.users[n])
        /\ ToSet(g.users[n]) \subseteq UsersIn(docs, n)
        /\ Covered(files, n) => UsersIn(docs, n) \subseteq ToSet(g.users[n])
    BY DEF IndexTyped, IndexMatches
  <2>2. Users(l, n) \in Seq(Entries) /\ IsInjective(Users(l, n))
    BY UsersOfFile
  <2>3. ToSet(g.users[n]) \cap ToSet(Users(l, n)) = {}
    BY <2>1, UsersApart
  <2>4. h.users[n] = g.users[n] \o Users(l, n)
    BY <1>1 DEF IndexTyped
  <2>5. /\ h.users[n] \in Seq(Entries) /\ IsInjective(h.users[n])
        /\ ToSet(h.users[n]) = ToSet(g.users[n]) \cup ToSet(Users(l, n))
    BY <2>1, <2>2, <2>3, <2>4, TwoSequences
  <2>6. UsersIn(w, n) = UsersIn(docs, n) \cup ToSet(Users(l, n))
    BY <1>2, PartsAddUp DEF w
  <2> QED
    BY <2>1, <2>5, <2>6
<1>5. ASSUME NEW n \in DOMAIN Names
      PROVE  /\ {e \in h.edges[n] : Exact(files, e[2])} \subseteq EdgesIn(w, n)
             /\ Covered(files, n) =>
                  {e \in EdgesIn(w, n) : Covered(files, e[2])} \subseteq h.edges[n]
  <2>1. /\ {e \in g.edges[n] : Exact(files, e[2])} \subseteq EdgesIn(docs, n)
        /\ Covered(files, n) =>
             {e \in EdgesIn(docs, n) : Covered(files, e[2])} \subseteq g.edges[n]
    BY DEF IndexMatches
  <2>2. h.edges[n] = g.edges[n] \cup Edges(l, n)
    BY <1>1 DEF IndexTyped
  <2>3. EdgesIn(w, n) = EdgesIn(docs, n) \cup Edges(l, n)
    BY <1>2, PartsAddUp DEF w
  <2> QED
    BY <2>1, <2>2, <2>3
<1>6. DOMAIN h.defs = DefsIn(w) /\ h.refs = RefsIn(w)
  <2>1. DOMAIN g.defs = DefsIn(docs) /\ g.refs = RefsIn(docs)
    BY DEF IndexMatches
  <2>2. DefsIn(w) = DefsIn(docs) \cup DOMAIN l.defs /\ RefsIn(w) = RefsIn(docs) \cup l.refs
    BY <1>2, PartsAddUp DEF w
  <2> QED
    BY <1>1, <2>1, <2>2
<1>7. IndexTyped(h)
  <2>1. DOMAIN h.count = DOMAIN Names /\ DOMAIN h.users = DOMAIN Names /\ DOMAIN h.edges = DOMAIN Names
    BY <1>1 DEF IndexTyped, Counted
  <2>2. h.count \in [DOMAIN Names -> Nat]
    BY <1>1, <1>3, <2>1 DEF Counted
  <2>3. h.users \in [DOMAIN Names -> Seq(Entries)]
    BY <1>1, <1>4, <2>1
  <2> QED
    BY <1>1, <2>1, <2>2, <2>3 DEF IndexTyped
<1>8. IndexMatches(h, w, files)
  BY <1>3, <1>4, <1>5, <1>6 DEF IndexMatches
<1> QED
  BY <1>7, <1>8 DEF h, w

\* An edge of a closed file joins two names of the file.
LEMMA EdgesOfFile ==
  ASSUME NEW k, Closed(k), NEW n \in DOMAIN Names, NEW x \in Edges(k, n)
  PROVE  /\ n \in DOMAIN k.count
         /\ x[2] \in DOMAIN k.count
         /\ \/ x = <<"child", x[2]>> /\ Parent(x[2]) = n
            \/ x = <<"nested", x[2]>> /\ Nesting(x[2]) = n
<1>1. PICK m \in DOMAIN k.count : \/ x = <<"child", m>> /\ Parent(m) = n
                                  \/ x = <<"nested", m>> /\ Nesting(m) = n
  BY DEF Edges
<1>2. {Parent(m), Nesting(m)} \subseteq DOMAIN k.count \cup {NoName}
  BY DEF Closed
<1>3. n # NoName
  BY NamesAssumption
<1> QED
  BY <1>1, <1>2, <1>3

\* No document: nothing used, nothing counted, nothing contributed.
LEMMA NothingInNoFile ==
  /\ \A v : Identified(NoFile, v)
  /\ Closed(NoFile)
  /\ \A n : /\ UsesOf(Uses(NoFile), n) = {} /\ RefCount(NoFile, n) = 0
            /\ ToSet(Users(NoFile, n)) = {} /\ Edges(NoFile, n) = {}
  /\ DOMAIN NoFile.defs = {} /\ NoFile.refs = {}
<1>1. DOMAIN NoFile.defs = {} /\ NoFile.refs = {} /\ DOMAIN NoFile.count = {}
  BY DEF NoFile
<1>2. Range(NoFile.defs) = {}
  BY <1>1 DEF Range
<1>3. Uses(NoFile) = {}
  BY <1>1 DEF Uses, Named
<1>4. LocalNames(NoFile) = {}
  BY <1>3 DEF LocalNames
<1>5. NoFile.count \in [DOMAIN NoFile.count -> Nat \ {0}]
  BY DEF NoFile
<1>6. \A v : Identified(NoFile, v)
  BY <1>1, <1>5, FS_EmptySet DEF Identified
<1>7. Closed(NoFile)
  BY <1>1, <1>2, <1>4 DEF Closed
<1>8. ASSUME NEW n
      PROVE  /\ UsesOf(Uses(NoFile), n) = {} /\ RefCount(NoFile, n) = 0
             /\ ToSet(Users(NoFile, n)) = {} /\ Edges(NoFile, n) = {}
  <2> DEFINE S == UsesOf(Uses(NoFile), n)
             uses == InOrder(S, ByOffset)
  <2>1. S = {} /\ Edges(NoFile, n) = {} /\ RefCount(NoFile, n) = 0
    BY <1>1, <1>3 DEF UsesOf, Edges, RefCount
  <2>2. Cardinality(S) = 0
    BY <2>1, FS_EmptySet
  <2>3. DOMAIN uses = {}
    BY <2>2 DEF InOrder
  <2>4. DOMAIN Users(NoFile, n) = {}
    BY <2>3 DEF Users
  <2> QED
    BY <2>1, <2>4 DEF ToSet
<1> QED
  BY <1>1, <1>6, <1>7, <1>8

\* The names that go with file l, and those that stay.
LEMMA NamesLeft ==
  ASSUME NEW u \in Nat, NEW docs, NEW files, OtherDocs(docs, u, files),
         NEW l \in files \cup {NoFile}, Identified(l, u), Closed(l),
         NEW g, IndexTyped(g), IndexMatches(g, With(docs, u, l), files),
         NEW n \in DOMAIN Names
  PROVE  /\ CountLeft(g, l)[n] \in Nat
         /\ Covered(files, n) => /\ CountLeft(g, l)[n] >= Cardinality(Copies(docs, n))
                                 /\ CountLeft(g, l)[n] = 0 =>
                                      \A v \in DOMAIN docs : n \notin DOMAIN docs[v].count
         /\ Exact(files, n) =>
              /\ CountLeft(g, l)[n] = Cardinality(Copies(docs, n))
              /\ n \in DOMAIN l.count => n \in LocalNames(l)
              /\ CountLeft(g, l)[n] # 0 => \E v \in DOMAIN docs : n \in DOMAIN docs[v].count
<1> DEFINE mine == Cardinality(UsesOf(Uses(l), n))
           counted == RefCount(l, n)
           others == Cardinality(Copies(docs, n))
           left == CountLeft(g, l)[n]
<1>1. /\ Exact(files, n) => g.count[n] = Cardinality(Copies(With(docs, u, l), n))
      /\ Covered(files, n) => g.count[n] >= Cardinality(Copies(With(docs, u, l), n))
  BY DEF IndexMatches
<1>2. /\ others \in Nat /\ counted \in Nat
      /\ Cardinality(Copies(With(docs, u, l), n)) = others + counted
      /\ others = 0 <=> \A v \in DOMAIN docs : n \notin DOMAIN docs[v].count
  BY CopiesAddUp
<1>3. /\ mine \in Nat
      /\ mine = 0 <=> UsesOf(Uses(l), n) = {}
  <2>1. IsFiniteSet(UsesOf(Uses(l), n))
    BY UsesFinite, FS_Subset DEF UsesOf
  <2> QED
    BY <2>1, FS_CardinalityType, FS_EmptySet
<1>4. /\ Covered(files, n) => mine <= counted
      /\ Exact(files, n) => mine = counted
  <2>1. CASE l \in files
    BY <2>1 DEF Covered, Exact
  <2>2. CASE l \notin files
    <3>1. UsesOf(Uses(l), n) = {} /\ counted = 0
      BY <2>2, NothingInNoFile
    <3> QED
      BY <1>3, <3>1
  <2> QED
    BY <2>1, <2>2
<1>5. g.count[n] \in Nat /\ left = IF g.count[n] > mine THEN g.count[n] - mine ELSE 0
  BY DEF IndexTyped, CountLeft
<1>6. n \in DOMAIN l.count => counted # 0
  BY CopiesOfFile
<1>7. mine # 0 => n \in LocalNames(l)
  BY <1>3 DEF LocalNames, UsesOf
<1> HIDE DEF mine, counted, others, left
<1>8. left \in Nat
  BY <1>3, <1>5
<1>9. Covered(files, n) => left >= others
  BY <1>1, <1>2, <1>3, <1>4, <1>5
<1>10. Exact(files, n) => left = others
  BY <1>1, <1>2, <1>3, <1>4, <1>5
<1>11. Covered(files, n) /\ left = 0 => others = 0
  BY <1>2, <1>8, <1>9
<1>12. Exact(files, n) /\ n \in DOMAIN l.count => n \in LocalNames(l)
  BY <1>4, <1>6, <1>7
<1> QED
  BY <1>2, <1>8, <1>9, <1>10, <1>11, <1>12 DEF others, left

\* Graph::remove_document_data: the index then matches the other documents.
LEMMA RemoveIndex ==
  ASSUME NEW u \in Nat, NEW docs, NEW files, OtherDocs(docs, u, files),
         NEW l \in files \cup {NoFile}, Identified(l, u), Closed(l),
         NEW g, IndexTyped(g), IndexMatches(g, With(docs, u, l), files)
  PROVE  /\ IndexTyped(RemoveDocumentData(g, l))
         /\ IndexMatches(RemoveDocumentData(g, l), docs, files)
<1> DEFINE w == With(docs, u, l)
           left == CountLeft(g, l)
           dead == {n \in LocalNames(l) : left[n] = 0}
           h == RemoveDocumentData(g, l)
<1>1. /\ DOMAIN h = DOMAIN g
      /\ h.count = left
      /\ h.users = [n \in DOMAIN g.users |->
                      IF n \in dead THEN <<>> ELSE UsersWithout(g.users[n], Uses(l))]
      /\ h.edges = EdgesWithout(g, dead)
      /\ h.defs = Restrict(g.defs, DOMAIN g.defs \ DOMAIN l.defs)
      /\ h.refs = g.refs \ l.refs
  BY DEF RemoveDocumentData, IndexTyped, IndexFields
<1>2. u \notin DOMAIN docs
  BY DEF OtherDocs
<1>3. DOMAIN left = DOMAIN Names
  BY DEF IndexTyped, CountLeft
<1>4. ASSUME NEW n \in DOMAIN Names
      PROVE  /\ left[n] \in Nat
             /\ Covered(files, n) => left[n] >= Cardinality(Copies(docs, n))
             /\ Exact(files, n) => left[n] = Cardinality(Copies(docs, n))
  BY NamesLeft
<1>5. ASSUME NEW n \in dead, n \in DOMAIN Names, Covered(files, n)
      PROVE  \A v \in DOMAIN docs : n \notin DOMAIN docs[v].count
  BY <1>5, NamesLeft
<1>6. ASSUME NEW n \in DOMAIN l.count, n \notin dead, n \in DOMAIN Names, Exact(files, n)
      PROVE  \E v \in DOMAIN docs : n \in DOMAIN docs[v].count
  <2>1. n \in LocalNames(l)
    BY <1>6, NamesLeft
  <2>2. left[n] # 0
    BY <1>6, <2>1
  <2> QED
    BY <1>6, <2>2, NamesLeft
<1> HIDE DEF h, left, dead, w
<1>7. ASSUME NEW n \in DOMAIN Names
      PROVE  /\ h.users[n] \in Seq(Entries)
             /\ IsInjective(h.users[n])
             /\ ToSet(h.users[n]) \subseteq UsersIn(docs, n)
             /\ Covered(files, n) => UsersIn(docs, n) \subseteq ToSet(h.users[n])
  <2>1. /\ g.users[n] \in Seq(Entries) /\ IsInjective(g.users[n])
        /\ ToSet(g.users[n]) \subseteq UsersIn(w, n)
        /\ Covered(files, n) => UsersIn(w, n) \subseteq ToSet(g.users[n])
    BY DEF IndexTyped, IndexMatches, w
  <2>2. UsersIn(w, n) = UsersIn(docs, n) \cup ToSet(Users(l, n))
    BY <1>2, PartsAddUp DEF w
  <2>3. CASE n \in dead
    <3>1. h.users[n] = <<>>
      BY <1>1, <2>3 DEF IndexTyped
    <3>2. h.users[n] \in Seq(Entries) /\ IsInjective(h.users[n]) /\ ToSet(h.users[n]) = {}
      BY <3>1 DEF IsInjective, ToSet
    <3>3. ASSUME Covered(files, n), NEW e \in UsersIn(docs, n)
          PROVE  FALSE
      <4>1. PICK v \in DOMAIN docs : e \in ToSet(Users(docs[v], n))
        BY <3>3 DEF UsersIn
      <4>2. v \in Nat /\ Identified(docs[v], v) /\ Closed(docs[v])
        BY DEF OtherDocs
      <4>3. e[2] \in UsesOf(Uses(docs[v]), n)
        BY <4>1, <4>2, UsersOfFile
      <4>4. n \in DOMAIN docs[v].count
        BY <4>2, <4>3 DEF UsesOf, LocalNames, Closed
      <4> QED
        BY <1>5, <2>3, <3>3, <4>4
    <3> QED
      BY <3>2, <3>3
  <2>4. CASE n \notin dead
    <3>1. h.users[n] = UsersWithout(g.users[n], Uses(l))
      BY <1>1, <2>4 DEF IndexTyped
    <3>2. /\ h.users[n] \in Seq(Entries) /\ IsInjective(h.users[n])
          /\ ToSet(h.users[n]) = {e \in ToSet(g.users[n]) : e[2] \notin Uses(l)}
      BY <2>1, <3>1, UsersKept
    <3>3. /\ \A e \in ToSet(Users(l, n)) : e[2] \in Uses(l)
          /\ \A e \in UsersIn(docs, n) : e[2] \notin Uses(l)
      BY UsersApart
    <3> QED
      BY <2>1, <2>2, <3>2, <3>3
  <2> QED
    BY <2>3, <2>4
<1>8. ASSUME NEW n \in DOMAIN Names
      PROVE  /\ {e \in h.edges[n] : Exact(files, e[2])} \subseteq EdgesIn(docs, n)
             /\ Covered(files, n) =>
                  {e \in EdgesIn(docs, n) : Covered(files, e[2])} \subseteq h.edges[n]
  <2>1. /\ {e \in g.edges[n] : Exact(files, e[2])} \subseteq EdgesIn(w, n)
        /\ Covered(files, n) =>
             {e \in EdgesIn(w, n) : Covered(files, e[2])} \subseteq g.edges[n]
    BY DEF IndexMatches, w
  <2>2. EdgesIn(w, n) = EdgesIn(docs, n) \cup Edges(l, n)
    BY <1>2, PartsAddUp DEF w
  <2>3. h.edges[n] = IF n \in dead THEN {}
                     ELSE g.edges[n] \ {<<edge, m>> : edge \in {"child", "nested"}, m \in dead}
    BY <1>1 DEF EdgesWithout, IndexTyped
  <2>4. ASSUME NEW x \in h.edges[n], Exact(files, x[2])
        PROVE  x \in EdgesIn(docs, n)
    <3>1. x \in EdgesIn(w, n)
      BY <2>1, <2>3, <2>4
    <3>2. CASE x \in Edges(l, n)
      <4>1. /\ x[2] \in DOMAIN l.count
            /\ \/ x = <<"child", x[2]>> /\ Parent(x[2]) = n
               \/ x = <<"nested", x[2]>> /\ Nesting(x[2]) = n
        BY <3>2, EdgesOfFile
      <4>2. x[2] \notin dead
        BY <2>3, <4>1
      <4>3. x[2] \in DOMAIN Names
        BY <4>1 DEF Identified
      <4>4. PICK v \in DOMAIN docs : x[2] \in DOMAIN docs[v].count
        BY <1>6, <2>4, <4>1, <4>2, <4>3
      <4>5. x \in Edges(docs[v], n)
        BY <4>1, <4>4 DEF Edges
      <4> QED
        BY <4>5 DEF EdgesIn
    <3> QED
      BY <2>2, <3>1, <3>2
  <2>5. ASSUME Covered(files, n), NEW x \in EdgesIn(docs, n), Covered(files, x[2])
        PROVE  x \in h.edges[n]
    <3>1. PICK v \in DOMAIN docs : x \in Edges(docs[v], n)
      BY DEF EdgesIn
    <3>2. Closed(docs[v]) /\ Identified(docs[v], v)
      BY DEF OtherDocs
    <3>3. n \in DOMAIN docs[v].count /\ x[2] \in DOMAIN docs[v].count
      BY <3>1, <3>2, EdgesOfFile
    <3>4. x[2] \in DOMAIN Names
      BY <3>2, <3>3 DEF Identified
    <3>5. n \notin dead /\ x[2] \notin dead
      BY <1>5, <2>5, <3>3, <3>4
    <3>6. x \notin {<<edge, m>> : edge \in {"child", "nested"}, m \in dead}
      BY <3>5
    <3>7. x \in g.edges[n]
      BY <2>1, <2>2, <2>5
    <3> QED
      BY <2>3, <3>5, <3>6, <3>7
  <2> QED
    BY <2>4, <2>5
<1>9. \A v \in DOMAIN docs : DOMAIN l.defs \cap DOMAIN docs[v].defs = {} /\ l.refs \cap docs[v].refs = {}
  BY FilesDisjoint
<1>10. DOMAIN g.defs = DefsIn(docs) \cup DOMAIN l.defs /\ g.refs = RefsIn(docs) \cup l.refs
  <2>1. DOMAIN g.defs = DefsIn(w) /\ g.refs = RefsIn(w)
    BY DEF IndexMatches, w
  <2>2. DefsIn(w) = DefsIn(docs) \cup DOMAIN l.defs /\ RefsIn(w) = RefsIn(docs) \cup l.refs
    BY <1>2, PartsAddUp DEF w
  <2> QED
    BY <2>1, <2>2
<1>11. DOMAIN h.defs = DefsIn(docs)
  <2>1. DOMAIN h.defs = DOMAIN g.defs \ DOMAIN l.defs
    BY <1>1 DEF Restrict
  <2> QED
    BY <1>9, <1>10, <2>1 DEF DefsIn
<1>12. h.refs = RefsIn(docs)
  BY <1>1, <1>9, <1>10 DEF RefsIn
<1>13. IndexTyped(h)
  <2>1. DOMAIN h.users = DOMAIN Names /\ DOMAIN h.edges = DOMAIN Names
    BY <1>1 DEF IndexTyped, EdgesWithout
  <2>2. h.count \in [DOMAIN Names -> Nat]
    <3>1. left = [n \in DOMAIN Names |-> left[n]]
      BY <1>3 DEF left, CountLeft
    <3> QED
      BY <1>1, <1>4, <3>1
  <2>3. h.users \in [DOMAIN Names -> Seq(Entries)]
    BY <1>1, <1>7, <2>1
  <2> QED
    BY <1>1, <2>1, <2>2, <2>3 DEF IndexTyped
<1>14. IndexMatches(h, docs, files)
  BY <1>1, <1>4, <1>7, <1>8, <1>11, <1>12 DEF IndexMatches
<1> QED
  BY <1>13, <1>14 DEF h

-----------------------------------------------------------------------------
(* The invariant *)

\* Each document holds what its file indexed to.
DocumentsTyped ==
  /\ graph.docs = [u \in DOMAIN graph.docs |-> graph.docs[u]]
  /\ DOMAIN graph.docs \subseteq DOMAIN Files \cup {BuiltInUri}
  /\ \A u \in DOMAIN graph.docs :
       graph.docs[u] \in IF u = BuiltInUri THEN {BuiltIn} ELSE Files[u]

\* A document that changes has left the graph, its data has not.
ChangeTyped ==
  change = Quiet
  \/ /\ change.uri \in DOMAIN Files \ DOMAIN graph.docs
     /\ {change.old, change.new} \subseteq Files[change.uri] \cup {NoFile}

\* The documents with data in the graph: also the one that is being replaced.
Sources == With(graph.docs, change.uri, change.old)

GraphInv ==
  /\ codeBase \in DOMAIN CodeBases
  /\ DocumentsTyped
  /\ ChangeTyped
  /\ IndexTyped(graph)
  /\ IndexMatches(graph, Sources, AllFiles)

LEMMA NoFileAddsNothing ==
  ASSUME NEW g, NEW docs, NEW files, NEW u, u \notin DOMAIN docs
  PROVE  IndexMatches(g, With(docs, u, NoFile), files) <=> IndexMatches(g, docs, files)
<1> DEFINE w == With(docs, u, NoFile)
<1>1. ASSUME NEW n
      PROVE  UsersIn(w, n) = UsersIn(docs, n) /\ EdgesIn(w, n) = EdgesIn(docs, n)
  <2>1. /\ UsersIn(w, n) = UsersIn(docs, n) \cup ToSet(Users(NoFile, n))
        /\ EdgesIn(w, n) = EdgesIn(docs, n) \cup Edges(NoFile, n)
    BY PartsAddUp
  <2>2. ToSet(Users(NoFile, n)) = {} /\ Edges(NoFile, n) = {}
    BY NothingInNoFile
  <2> QED
    BY <2>1, <2>2
<1>2. DefsIn(w) = DefsIn(docs) /\ RefsIn(w) = RefsIn(docs)
  <2>1. DefsIn(w) = DefsIn(docs) \cup DOMAIN NoFile.defs /\ RefsIn(w) = RefsIn(docs) \cup NoFile.refs
    BY PartsAddUp
  <2>2. DOMAIN NoFile.defs = {} /\ NoFile.refs = {}
    BY NothingInNoFile
  <2> QED
    BY <2>1, <2>2
<1>3. ASSUME NEW n
      PROVE  Copies(w, n) = Copies(docs, n)
  <2>1. /\ DOMAIN w = DOMAIN docs \cup {u}
        /\ w[u] = NoFile
        /\ \A v \in DOMAIN docs : w[v] = docs[v]
    BY DEF With
  <2>2. {u} \X (1..RefCount(NoFile, n)) = {}
    BY NothingInNoFile
  <2> HIDE DEF w
  <2> QED
    BY <2>1, <2>2 DEF Copies
<1> HIDE DEF w
<1>4. IndexMatches(g, w, files) <=> IndexMatches(g, docs, files)
  BY <1>1, <1>2, <1>3 DEF IndexMatches
<1> QED
  BY <1>4 DEF w

LEMMA FileFacts ==
  ASSUME codeBase \in DOMAIN CodeBases
  PROVE  /\ DOMAIN Files \subseteq 1..(BuiltInUri - 1)
         /\ \A u \in DOMAIN Files : \A l \in Files[u] \cup {NoFile} :
              /\ l \in AllFiles \cup {NoFile}
              /\ Identified(l, u) /\ Closed(l)
         /\ Identified(BuiltIn, BuiltInUri) /\ Closed(BuiltIn) /\ BuiltIn \in AllFiles
<1>1. Files \in Range(CodeBases)
  BY DEF Files, Range
<1>2. ASSUME NEW u \in DOMAIN Files, NEW l \in Files[u]
      PROVE  l \in AllFiles /\ Identified(l, u) /\ Closed(l)
  <2>1. l \in UNION Range(Files)
    BY DEF Range
  <2>2. l \in LocalGraphs
    BY <1>1, <2>1 DEF LocalGraphs
  <2> QED
    BY <1>1, <2>1, <2>2, FilesAssumption DEF AllFiles
<1>3. BuiltIn \in LocalGraphs /\ BuiltIn \in AllFiles
  BY DEF LocalGraphs, AllFiles
<1> QED
  BY <1>1, <1>2, <1>3, FilesAssumption, NothingInNoFile

\* The other documents, when u is none of them.
LEMMA OtherDocuments ==
  ASSUME codeBase \in DOMAIN CodeBases, DocumentsTyped, NEW u, u \notin DOMAIN graph.docs
  PROVE  OtherDocs(graph.docs, u, AllFiles)
<1>1. DOMAIN graph.docs \subseteq 1..BuiltInUri
  BY FileFacts DEF DocumentsTyped, BuiltInUri
<1>2. IsFiniteSet(DOMAIN graph.docs)
  <2>1. 1 \in Int /\ BuiltInUri \in Int
    BY DEF BuiltInUri
  <2>2. IsFiniteSet(1..BuiltInUri)
    BY <2>1, FS_Interval
  <2> QED
    BY <1>1, <2>2, FS_Subset
<1>3. ASSUME NEW v \in DOMAIN graph.docs
      PROVE  graph.docs[v] \in AllFiles /\ Identified(graph.docs[v], v) /\ Closed(graph.docs[v])
  <2>1. CASE v = BuiltInUri
    BY <2>1, FileFacts DEF DocumentsTyped
  <2>2. CASE v # BuiltInUri
    <3>1. v \in DOMAIN Files /\ graph.docs[v] \in Files[v]
      BY <2>2 DEF DocumentsTyped
    <3>2. graph.docs[v] \in AllFiles
      BY <3>1 DEF AllFiles, Range
    <3> QED
      BY <3>1, <3>2, FileFacts
  <2> QED
    BY <2>1, <2>2
<1> QED
  BY <1>1, <1>2, <1>3 DEF OtherDocs, BuiltInUri

-----------------------------------------------------------------------------
(* What the invalidation does not touch *)

SameIndex(h, g) == DOMAIN h = DOMAIN g /\ \A f \in IndexFields : h[f] = g[f]

LEMMA IndexFrame ==
  ASSUME NEW g, NEW h, SameIndex(h, g), NEW docs, NEW files
  PROVE  /\ h.docs = g.docs
         /\ IndexTyped(g) => IndexTyped(h)
         /\ IndexMatches(g, docs, files) => IndexMatches(h, docs, files)
<1>1. /\ h.docs = g.docs /\ h.count = g.count /\ h.defs = g.defs /\ h.refs = g.refs
      /\ h.users = g.users /\ h.edges = g.edges /\ DOMAIN h = DOMAIN g
  BY DEF SameIndex, IndexFields
<1> QED
  BY <1>1 DEF IndexTyped, IndexMatches

LEMMA SameIndexChain ==
  ASSUME NEW g, NEW h, NEW i, SameIndex(h, g), SameIndex(i, h)
  PROVE  SameIndex(i, g)
BY DEF SameIndex

\* New declarations, resolutions and work leave the index alone.
LEMMA UpdatesKeepIndex ==
  ASSUME NEW g, NEW x
  PROVE  /\ SameIndex([g EXCEPT !.decls = x], g)
         /\ SameIndex([g EXCEPT !.resolved = x], g)
         /\ SameIndex([g EXCEPT !.pending = x], g)
BY DEF SameIndex, IndexFields

LEMMA RemovalKeepsIndex ==
  ASSUME NEW g, NEW d, NEW seeds
  PROVE  SameIndex(RemoveDeclaration(g, d, seeds), g)
BY DEF RemoveDeclaration, UnresolveNames, SameIndex, IndexFields

LEMMA UpdateKeepsIndex ==
  ASSUME NEW g, NEW d
  PROVE  SameIndex(UpdateDeclaration(g, d), g)
<1> DEFINE h == LeaveAncestors(g, d)
<1>1. SameIndex(h, g)
  BY DEF LeaveAncestors, SameIndex, IndexFields
<1> HIDE DEF h
<1>2. UpdateDeclaration(g, d)
        = [h EXCEPT !.decls[d].ancestors = Unlinearized,
                    !.decls[d].descendants = {},
                    !.pending = @ \cup {<<"anc", d>>}]
  BY DEF UpdateDeclaration, h
<1>3. SameIndex(UpdateDeclaration(g, d), h)
  BY <1>2 DEF SameIndex, IndexFields
<1> QED
  BY <1>1, <1>3, SameIndexChain

LEMMA UnresolvingKeepsIndex ==
  ASSUME NEW g, NEW n
  PROVE  /\ SameIndex(UnresolveDependentName(g, n), g)
         /\ SameIndex(UnresolveDependentReferences(g, n), g)
<1>1. SameIndex(UnresolveDependentName(g, n), g)
  BY DEF UnresolveDependentName, UnresolveNames, SameIndex, IndexFields
<1>2. SameIndex(UnresolveDependentReferences(g, n), g)
  BY DEF UnresolveDependentReferences, UnresolveNames, SameIndex, IndexFields
<1> QED
  BY <1>1, <1>2

-----------------------------------------------------------------------------
(* Every step keeps the invariant *)

NoDocuments == [v \in {} |-> NoFile]

LEMMA EmptyIndex ==
  ASSUME NEW files
  PROVE  IndexTyped(EmptyGraph) /\ IndexMatches(EmptyGraph, NoDocuments, files)
<1>1. IndexTyped(EmptyGraph)
  BY DEF IndexTyped, IndexFields, EmptyGraph
<1>2. ASSUME NEW n \in DOMAIN Names
      PROVE  /\ EmptyGraph.count[n] = 0 /\ EmptyGraph.users[n] = <<>> /\ EmptyGraph.edges[n] = {}
  BY DEF EmptyGraph
<1>3. DOMAIN EmptyGraph.defs = {} /\ EmptyGraph.refs = {}
  BY DEF EmptyGraph
<1>4. IsInjective(<<>>) /\ ToSet(<<>>) = {} /\ Cardinality({}) = 0
  BY FS_EmptySet DEF IsInjective, ToSet
<1>5. /\ \A n : Copies(NoDocuments, n) = {} /\ UsersIn(NoDocuments, n) = {} /\ EdgesIn(NoDocuments, n) = {}
      /\ DefsIn(NoDocuments) = {} /\ RefsIn(NoDocuments) = {}
  BY DEF NoDocuments, Copies, UsersIn, EdgesIn, DefsIn, RefsIn
<1>6. ASSUME NEW n \in DOMAIN Names
      PROVE  /\ IsInjective(EmptyGraph.users[n])
             /\ ToSet(EmptyGraph.users[n]) \subseteq UsersIn(NoDocuments, n)
             /\ EmptyGraph.count[n] = Cardinality(Copies(NoDocuments, n))
             /\ EmptyGraph.count[n] >= Cardinality(Copies(NoDocuments, n))
  <2>1. Cardinality(Copies(NoDocuments, n)) = 0
    BY <1>4, <1>5
  <2>2. IsInjective(EmptyGraph.users[n]) /\ ToSet(EmptyGraph.users[n]) = {}
    BY <1>2, <1>4
  <2>3. 0 >= 0
    OBVIOUS
  <2> QED
    BY <1>2, <2>1, <2>2, <2>3
<1> QED
  BY <1>1, <1>2, <1>3, <1>5, <1>6 DEF IndexMatches

LEMMA GraphInitInv == GraphInit => GraphInv
<1> SUFFICES ASSUME GraphInit PROVE GraphInv
  OBVIOUS
<1>1. /\ codeBase \in DOMAIN CodeBases /\ change = Quiet
      /\ graph = Extend(EmptyGraph, BuiltInUri, BuiltIn)
  BY DEF GraphInit, Settled, NewGraph
<1>2. BuiltInUri \in Nat /\ Identified(BuiltIn, BuiltInUri)
  BY FilesAssumption DEF BuiltInUri
<1>3. OtherDocs(NoDocuments, BuiltInUri, AllFiles)
  BY FS_EmptySet DEF NoDocuments, OtherDocs
<1>4. IndexTyped(graph) /\ IndexMatches(graph, With(NoDocuments, BuiltInUri, BuiltIn), AllFiles)
  BY <1>1, <1>2, <1>3, EmptyIndex, ExtendIndex
<1>5. graph.docs = [u \in {BuiltInUri} |-> BuiltIn]
  BY <1>1 DEF Extend, EmptyGraph
<1>6. DocumentsTyped /\ With(NoDocuments, BuiltInUri, BuiltIn) = graph.docs
  BY <1>5 DEF DocumentsTyped, NoDocuments, With
<1>7. change.uri \notin DOMAIN graph.docs /\ change.old = NoFile
  BY <1>1, <1>5 DEF Quiet, BuiltInUri
<1>8. IndexMatches(graph, Sources, AllFiles)
  BY <1>4, <1>6, <1>7, NoFileAddsNothing DEF Sources
<1> QED
  BY <1>1, <1>4, <1>6, <1>8 DEF GraphInv, ChangeTyped

\* Between two changes the documents with data in the graph are those present.
LEMMA SourcesWhenIdle ==
  ASSUME GraphInv, change = Quiet
  PROVE  IndexMatches(graph, graph.docs, AllFiles)
<1>1. change.uri = 0 /\ change.old = NoFile
  BY DEF Quiet
<1>2. 0 \notin DOMAIN graph.docs
  BY FileFacts DEF GraphInv, DocumentsTyped, BuiltInUri
<1> QED
  BY <1>1, <1>2, NoFileAddsNothing DEF GraphInv, Sources

\* A change begins: its document leaves the graph, its data stays.
LEMMA BeginStep ==
  ASSUME GraphInv, NEW u \in DOMAIN Files, NEW new \in Files[u] \cup {NoFile}, Begin(u, new)
  PROVE  GraphInv'
<1> DEFINE old == IF u \in DOMAIN graph.docs THEN graph.docs[u] ELSE NoFile
           docs == Restrict(graph.docs, DOMAIN graph.docs \ {u})
           g == [graph EXCEPT !.docs = docs]
<1>1. /\ change = Quiet /\ codeBase' = codeBase /\ Files' = Files /\ AllFiles' = AllFiles
      /\ change' = [uri |-> u, old |-> old, new |-> new]
      /\ graph' = g
  BY DEF Begin, Idle, Files, AllFiles
<1>2. u \in 1..(BuiltInUri - 1) /\ u # BuiltInUri
  BY FileFacts DEF GraphInv, BuiltInUri
<1>3. old \in Files[u] \cup {NoFile}
  BY <1>2 DEF GraphInv, DocumentsTyped
<1>4. /\ g.docs = docs /\ DOMAIN g = DOMAIN graph
      /\ g.count = graph.count /\ g.users = graph.users /\ g.edges = graph.edges
      /\ g.defs = graph.defs /\ g.refs = graph.refs
  BY DEF GraphInv, IndexTyped, IndexFields
<1>5. /\ DOMAIN docs = DOMAIN graph.docs \ {u}
      /\ \A v \in DOMAIN docs : docs[v] = graph.docs[v]
  BY DEF Restrict
<1>6. IndexMatches(graph, graph.docs, AllFiles)
  BY <1>1, SourcesWhenIdle
<1>7. IndexMatches(graph, With(docs, u, old), AllFiles)
  <2>1. CASE u \in DOMAIN graph.docs
    <3>1. graph.docs = [v \in DOMAIN graph.docs |-> graph.docs[v]]
      BY DEF GraphInv, DocumentsTyped
    <3>2. old = graph.docs[u] /\ DOMAIN docs \cup {u} = DOMAIN graph.docs
      BY <1>5, <2>1
    <3>3. With(docs, u, old) = [v \in DOMAIN graph.docs |-> graph.docs[v]]
      BY <1>5, <3>2 DEF With
    <3> QED
      BY <1>6, <3>1, <3>3
  <2>2. CASE u \notin DOMAIN graph.docs
    <3>1. old = NoFile
      BY <2>2
    <3>2. With(docs, u, old) = With(graph.docs, u, NoFile)
      BY <1>5, <2>2, <3>1 DEF With
    <3> QED
      BY <1>6, <2>2, <3>2, NoFileAddsNothing
  <2> QED
    BY <2>1, <2>2
<1> HIDE DEF docs, old, g
<1>8. IndexTyped(g) /\ IndexMatches(g, With(docs, u, old), AllFiles)
  BY <1>4, <1>7 DEF GraphInv, IndexTyped, IndexMatches
<1>9. Sources' = With(docs, u, old)
  BY <1>1, <1>4 DEF Sources, With
<1>10. DocumentsTyped'
  <2>1. \A v \in DOMAIN docs : docs[v] \in IF v = BuiltInUri THEN {BuiltIn} ELSE Files[v]
    BY <1>5 DEF GraphInv, DocumentsTyped
  <2>2. DOMAIN docs \subseteq DOMAIN Files \cup {BuiltInUri}
    BY <1>5 DEF GraphInv, DocumentsTyped
  <2>3. docs = [v \in DOMAIN docs |-> docs[v]]
    BY DEF docs, Restrict
  <2> QED
    BY <1>1, <1>4, <2>1, <2>2, <2>3 DEF DocumentsTyped
<1>11. ChangeTyped'
  BY <1>1, <1>3, <1>4, <1>5 DEF ChangeTyped
<1> QED
  BY <1>1, <1>8, <1>9, <1>10, <1>11 DEF GraphInv

\* An invalidation and a run of the resolver leave the index alone.
LEMMA FrameStep ==
  ASSUME GraphInv, SameIndex(graph', graph), UNCHANGED <<codeBase, change>>
  PROVE  GraphInv'
<1>1. /\ graph'.docs = graph.docs /\ IndexTyped(graph')
      /\ IndexMatches(graph', Sources, AllFiles)
  BY IndexFrame DEF GraphInv
<1>2. Files' = Files /\ AllFiles' = AllFiles /\ Sources' = Sources
  BY <1>1 DEF Files, AllFiles, Sources, With
<1> QED
  BY <1>1, <1>2 DEF GraphInv, DocumentsTyped, ChangeTyped

LEMMA InvalidateIsFrame ==
  ASSUME GraphInv, InvalidateStep \/ ResolverRuns
  PROVE  SameIndex(graph', graph) /\ UNCHANGED <<codeBase, change>>
<1>1. SameIndex(graph, graph)
  BY DEF SameIndex
<1>2. CASE InvalidateDeclaration
  <2>1. PICK item \in Last(worklist) :
          LET d == item[2]
              lost == IF d \in DOMAIN detach THEN detach[d] ELSE <<>>
              seeds == NamesForDeclaration(graph, d)
              g == [graph EXCEPT !.decls[d].defs = Detach(@, lost)]
          IN  graph' = graph \/ graph' = g \/ graph' = RemoveDeclaration(g, d, seeds)
              \/ graph' = UpdateDeclaration(g, d)
    BY <1>2 DEF InvalidateDeclaration
  <2> DEFINE d == item[2]
             lost == IF d \in DOMAIN detach THEN detach[d] ELSE <<>>
             g == [graph EXCEPT !.decls[d].defs = Detach(@, lost)]
  <2>2. SameIndex(g, graph)
    BY DEF SameIndex, IndexFields
  <2>3. \/ graph' = graph \/ graph' = g \/ graph' = UpdateDeclaration(g, d)
        \/ graph' = RemoveDeclaration(g, d, NamesForDeclaration(graph, d))
    BY <2>1
  <2> HIDE DEF g, d
  <2>4. SameIndex(graph', graph)
    BY <1>1, <2>2, <2>3, RemovalKeepsIndex, UpdateKeepsIndex, SameIndexChain
  <2> QED
    BY <1>2, <2>4 DEF InvalidateDeclaration
<1>3. CASE InvalidateName
  BY <1>3, UnresolvingKeepsIndex DEF InvalidateName
<1>4. CASE InvalidateReferences
  BY <1>4, UnresolvingKeepsIndex DEF InvalidateReferences
<1>5. CASE ResolverRuns
  BY <1>5 DEF ResolverRuns, SameIndex
<1> QED
  BY <1>2, <1>3, <1>4, <1>5 DEF InvalidateStep

\* A change ends: the old data goes, the new file is merged.
LEMMA FinishStep ==
  ASSUME GraphInv, Finish
  PROVE  GraphInv'
<1> DEFINE u == change.uri
           docs == graph.docs
           g == RemoveDocumentData(graph, change.old)
<1>1. /\ u \in DOMAIN Files \ DOMAIN docs
      /\ change.old \in Files[u] \cup {NoFile} /\ change.new \in Files[u] \cup {NoFile}
  BY DEF Finish, Idle, GraphInv, ChangeTyped
<1>2. /\ graph' = IF change.new = NoFile THEN g ELSE Extend(g, u, change.new)
      /\ change' = Quiet /\ codeBase' = codeBase /\ Files' = Files /\ AllFiles' = AllFiles
  BY DEF Finish, Files, AllFiles
<1>3. u \in Nat
  BY <1>1, FileFacts DEF GraphInv, BuiltInUri
<1>4. /\ change.old \in AllFiles \cup {NoFile}
      /\ Identified(change.old, u) /\ Closed(change.old) /\ Identified(change.new, u)
  BY <1>1, FileFacts DEF GraphInv
<1>5. OtherDocs(docs, u, AllFiles)
  BY <1>1, OtherDocuments DEF GraphInv
<1>6. IndexTyped(graph) /\ IndexMatches(graph, With(docs, u, change.old), AllFiles)
  BY DEF GraphInv, Sources
<1>7. DOMAIN g = DOMAIN graph /\ g.docs = graph.docs
  BY <1>6 DEF RemoveDocumentData, IndexTyped, IndexFields
<1> HIDE DEF u, docs, g
<1>8. IndexTyped(g) /\ IndexMatches(g, docs, AllFiles)
  BY <1>3, <1>4, <1>5, <1>6, RemoveIndex DEF g
<1>9. ChangeTyped' /\ change'.uri = 0 /\ change'.old = NoFile
  BY <1>2 DEF ChangeTyped, Quiet
<1>10. ASSUME NEW h, graph' = h, DOMAIN h.docs \subseteq DOMAIN Files \cup {BuiltInUri},
              IndexMatches(h, h.docs, AllFiles)
       PROVE  IndexMatches(graph', Sources', AllFiles')
  <2>1. 0 \notin DOMAIN h.docs
    BY <1>10, FileFacts DEF GraphInv, BuiltInUri
  <2>2. Sources' = With(h.docs, 0, NoFile)
    BY <1>9, <1>10 DEF Sources, With
  <2> QED
    BY <1>2, <1>10, <2>1, <2>2, NoFileAddsNothing
<1>11. CASE change.new = NoFile
  <2>1. graph' = g
    BY <1>2, <1>11
  <2>2. DocumentsTyped'
    BY <1>2, <1>7, <2>1 DEF GraphInv, DocumentsTyped
  <2>3. IndexMatches(graph', Sources', AllFiles')
    BY <1>7, <1>8, <1>10, <2>1 DEF GraphInv, DocumentsTyped, docs
  <2> QED
    BY <1>2, <1>8, <1>9, <2>1, <2>2, <2>3 DEF GraphInv
<1>12. CASE change.new # NoFile
  <2> DEFINE h == Extend(g, u, change.new)
  <2>1. graph' = h
    BY <1>2, <1>12
  <2>2. IndexTyped(h) /\ IndexMatches(h, With(docs, u, change.new), AllFiles)
    BY <1>3, <1>4, <1>5, <1>8, ExtendIndex
  <2>3. h.docs = With(docs, u, change.new)
    BY <1>6, <1>7 DEF Extend, IndexTyped, IndexFields, With, docs
  <2> HIDE DEF h
  <2>4. u \notin DOMAIN graph.docs
    BY <1>1 DEF docs
  <2>5. u \in DOMAIN Files /\ u # BuiltInUri /\ change.new \in Files[u]
    BY <1>1, <1>12, FileFacts DEF GraphInv, BuiltInUri
  <2>6. DocumentsTyped'
    BY <1>2, <2>1, <2>3, <2>4, <2>5 DEF GraphInv, DocumentsTyped, With, docs
  <2>7. DOMAIN h.docs \subseteq DOMAIN Files \cup {BuiltInUri}
    BY <2>3, <2>5 DEF GraphInv, DocumentsTyped, With, docs
  <2>8. IndexMatches(graph', Sources', AllFiles')
    BY <1>10, <2>1, <2>2, <2>3, <2>7
  <2> QED
    BY <1>2, <1>9, <2>1, <2>2, <2>6, <2>8 DEF GraphInv
<1> QED
  BY <1>11, <1>12

LEMMA GraphInvStep == GraphInv /\ [GraphNext]_vars => GraphInv'
<1> SUFFICES ASSUME GraphInv, [GraphNext]_vars PROVE GraphInv'
  OBVIOUS
<1>1. CASE ConsumeDocumentChanges
  BY <1>1, BeginStep DEF ConsumeDocumentChanges
<1>2. CASE DeleteDocument
  BY <1>2, BeginStep DEF DeleteDocument
<1>3. CASE InvalidateStep \/ ResolverRuns
  BY <1>3, InvalidateIsFrame, FrameStep
<1>4. CASE Finish
  BY <1>4, FinishStep
<1>5. CASE UNCHANGED vars
  BY <1>5 DEF vars, GraphInv, DocumentsTyped, ChangeTyped, Files, AllFiles, Sources, With
<1> QED
  BY <1>1, <1>2, <1>3, <1>4, <1>5 DEF GraphNext

-----------------------------------------------------------------------------
(* Theorems *)

(***************************************************************************)
(* In every state, also in the middle of a change, the tables of the graph *)
(* are those of the documents and of the one that is being replaced, and   *)
(* so are the counts, the users and the edges of names, in the terms of    *)
(* IndexMatches.                                                           *)
(***************************************************************************)
THEOREM GraphInvariant == GraphSpec => []GraphInv
<1>1. GraphInit => GraphInv
  BY GraphInitInv
<1>2. GraphInv /\ [GraphNext]_vars => GraphInv'
  BY GraphInvStep
<1> QED
  BY <1>1, <1>2, PTL DEF GraphSpec

(***************************************************************************)
(* Between two changes Graph::remove_document_data has taken away no name, *)
(* user or edge that another document still needs, for the names that no   *)
(* file counts less often than it uses them, and for the names that every  *)
(* file counts as often, no more is left than the documents present add,   *)
(* whatever was removed and resolved again in between.                     *)
(***************************************************************************)
THEOREM IndexStaysExact == GraphSpec => []IndexExact
<1>1. GraphInv => IndexExact
  BY SourcesWhenIdle DEF IndexExact, Idle
<1> QED
  BY <1>1, GraphInvariant, PTL

=============================================================================
