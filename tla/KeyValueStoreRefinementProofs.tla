-------------------- MODULE KeyValueStoreRefinementProofs --------------------
(***************************************************************************)
(* What a caller of the store sees: a proof, for every instance, that the  *)
(* store implements VersionedMap.  A step of the store is shown to be the  *)
(* step of VersionedMap its result names, by what it does to the entries   *)
(* that the probes of each key meet.                                       *)
(***************************************************************************)
EXTENDS KeyValueStoreProofs, FiniteSetTheorems

-----------------------------------------------------------------------------
(* Lists of probes.  The versions of a key are read in the order of its    *)
(* probes, so the refinement needs that every set of probes has one list   *)
(* in that order.                                                          *)

\* Of some probes one is the first.
LEMMA FirstProbe ==
    ASSUME NEW F \in SUBSET Probes, F # {}
    PROVE  \E p \in F : IsFirst(p, F)
<1> DEFINE A == {p[1] : p \in F}
<1>1. \A p \in Probes : p[1] \in Nat /\ p[2] \in Nat /\ p = <<p[1], p[2]>>
  BY SizesAssumption DEF Probes, Slots
<1>2. A \in SUBSET Nat /\ A # {}
  BY <1>1
<1>3. PICK a \in A : \A b \in A : a <= b
  <2> HIDE DEF A
  <2>1. QED
    BY <1>2, LeastNumber
<1> DEFINE B == {p[2] : p \in {q \in F : q[1] = a}}
<1>4. B \in SUBSET Nat /\ B # {}
  BY <1>1
<1>5. PICK b \in B : \A c \in B : b <= c
  <2> HIDE DEF B
  <2>1. QED
    BY <1>4, LeastNumber
<1>6. PICK p \in F : p[1] = a /\ p[2] = b
  OBVIOUS
<1>7. ASSUME NEW q \in F PROVE q = p \/ Before(p, q)
  <2>1. p[1] <= q[1]
    BY <1>3, <1>6
  <2>2. q[1] = p[1] => p[2] <= q[2]
    BY <1>5, <1>6
  <2>3. /\ p[1] \in Nat /\ p[2] \in Nat /\ p = <<p[1], p[2]>>
        /\ q[1] \in Nat /\ q[2] \in Nat /\ q = <<q[1], q[2]>>
    BY <1>1
  <2>4. QED
    BY <2>1, <2>2, <2>3 DEF Before
<1>8. QED
  BY <1>7 DEF IsFirst

\* There are finitely many probes.
LEMMA ProbesFinite ==
    ASSUME NEW F \in SUBSET Probes
    PROVE  IsFiniteSet(F) /\ Cardinality(F) \in Nat
<1>1. /\ MAX_READ_WRITE_ATTEMPTS - 1 \in Int /\ BUCKET_SIZE - 1 \in Int /\ 0 \in Int
  BY SizesAssumption
<1>2. IsFiniteSet(0..(MAX_READ_WRITE_ATTEMPTS - 1)) /\ IsFiniteSet(Slots)
  BY <1>1, FS_Interval DEF Slots
<1>3. IsFiniteSet(Probes)
  BY <1>2, FS_Product, Zenon DEF Probes
<1>4. QED
  BY <1>3, FS_Subset, FS_CardinalityType

\* A list of a set of probes has as many elements as the set.
LEMMA ListSize ==
    ASSUME NEW F \in SUBSET Probes, NEW n \in Nat, NEW s \in [1..n -> F], Lists(s, F)
    PROVE  Cardinality(F) = n
<1>1. s \in Injection(1..n, F)
  <2>1. ASSUME NEW i \in 1..n, NEW j \in 1..n, s[i] = s[j] PROVE i = j
    <3>1. ~Before(s[i], s[j]) /\ ~Before(s[j], s[i])
      BY <2>1, ProbeOrder
    <3>2. ~(i < j) /\ ~(j < i)
      BY <3>1 DEF Lists
    <3>3. QED
      BY <3>2
  <2>2. QED
    BY <2>1 DEF Injection, IsInjective
<1>2. s \in Surjection(1..n, F)
  BY DEF Surjection, Lists
<1>3. IsFiniteSet(F) /\ IsFiniteSet(1..n) /\ Cardinality(1..n) = n
  BY ProbesFinite, FS_Interval
<1>4. QED
  BY <1>1, <1>2, <1>3, FS_Injection

\* Two lists of the same probes agree.
LEMMA ListUnique ==
    ASSUME NEW F \in SUBSET Probes, NEW n \in Nat,
           NEW s \in [1..n -> F], NEW t \in [1..n -> F], Lists(s, F), Lists(t, F)
    PROVE  s = t
<1> DEFINE D == {i \in 1..n : s[i] # t[i]}
<1>1. SUFFICES ASSUME D # {} PROVE FALSE
  BY <1>1
<1>2. PICK i \in D : \A j \in D : i <= j
  <2>1. D \in SUBSET Nat
    OBVIOUS
  <2> HIDE DEF D
  <2>2. QED
    BY <1>1, <2>1, LeastNumber
<1>3. \A j \in 1..n : j < i => s[j] = t[j]
  BY <1>2
<1>4. i \in 1..n /\ s[i] \in F /\ t[i] \in F /\ s[i] # t[i]
  OBVIOUS
<1>5. PICK m \in 1..n : t[m] = s[i]
  BY <1>4, Zenon DEF Lists
<1>6. PICK l \in 1..n : s[l] = t[i]
  BY <1>4 DEF Lists
<1>7. i < m
  <2>1. m # i
    BY <1>4, <1>5
  <2>2. ~(m < i)
    <3>1. SUFFICES ASSUME m < i PROVE FALSE
      OBVIOUS
    <3>2. Before(s[m], s[i]) /\ s[m] = s[i]
      BY <1>3, <1>4, <1>5, <3>1 DEF Lists
    <3>3. QED
      BY <1>4, <3>2, ProbeOrder
  <2>3. QED
    BY <2>1, <2>2
<1>8. i < l
  <2>1. l # i
    BY <1>4, <1>6
  <2>2. ~(l < i)
    <3>1. SUFFICES ASSUME l < i PROVE FALSE
      OBVIOUS
    <3>2. Before(t[l], t[i]) /\ t[l] = t[i]
      BY <1>3, <1>4, <1>6, <3>1 DEF Lists
    <3>3. QED
      BY <1>4, <3>2, ProbeOrder
  <2>3. QED
    BY <2>1, <2>2
<1>9. Before(t[i], s[i]) /\ Before(s[i], t[i])
  BY <1>4, <1>5, <1>6, <1>7, <1>8 DEF Lists
<1>10. QED
  BY <1>4, <1>9, ProbeOrder

\* x before the n elements of s.
InFront(x, s, n) == [i \in 1..(n + 1) |-> IF i = 1 THEN x ELSE s[i - 1]]

\* A probe in front of a list of later ones.
LEMMA ListCons ==
    ASSUME NEW F \in SUBSET Probes, NEW p \in Probes, \A q \in F : Before(p, q),
           NEW n \in Nat, NEW s \in [1..n -> F], Lists(s, F)
    PROVE  /\ InFront(p, s, n) \in [1..(n + 1) -> F \cup {p}]
           /\ Lists(InFront(p, s, n), F \cup {p})
<1> DEFINE c == InFront(p, s, n)
<1>1. /\ DOMAIN c = 1..(n + 1) /\ c[1] = p
      /\ \A i \in 2..(n + 1) : i - 1 \in 1..n /\ c[i] = s[i - 1]
      /\ \A i \in 1..(n + 1) : i # 1 => i \in 2..(n + 1)
  BY DEF InFront
<1>2. ASSUME NEW i \in 1..(n + 1) PROVE c[i] \in F \cup {p}
  BY <1>1
<1>3. ASSUME NEW i \in 1..(n + 1), NEW j \in 1..(n + 1), i < j
      PROVE  Before(c[i], c[j])
  <2>1. j \in 2..(n + 1)
    BY <1>3
  <2>2. CASE i = 1
    BY <1>1, <2>1, <2>2
  <2>3. CASE i # 1
    <3>1. i - 1 \in 1..n /\ j - 1 \in 1..n /\ i - 1 < j - 1
      BY <1>3, <2>1, <2>3
    <3>2. QED
      BY <1>1, <2>1, <2>3, <3>1 DEF Lists
  <2>4. QED
    BY <2>2, <2>3
<1>4. ASSUME NEW q \in F PROVE \E i \in 1..(n + 1) : q = c[i]
  <2>1. PICK i \in 1..n : q = s[i]
    BY DEF Lists
  <2>2. i + 1 \in 2..(n + 1) /\ i + 1 \in 1..(n + 1) /\ (i + 1) - 1 = i
    OBVIOUS
  <2>3. c[i + 1] = s[i]
    BY <1>1, <2>2
  <2>4. QED
    BY <2>1, <2>2, <2>3
<1>5. c \in [1..(n + 1) -> F \cup {p}]
  BY <1>2 DEF InFront
<1> HIDE DEF c
<1>6. F \cup {p} = {c[i] : i \in DOMAIN c}
  <2>1. 1 \in 1..(n + 1)
    OBVIOUS
  <2>2. QED
    BY <1>1, <1>2, <1>4, <2>1, ZenonT(30)
<1>7. QED
  BY <1>1, <1>3, <1>5, <1>6, Zenon DEF Lists, c

\* Every set of probes can be listed in order.
LEMMA ListExists ==
    ASSUME NEW F \in SUBSET Probes
    PROVE  \E s \in [1..Cardinality(F) -> F] : Lists(s, F)
<1> DEFINE Listed(G) == \E s \in [1..Cardinality(G) -> G] : Lists(s, G)
           Unlisted == {G \in SUBSET Probes : ~Listed(G)}
           T == {Cardinality(G) : G \in Unlisted}
<1>1. SUFFICES ASSUME Unlisted # {} PROVE FALSE
  OBVIOUS
<1>2. PICK G \in Unlisted : \A H \in Unlisted : Cardinality(G) <= Cardinality(H)
  <2>1. T \in SUBSET Nat /\ T # {}
    BY <1>1, ProbesFinite
  <2> HIDE DEF T
  <2>2. PICK n \in T : \A m \in T : n <= m
    BY <2>1, LeastNumber
  <2>3. QED
    BY <2>2 DEF T
<1>3. G \in SUBSET Probes /\ ~Listed(G) /\ IsFiniteSet(G) /\ Cardinality(G) \in Nat
  BY <1>2, ProbesFinite
<1>4. G # {}
  <2>1. SUFFICES ASSUME G = {} PROVE FALSE
    OBVIOUS
  <2>2. Cardinality(G) = 0 /\ << >> \in [1..0 -> G] /\ Lists(<< >>, G)
    BY <2>1, FS_EmptySet DEF Lists
  <2>3. QED
    BY <1>3, <2>2, Zenon
<1>5. PICK p \in G : IsFirst(p, G)
  BY <1>3, <1>4, FirstProbe
<1> DEFINE H == G \ {p}
           n == Cardinality(H)
<1>6. /\ H \in SUBSET Probes /\ n \in Nat /\ Cardinality(G) = n + 1
      /\ G = H \cup {p} /\ p \in Probes
  BY <1>3, <1>5, ProbesFinite, FS_RemoveElement
<1>7. \A q \in H : Before(p, q)
  BY <1>5 DEF IsFirst
<1>8. Listed(H)
  <2>1. H \notin Unlisted
    <3>1. ~(Cardinality(G) <= n)
      BY <1>6
    <3> HIDE DEF Unlisted
    <3>2. QED
      BY <1>2, <3>1
  <2>2. QED
    BY <1>6, <2>1, ZenonT(30)
<1> HIDE DEF H, n
<1>9. PICK s \in [1..n -> H] : Lists(s, H)
  BY <1>8 DEF n
<1>10. /\ InFront(p, s, n) \in [1..(n + 1) -> H \cup {p}]
       /\ Lists(InFront(p, s, n), H \cup {p})
  BY <1>6, <1>7, <1>9, ListCons, Zenon
<1>11. QED
  BY <1>3, <1>6, <1>10, Zenon

\* InOrder is the list of its set.
LEMMA InOrderLists ==
    ASSUME NEW F \in SUBSET Probes
    PROVE  InOrder(F) \in [1..Cardinality(F) -> F] /\ Lists(InOrder(F), F)
<1>1. \E s \in [1..Cardinality(F) -> F] : Lists(s, F)
  BY ListExists
<1>2. QED
  BY <1>1, Zenon DEF InOrder

\* A list of a set is the one InOrder chooses.
LEMMA InOrderIs ==
    ASSUME NEW F \in SUBSET Probes, NEW n \in Nat, NEW s \in [1..n -> F], Lists(s, F)
    PROVE  InOrder(F) = s
<1>1. Cardinality(F) = n
  BY ListSize
<1>2. InOrder(F) \in [1..n -> F] /\ Lists(InOrder(F), F)
  BY <1>1, InOrderLists
<1>3. QED
  BY <1>2, ListUnique

\* The first probe of a set stands in front of the others.
LEMMA InOrderSplits ==
    ASSUME NEW F \in SUBSET Probes, NEW p, IsFirst(p, F)
    PROVE  LET n == Cardinality(F \ {p})
           IN  n \in Nat /\ InOrder(F) = InFront(p, InOrder(F \ {p}), n)
<1> DEFINE G == F \ {p}
           n == Cardinality(G)
           s == InOrder(G)
<1>1. G \in SUBSET Probes /\ p \in Probes /\ F = G \cup {p} /\ \A q \in G : Before(p, q)
  BY DEF IsFirst
<1>2. n \in Nat
  BY <1>1, ProbesFinite
<1>3. s \in [1..n -> G] /\ Lists(s, G)
  BY <1>1, InOrderLists
<1> HIDE DEF G, n, s
<1>4. InFront(p, s, n) \in [1..(n + 1) -> F] /\ Lists(InFront(p, s, n), F)
  BY <1>1, <1>2, <1>3, ListCons, Zenon
<1>5. n + 1 \in Nat
  BY <1>2
<1>6. InOrder(F) = InFront(p, s, n)
  BY <1>4, <1>5, InOrderIs
<1>7. QED
  BY <1>2, <1>6 DEF G, n, s

\* What is read at the probes of F, in their order.
Read(F, val) == [i \in DOMAIN InOrder(F) |-> val[InOrder(F)[i]]]

\* What is read is a sequence of the values there.
LEMMA ReadType ==
    ASSUME NEW F \in SUBSET Probes, NEW val
    PROVE  /\ Read(F, val) \in Seq({val[p] : p \in Probes})
           /\ DOMAIN Read(F, val) = 1..Cardinality(F)
           /\ Len(Read(F, val)) = Cardinality(F) /\ Cardinality(F) \in Nat
<1> DEFINE n == Cardinality(F)
           s == InOrder(F)
           V == {val[p] : p \in Probes}
<1>1. n \in Nat /\ s \in [1..n -> F]
  BY ProbesFinite, InOrderLists
<1>2. Read(F, val) = [i \in 1..n |-> val[s[i]]]
  BY <1>1 DEF Read
<1>3. \A i \in 1..n : val[s[i]] \in V
  BY <1>1
<1> HIDE DEF n, s, V
<1>4. Read(F, val) \in [1..n -> V]
  BY <1>2, <1>3
<1>5. Read(F, val) \in Seq(V) /\ DOMAIN Read(F, val) = 1..n /\ Len(Read(F, val)) = n
  BY <1>1, <1>4
<1>6. QED
  BY <1>1, <1>5 DEF n, V

\* At no probes nothing is read.
LEMMA ReadNothing ==
    ASSUME NEW val
    PROVE  Read({}, val) = << >>
<1>1. {} \in SUBSET Probes
  OBVIOUS
<1>2. Cardinality({}) = 0
  BY FS_EmptySet
<1>3. Read({}, val) \in Seq({val[p] : p \in Probes}) /\ Len(Read({}, val)) = 0
  BY <1>1, <1>2, ReadType
<1>4. QED
  BY <1>3

\* What is read depends on the values at the probes of the set only.
LEMMA ReadSame ==
    ASSUME NEW F \in SUBSET Probes, NEW val, NEW new, \A p \in F : val[p] = new[p]
    PROVE  Read(F, val) = Read(F, new)
<1>1. \A i \in DOMAIN InOrder(F) : InOrder(F)[i] \in F
  BY InOrderLists, Zenon
<1>2. QED
  BY <1>1 DEF Read

\* The parts of a sequence made of an element and a sequence.
LEMMA ConsParts ==
    ASSUME NEW V, NEW x \in V, NEW t \in Seq(V)
    PROVE  /\ <<x>> \o t # << >> /\ Head(<<x>> \o t) = x /\ Tail(<<x>> \o t) = t
<1> DEFINE r == <<x>> \o t
<1>1. /\ r \in Seq(V) /\ Len(r) = 1 + Len(t) /\ Len(t) \in Nat /\ r[1] = x
      /\ \A i \in 1..Len(t) : r[i + 1] = t[i]
  OBVIOUS
<1> HIDE DEF r
<1>2. r # << >> /\ Head(r) = x
  BY <1>1
<1>3. Tail(r) = t
  <2>1. Tail(r) \in Seq(V) /\ Len(Tail(r)) = Len(t)
    BY <1>1, <1>2
  <2>2. \A i \in 1..Len(t) : Tail(r)[i] = t[i]
    BY <1>1, <1>2
  <2>3. QED
    BY <1>1, <2>1, <2>2
<1>4. QED
  BY <1>2, <1>3 DEF r

\* The value at the first probe comes first.
LEMMA ReadSplits ==
    ASSUME NEW F \in SUBSET Probes, NEW p, IsFirst(p, F), NEW val
    PROVE  Read(F, val) = <<val[p]>> \o Read(F \ {p}, val)
<1> DEFINE G == F \ {p}
           n == Cardinality(G)
           s == InOrder(G)
           V == {val[q] : q \in Probes}
           t == Read(G, val)
           r == Read(F, val)
<1>1. G \in SUBSET Probes /\ p \in Probes /\ val[p] \in V
  BY DEF IsFirst
<1>2. n \in Nat /\ InOrder(F) = InFront(p, s, n)
  BY InOrderSplits
<1>3. s \in [1..n -> G] /\ t \in Seq(V) /\ DOMAIN t = 1..n /\ Len(t) = n
  BY <1>1, InOrderLists, ReadType
<1>4. t = [i \in 1..n |-> val[s[i]]]
  BY <1>3 DEF Read
<1>5. r = [i \in 1..(n + 1) |-> val[InFront(p, s, n)[i]]]
  BY <1>2 DEF Read, InFront
<1> HIDE DEF G, n, s, V, t, r
<1>6. r[1] = val[p]
  BY <1>2, <1>5 DEF InFront
<1>7. ASSUME NEW i \in 1..n PROVE r[i + 1] = t[i]
  <2>1. i + 1 \in 1..(n + 1) /\ i + 1 # 1 /\ (i + 1) - 1 = i
    BY <1>2
  <2>2. InFront(p, s, n)[i + 1] = s[i]
    BY <2>1 DEF InFront
  <2>3. QED
    BY <1>4, <1>5, <2>1, <2>2
<1>8. ASSUME NEW i \in 1..(n + 1) PROVE r[i] \in V
  <2>1. CASE i = 1
    BY <1>1, <1>6, <2>1
  <2>2. CASE i # 1
    <3>1. i - 1 \in 1..n /\ (i - 1) + 1 = i
      BY <1>2, <2>2
    <3>2. QED
      BY <1>3, <1>7, <3>1
  <2>3. QED
    BY <2>1, <2>2
<1>9. r \in Seq(V) /\ Len(r) = n + 1
  <2>1. r \in [1..(n + 1) -> V]
    BY <1>5, <1>8
  <2>2. QED
    BY <1>2, <2>1
<1>10. r # << >> /\ r[1] = val[p]
  BY <1>2, <1>6, <1>9
<1>11. Tail(r) = t
  <2>1. Tail(r) \in Seq(V) /\ Len(Tail(r)) = n
    BY <1>2, <1>9, <1>10
  <2>2. \A i \in 1..n : Tail(r)[i] = t[i]
    BY <1>2, <1>7, <1>9, <1>10
  <2>3. QED
    BY <1>2, <1>3, <2>1, <2>2
<1>12. r = <<val[p]>> \o Tail(r)
  BY <1>1, <1>9, <1>10
<1>13. QED
  BY <1>11, <1>12, Zenon DEF r, t, G

-----------------------------------------------------------------------------
(* The stacks of versions, and what each operation does to them.           *)

\* The value of the entry each probe of a key meets.
At(k) == [p \in Probes |-> pool[IndexAt(table, tableSize, k, p)].value]

\* The versions of a key are what is read where its entries are first met,
\* before a step and after it.
LEMMA VersionsRead ==
    ASSUME NEW k \in Keys
    PROVE  /\ Firsts(k) \in SUBSET Probes /\ Versions(k) = Read(Firsts(k), At(k))
           /\ Firsts(k)' \in SUBSET Probes /\ Versions(k)' = Read(Firsts(k)', At(k)')
<1>1. Firsts(k) \in SUBSET Probes /\ Firsts(k)' \in SUBSET Probes
  BY DEF Firsts, Matches
<1>2. /\ \A i \in DOMAIN InOrder(Firsts(k)) : InOrder(Firsts(k))[i] \in Probes
      /\ \A i \in DOMAIN InOrder(Firsts(k)') : InOrder(Firsts(k)')[i] \in Probes
  BY <1>1, InOrderLists, ZenonT(30)
<1>3. Versions(k) = Read(Firsts(k), At(k))
  BY <1>2 DEF Versions, Read, At
<1>4. Versions(k)' = Read(Firsts(k)', At(k)')
  BY <1>2 DEF Versions, Read, At
<1>5. QED
  BY <1>1, <1>3, <1>4, SMTT(30)

\* A key whose probes meet the same entries as before keeps its versions.
LEMMA SameVersions ==
    ASSUME NEW k \in Keys, Matches(k)' = Matches(k),
           \A p \in Matches(k) :
              LET e == IndexAt(table, tableSize, k, p)
              IN  IndexAt(table', tableSize', k, p) = e /\ pool'[e].value = pool[e].value
    PROVE  Versions(k)' = Versions(k)
<1>1. Firsts(k)' = Firsts(k) /\ Firsts(k) \subseteq Matches(k)
  BY DEF Firsts
<1>2. ASSUME NEW p \in Firsts(k) PROVE At(k)'[p] = At(k)[p]
  <2>1. p \in Probes /\ p \in Matches(k)
    BY <1>1, <1>2, SMTT(30) DEF Matches
  <2>2. QED
    BY <2>1, SMTT(30) DEF At
<1>3. Read(Firsts(k), At(k)') = Read(Firsts(k), At(k))
  BY <1>2, ReadSame, VersionsRead
<1>4. QED
  BY <1>1, <1>3, VersionsRead

\* The first entry get() and del() meet is the newest version.
LEMMA NewestVersion ==
    ASSUME NEW k \in Keys, NEW p, IsFirst(p, Matches(k))
    PROVE  /\ IsFirst(p, Firsts(k))
           /\ Versions(k) # << >>
           /\ Head(Versions(k)) = pool[IndexAt(table, tableSize, k, p)].value
           /\ Tail(Versions(k)) = Read(Firsts(k) \ {p}, At(k))
<1>1. p \in Probes /\ p \in Matches(k)
  BY DEF IsFirst, Matches
<1>2. IsFirst(p, Firsts(k))
  BY <1>1 DEF IsFirst, Firsts
<1>3. At(k)[p] = pool[IndexAt(table, tableSize, k, p)].value
  BY <1>1 DEF At
<1> DEFINE r == Read(Firsts(k), At(k))
<1>4. r # << >> /\ Head(r) = At(k)[p] /\ Tail(r) = Read(Firsts(k) \ {p}, At(k))
  <2> DEFINE F   == Firsts(k)
             val == At(k)
  <2>1. F \in SUBSET Probes /\ IsFirst(p, F)
    BY <1>2, VersionsRead
  <2> HIDE DEF F, val
  <2>2. Read(F, val) = <<val[p]>> \o Read(F \ {p}, val)
    BY <2>1, ReadSplits, Zenon
  <2>3. /\ val[p] \in {val[q] : q \in Probes}
        /\ Read(F \ {p}, val) \in Seq({val[q] : q \in Probes})
    BY <1>1, <2>1, ReadType
  <2>4. QED
    BY <2>2, <2>3, ConsParts, ZenonT(30) DEF F, val, r
<1>5. Versions(k) = r
  BY VersionsRead
<1> HIDE DEF r
<1>6. QED
  BY <1>2, <1>3, <1>4, <1>5, Zenon

\* A key without a match has no version.
LEMMA NoVersion ==
    ASSUME NEW k \in Keys, Matches(k) = {}
    PROVE  Versions(k) = << >>
<1>1. Firsts(k) = {}
  BY DEF Firsts
<1>2. QED
  BY <1>1, VersionsRead, ReadNothing

\* An operation on one key changes one stack.
LEMMA OneStack ==
    ASSUME NEW k \in Keys, NEW w, Versions(k)' = w,
           \A l \in Keys : l # k => Versions(l)' = Versions(l)
    PROVE  [l \in Keys |-> Versions(l)]' =
               [[l \in Keys |-> Versions(l)] EXCEPT ![k] = w]
BY Zenon

\* set() covers the newest version of its key, or replaces it when it finds
\* the key in the first slot it may take, and leaves all other keys alone.
LEMMA InsertVersions ==
    ASSUME TypeOK, FreeListSound, NEW k \in Keys, NEW v \in Values,
           NEW p \in Probes, IsFirst(p, Claimable(k)), InsertEntry(k, v, p),
           tableSize' = tableSize
    PROVE  /\ \A l \in Keys : l # k => Versions(l)' = Versions(l)
           /\ \/ Versions(k)' = <<v>> \o Versions(k)
              \/ Versions(k) # << >> /\ Versions(k)' = <<v>> \o Tail(Versions(k))
<1> DEFINE old == IndexAt(table, tableSize, k, p)
           Old(l, q) == IndexAt(table, tableSize, l, q)
           New(l, q) == IndexAt(table', tableSize', l, q)
<1>c. PICK new \in 1..(capacity - 1) : Inserted(k, v, p, new)
  BY InsertEffect
<1>1. /\ old \in 0..(capacity - 1)
      /\ old # 0 => pool[old].key \in {NoKey, k}
      /\ Live(new) => new = old /\ pool[new].key = k
      /\ Live(old) => new = old
      /\ pool'[new] = [key |-> k, value |-> v]
      /\ \A e \in 1..(capacity - 1) : e # new => pool'[e] = pool[e]
      /\ \A l \in Keys, q \in Probes :
            /\ Old(l, q) \in 0..(capacity - 1)
            /\ New(l, q) = Old(l, q) \/ (New(l, q) = new /\ Old(l, q) = old)
            /\ l = k /\ q = p => New(l, q) = new
      /\ IsFirst(p, Matches(k)')
  BY <1>c, Zenon DEF Inserted
<1>2. \A l \in Keys : /\ Matches(l) = {q \in Probes : Old(l, q) # 0 /\ pool[Old(l, q)].key = l}
                      /\ Matches(l)' = {q \in Probes : New(l, q) # 0 /\ pool'[New(l, q)].key = l}
  BY Zenon DEF Matches
<1>3. capacity \in Nat \ {0} /\ new # 0 /\ NoKey \notin Keys
  BY KeysAssumption DEF TypeOK
<1>4. /\ New(k, p) = new /\ Old(k, p) = old
      /\ pool'[new].key = k /\ pool'[new].value = v
  BY <1>1, SMTT(30)
<1>5. /\ \A l \in Keys : /\ Firsts(l) \subseteq Matches(l) /\ Matches(l) \subseteq Probes
                         /\ Firsts(l) = {r \in Matches(l) : \A q \in Matches(l) :
                                            Old(l, q) = Old(l, r) => q = r \/ Before(r, q)}
                         /\ Firsts(l)' = {r \in Matches(l)' : \A q \in Matches(l)' :
                                            New(l, q) = New(l, r) => q = r \/ Before(r, q)}
  BY ZenonT(30) DEF Firsts, Matches
<1>a. \A l \in Keys, q \in Probes : /\ At(l)[q] = pool[Old(l, q)].value
                                    /\ At(l)'[q] = pool'[New(l, q)].value
  BY DEF At
<1>b. \A e : Live(e) <=> e # 0 /\ pool[e].key # NoKey
  BY SMTT(30) DEF Live
<1> HIDE DEF old, Old, New
<1>6. ASSUME NEW l \in Keys, l # k PROVE Versions(l)' = Versions(l)
  <2>1. ASSUME NEW q \in Probes
        PROVE  /\ q \in Matches(l) => New(l, q) = Old(l, q) /\ Old(l, q) # new
               /\ q \in Matches(l)' => New(l, q) = Old(l, q) /\ Old(l, q) # new
    BY <1>1, <1>2, <1>3, <1>6, <1>b, SMTT(30)
  <2>2. ASSUME NEW q \in Probes, New(l, q) = Old(l, q), Old(l, q) # new
        PROVE  /\ q \in Matches(l) <=> q \in Matches(l)'
               /\ q \in Matches(l) => pool'[Old(l, q)] = pool[Old(l, q)]
    <3>1. Old(l, q) \in 0..(capacity - 1)
      BY <1>1
    <3>2. Old(l, q) # 0 => pool'[Old(l, q)] = pool[Old(l, q)]
      BY <1>1, <1>3, <2>2, <3>1, SMTT(30)
    <3>3. QED
      BY <1>2, <2>2, <3>2, SMTT(30)
  <2>3. Matches(l)' = Matches(l)
    BY <1>2, <2>1, <2>2, Zenon
  <2>4. ASSUME NEW q \in Matches(l)
        PROVE  New(l, q) = Old(l, q) /\ pool'[Old(l, q)].value = pool[Old(l, q)].value
    BY <1>2, <2>1, <2>2
  <2>5. QED
    BY <2>3, <2>4, SameVersions, SMTT(30) DEF Old, New
<1>7. CASE Live(old)
  <2>1. new = old /\ pool[old].key = k
    BY <1>1, <1>7, <1>b, SMTT(30)
  <2>2. \A q \in Probes : New(k, q) = Old(k, q)
    BY <1>1, <2>1
  <2>3. \A q \in Probes : q \in Matches(k) <=> q \in Matches(k)'
    <3>1. ASSUME NEW q \in Probes PROVE q \in Matches(k) <=> q \in Matches(k)'
      <4>1. CASE Old(k, q) = new
        BY <1>2, <1>4, <2>1, <2>2, <4>1, SMTT(30)
      <4>2. CASE Old(k, q) # new
        <5>1. Old(k, q) # 0 => pool'[Old(k, q)] = pool[Old(k, q)]
          BY <1>1, <1>3, <4>2, SMTT(30)
        <5>2. QED
          BY <1>2, <2>2, <5>1, SMTT(30)
      <4>3. QED
        BY <4>1, <4>2, SMTT(30)
    <3>2. QED
      BY <3>1
  <2>4. Matches(k)' = Matches(k)
    BY <1>2, <2>3, Zenon
  <2>5. Firsts(k)' = Firsts(k)
    <3>1. /\ Firsts(k) = {r \in Matches(k) : \A q \in Matches(k) :
                             Old(k, q) = Old(k, r) => q = r \/ Before(r, q)}
          /\ Firsts(k)' = {r \in Matches(k) : \A q \in Matches(k) :
                             New(k, q) = New(k, r) => q = r \/ Before(r, q)}
      BY <1>5, <2>4
    <3>2. \A q \in Matches(k) : New(k, q) = Old(k, q)
      BY <1>5, <2>2, SMTT(30)
    <3>3. QED
      BY <3>1, <3>2
  <2>6. IsFirst(p, Matches(k))
    BY <1>1, <2>4
  <2>7. Versions(k) # << >> /\ Tail(Versions(k)) = Read(Firsts(k) \ {p}, At(k))
        /\ IsFirst(p, Firsts(k))
    BY <2>6, NewestVersion, SMTT(30)
  <2>8. ASSUME NEW q \in Firsts(k) \ {p} PROVE At(k)[q] = At(k)'[q]
    <3>1. q \in Probes /\ q \in Matches(k) /\ p \in Matches(k)
      BY <1>5, <2>6 DEF IsFirst
    <3>2. Old(k, q) # old
      <4>1. SUFFICES ASSUME Old(k, q) = old PROVE FALSE
        OBVIOUS
      <4>2. p = q \/ Before(q, p)
        BY <1>4, <1>5, <2>8, <3>1, <4>1
      <4>3. Before(p, q)
        BY <2>6, <2>8, <3>1, SMTT(30) DEF IsFirst
      <4>4. QED
        BY <2>8, <3>1, <4>2, <4>3, ProbeOrder
    <3>3. pool'[Old(k, q)] = pool[Old(k, q)]
      BY <1>1, <1>2, <1>3, <2>1, <3>1, <3>2
    <3>4. QED
      BY <1>a, <2>2, <3>1, <3>3, SMTT(30)
  <2>9. Read(Firsts(k) \ {p}, At(k)) = Read(Firsts(k) \ {p}, At(k)')
    <3>1. Firsts(k) \ {p} \in SUBSET Probes
      BY <1>5
    <3>2. QED
      BY <2>8, <3>1, ReadSame
  <2>10. Read(Firsts(k), At(k)') = <<At(k)'[p]>> \o Read(Firsts(k) \ {p}, At(k)')
    <3> DEFINE F   == Firsts(k)
               val == At(k)'
    <3>1. F \in SUBSET Probes /\ IsFirst(p, F)
      BY <2>7, VersionsRead
    <3> HIDE DEF F, val
    <3>2. Read(F, val) = <<val[p]>> \o Read(F \ {p}, val)
      BY <3>1, ReadSplits, Zenon
    <3>3. QED
      BY <3>2 DEF F, val
  <2>11. Versions(k)' = Read(Firsts(k), At(k)') /\ At(k)'[p] = v
    BY <1>4, <1>a, <2>5, VersionsRead
  <2>12. Versions(k)' = <<v>> \o Tail(Versions(k))
    BY <2>7, <2>9, <2>10, <2>11, Zenon
  <2>13. QED
    BY <1>6, <2>7, <2>12, SMTT(30)
<1>8. CASE ~Live(old)
  <2>1. ~Live(new)
    BY <1>1, <1>8, SMTT(30)
  <2>2. ASSUME NEW q \in Matches(k)
        PROVE  New(k, q) = Old(k, q) /\ Old(k, q) # new /\ q \in Matches(k)'
               /\ pool'[Old(k, q)] = pool[Old(k, q)]
    <3>1. q \in Probes /\ Live(Old(k, q)) /\ Old(k, q) # 0 /\ pool[Old(k, q)].key = k
      BY <1>2, <1>3, <1>b, <2>2
    <3>2. Old(k, q) # old /\ Old(k, q) # new
      BY <1>8, <2>1, <3>1, SMTT(30)
    <3>3. New(k, q) = Old(k, q) /\ pool'[Old(k, q)] = pool[Old(k, q)]
      BY <1>1, <1>3, <3>1, <3>2, SMTT(30)
    <3>4. QED
      BY <1>2, <3>1, <3>2, <3>3, SMTT(30)
  <2>3. ASSUME NEW q \in Matches(k)', New(k, q) # new PROVE q \in Matches(k)
    <3>1. q \in Probes /\ New(k, q) = Old(k, q) /\ Old(k, q) # 0
      BY <1>1, <1>2, <2>3, SMTT(30)
    <3>2. pool'[Old(k, q)] = pool[Old(k, q)]
      BY <1>1, <1>3, <2>3, <3>1, SMTT(30)
    <3>3. QED
      BY <1>2, <2>3, <3>1, <3>2
  <2>4. p \in Matches(k)' /\ p \notin Matches(k) /\ p \in Probes
    BY <1>1, <1>4, <2>2, Zenon DEF IsFirst
  <2>5. ASSUME NEW q \in Firsts(k)', q # p PROVE q \in Firsts(k)
    <3>1. New(k, q) # new /\ q \in Matches(k)'
      <4>1. SUFFICES ASSUME New(k, q) = new PROVE FALSE
        BY <1>5, SMTT(30)
      <4>2. q \in Matches(k)' /\ q \in Probes /\ (p = q \/ Before(q, p))
        BY <1>2, <1>4, <1>5, <2>4, <2>5, <4>1, SMTT(30)
      <4>3. Before(p, q)
        BY <1>1, <2>5, <4>2 DEF IsFirst
      <4>4. QED
        BY <2>4, <2>5, <4>2, <4>3, ProbeOrder
    <3>2. q \in Matches(k)
      BY <2>3, <3>1
    <3>3. ASSUME NEW r \in Matches(k), Old(k, r) = Old(k, q) PROVE r = q \/ Before(q, r)
      BY <1>5, <2>2, <2>5, <3>2, <3>3, ZenonT(30)
    <3>4. QED
      BY <1>5, <3>2, <3>3
  <2>6. ASSUME NEW q \in Firsts(k) PROVE q \in Firsts(k)'
    <3>1. q \in Matches(k) /\ q \in Matches(k)'
      BY <1>5, <2>2, SMTT(30)
    <3>2. ASSUME NEW r \in Matches(k)', New(k, r) = New(k, q) PROVE r = q \/ Before(q, r)
      BY <1>5, <2>2, <2>3, <2>6, <3>1, <3>2, ZenonT(30)
    <3>3. QED
      BY <1>5, <3>1, <3>2, SMTT(30)
  <2>7. p \in Firsts(k)' /\ IsFirst(p, Firsts(k)')
    BY <1>1, <1>5, Zenon DEF IsFirst
  <2>8. Firsts(k)' \ {p} = Firsts(k)
    BY <1>5, <2>4, <2>5, <2>6
  <2>9. Read(Firsts(k)', At(k)') = <<At(k)'[p]>> \o Read(Firsts(k)' \ {p}, At(k)')
    <3>1. Firsts(k)' \in SUBSET Probes
      BY VersionsRead, SMTT(30)
    <3>2. QED
      BY <2>7, <3>1, ReadSplits, Zenon
  <2>10. ASSUME NEW q \in Firsts(k) PROVE At(k)[q] = At(k)'[q]
    BY <1>2, <1>5, <1>a, <2>2, SMTT(30)
  <2>11. Read(Firsts(k), At(k)) = Read(Firsts(k), At(k)')
    BY <2>10, VersionsRead, ReadSame, Zenon
  <2>12. At(k)'[p] = v
    BY <1>4, <1>a, Zenon
  <2>13. Versions(k)' = <<v>> \o Versions(k)
    BY <2>8, <2>9, <2>11, <2>12, VersionsRead, Zenon
  <2>14. QED
    BY <1>6, <2>13, SMTT(30)
<1>9. QED
  BY <1>7, <1>8

\* The last step of a set(), with or without a resize, is Cover, Replace or
\* Refuse.
LEMMA PlaceMaps ==
    ASSUME TypeOK, FreeListSound, NEW k \in Keys, NEW v \in Values, Place(k, v)
    PROVE  VM!Cover(k, v) \/ VM!Replace(k, v) \/ VM!Refuse(k, v)
<1> DEFINE all == [l \in Keys |-> Versions(l)]
<1>1. tableSize' = tableSize
  BY DEF Place
<1>2. ASSUME NEW p \in Probes, IsFirst(p, Claimable(k)), InsertEntry(k, v, p)
      PROVE  VM!Cover(k, v) \/ VM!Replace(k, v)
  <2>1. /\ \A l \in Keys : l # k => Versions(l)' = Versions(l)
        /\ \/ Versions(k)' = <<v>> \o Versions(k)
           \/ Versions(k) # << >> /\ Versions(k)' = <<v>> \o Tail(Versions(k))
    BY <1>1, <1>2, InsertVersions
  <2>2. ret' = Result("set", k, v, TRUE)
    BY <1>2 DEF InsertEntry
  <2>3. all[k] = Versions(k)
    OBVIOUS
  <2>4. CASE Versions(k)' = <<v>> \o Versions(k)
    <3>1. all' = [all EXCEPT ![k] = <<v>> \o all[k]]
      BY <2>1, <2>3, <2>4, OneStack
    <3> HIDE DEF all
    <3>2. QED
      BY <2>2, <3>1 DEF VM!Cover, VM!Result, Result, all
  <2>5. CASE Versions(k) # << >> /\ Versions(k)' = <<v>> \o Tail(Versions(k))
    <3>1. all' = [all EXCEPT ![k] = <<v>> \o Tail(all[k])] /\ all[k] # << >>
      BY <2>1, <2>3, <2>5, OneStack
    <3> HIDE DEF all
    <3>2. QED
      BY <2>2, <3>1 DEF VM!Replace, VM!Result, Result, all
  <2>6. QED
    BY <2>1, <2>4, <2>5
<1>3. CASE /\ Claimable(k) = {} /\ ret' = Result("set", k, v, FALSE)
           /\ UNCHANGED <<table, pool>>
  <2>1. Matches(k) = {}
    BY <1>3 DEF Claimable, Matches
  <2>2. Versions(k) = << >>
    BY <2>1, NoVersion
  <2>3. \A l \in Keys : Versions(l)' = Versions(l)
    BY <1>1, <1>3, SameVersions DEF Matches
  <2>4. all' = all /\ all[k] = << >>
    BY <2>2, <2>3
  <2> HIDE DEF all
  <2>5. QED
    BY <1>3, <2>4 DEF VM!Refuse, VM!Result, Result, all
<1>4. QED
  BY <1>2, <1>3, ZenonT(30) DEF Place

\* get() answers with the newest version, and finds none only if there is none.
LEMMA GetMaps ==
    ASSUME NEW k \in Keys, Get(k)
    PROVE  VM!Get(k)
<1> DEFINE all == [l \in Keys |-> Versions(l)]
<1>1. UNCHANGED <<table, tableSize, pool>>
  BY DEF Get, storeVars
<1>2. all' = all
  <2>1. \A l \in Keys : Versions(l)' = Versions(l)
    BY <1>1, SameVersions DEF Matches
  <2>2. QED
    BY <2>1
<1>3. all[k] = Versions(k)
  OBVIOUS
<1>4. ASSUME NEW p \in Probes, IsFirst(p, Matches(k)),
             ret' = Result("get", k, pool[IndexAt(table, tableSize, k, p)].value, TRUE)
      PROVE  VM!Get(k)
  <2>1. all[k] # << >> /\ Head(all[k]) = pool[IndexAt(table, tableSize, k, p)].value
    BY <1>3, <1>4, NewestVersion, Zenon
  <2> HIDE DEF all
  <2>2. QED
    BY <1>2, <1>4, <2>1, Zenon DEF VM!Get, VM!Top, VM!Result, Result, all
<1>5. CASE Matches(k) = {} /\ ret' = Result("get", k, NoValue, FALSE)
  <2>1. all[k] = << >>
    BY <1>3, <1>5, NoVersion
  <2> HIDE DEF all
  <2>2. QED
    BY <1>2, <1>5, <2>1, Zenon DEF VM!Get, VM!Top, VM!Result, Result, all
<1>6. QED
  BY <1>4, <1>5, ZenonT(30) DEF Get

\* del() takes the newest version away, wherever slots still name its entry.
LEMMA DelVersions ==
    ASSUME TypeOK, NEW k \in Keys, NEW p \in Probes, IsFirst(p, Matches(k)),
           pool' = [pool EXCEPT ![IndexAt(table, tableSize, k, p)] = DeadEntry],
           UNCHANGED <<table, tableSize>>
    PROVE  /\ \A l \in Keys : l # k => Versions(l)' = Versions(l)
           /\ Versions(k)' = Tail(Versions(k))
<1> DEFINE Old(l, q) == IndexAt(table, tableSize, l, q)
           e == Old(k, p)
<1>1. \A l \in Keys, q \in Probes : Old(l, q) \in 0..(capacity - 1)
  BY IndexAtType DEF TypeOK
<1>2. pool \in [1..(capacity - 1) -> Entry] /\ capacity \in Nat \ {0}
  BY DEF TypeOK
<1>3. e # 0 /\ pool[e].key = k /\ p \in Matches(k)
  BY DEF IsFirst, Matches
<1>4. \A l \in Keys : /\ Matches(l) = {q \in Probes : Old(l, q) # 0 /\ pool[Old(l, q)].key = l}
                      /\ Matches(l)' = {q \in Probes : Old(l, q) # 0 /\ pool'[Old(l, q)].key = l}
  BY DEF Matches
<1>5. \A l \in Keys : /\ Firsts(l) = {r \in Matches(l) : \A q \in Matches(l) :
                                         Old(l, q) = Old(l, r) => q = r \/ Before(r, q)}
                      /\ Firsts(l)' = {r \in Matches(l)' : \A q \in Matches(l)' :
                                         Old(l, q) = Old(l, r) => q = r \/ Before(r, q)}
  BY DEF Firsts
<1>6. \A l \in Keys, q \in Probes : /\ At(l)[q] = pool[Old(l, q)].value
                                    /\ At(l)'[q] = pool'[Old(l, q)].value
                                    /\ IndexAt(table', tableSize', l, q) = Old(l, q)
  BY DEF At
<1>7. pool' = [pool EXCEPT ![e] = DeadEntry]
  OBVIOUS
<1> HIDE DEF Old, e
<1>8. e \in 1..(capacity - 1) /\ e = Old(k, p)
  BY <1>1, <1>2, <1>3 DEF e
<1>9. /\ pool'[e].key \notin Keys
      /\ \A d \in 1..(capacity - 1) : d # e => pool'[d] = pool[d]
  BY <1>2, <1>7, <1>8, KeysAssumption DEF DeadEntry
<1>10. ASSUME NEW l \in Keys, NEW q \in Probes
       PROVE  /\ q \in Matches(l)' <=> q \in Matches(l) /\ Old(l, q) # e
              /\ q \in Matches(l)' => pool'[Old(l, q)] = pool[Old(l, q)]
  <2>1. Old(l, q) \in 0..(capacity - 1)
    BY <1>1
  <2>2. CASE Old(l, q) = e
    BY <1>4, <1>9, <2>2
  <2>3. CASE Old(l, q) # e
    <3>1. Old(l, q) # 0 => pool'[Old(l, q)] = pool[Old(l, q)]
      BY <1>2, <1>9, <2>1, <2>3
    <3>2. QED
      BY <1>4, <2>3, <3>1
  <2>4. QED
    BY <2>2, <2>3
<1>11. ASSUME NEW l \in Keys, l # k PROVE Versions(l)' = Versions(l)
  <2>1. \A q \in Matches(l) : q \in Probes /\ Old(l, q) # e
    BY <1>3, <1>4, <1>11
  <2>a. Matches(l)' \subseteq Probes
    BY <1>4
  <2>2. Matches(l)' = Matches(l)
    BY <1>10, <2>1, <2>a
  <2>3. ASSUME NEW q \in Matches(l)
        PROVE  /\ IndexAt(table', tableSize', l, q) = Old(l, q)
               /\ pool'[Old(l, q)].value = pool[Old(l, q)].value
    BY <1>6, <1>10, <2>1, <2>2, Zenon
  <2>4. QED
    BY <2>2, <2>3, SameVersions DEF Old
<1>12. Versions(k)' = Tail(Versions(k))
  <2>1. IsFirst(p, Firsts(k)) /\ Tail(Versions(k)) = Read(Firsts(k) \ {p}, At(k))
    BY NewestVersion, Zenon
  <2>2. ASSUME NEW q \in Firsts(k)' PROVE q \in Firsts(k) \ {p}
    <3>1. q \in Matches(k)' /\ q \in Matches(k) /\ q \in Probes /\ Old(k, q) # e
      BY <1>4, <1>5, <1>10
    <3>2. ASSUME NEW r \in Matches(k), Old(k, r) = Old(k, q) PROVE r = q \/ Before(q, r)
      <4>1. r \in Probes /\ r \in Matches(k)'
        BY <1>4, <1>10, <3>1, <3>2
      <4>2. QED
        BY <1>5, <2>2, <3>2, <4>1, SMTT(30)
    <3>3. QED
      BY <1>5, <1>8, <3>1, <3>2
  <2>3. ASSUME NEW q \in Firsts(k) \ {p} PROVE q \in Firsts(k)'
    <3>1. q \in Matches(k) /\ q \in Probes /\ q # p
      BY <1>4, <1>5
    <3>2. Old(k, q) # e
      <4>1. SUFFICES ASSUME Old(k, q) = e PROVE FALSE
        OBVIOUS
      <4>2. p = q \/ Before(q, p)
        BY <1>3, <1>5, <1>8, <2>3, <4>1
      <4>3. Before(p, q)
        BY <3>1 DEF IsFirst
      <4>4. QED
        BY <3>1, <4>2, <4>3, ProbeOrder
    <3>3. q \in Matches(k)'
      BY <1>10, <3>1, <3>2
    <3>4. ASSUME NEW r \in Matches(k)', Old(k, r) = Old(k, q) PROVE r = q \/ Before(q, r)
      <4>1. r \in Matches(k)
        BY <1>4, <1>10
      <4>2. QED
        BY <1>5, <2>3, <3>4, <4>1
    <3>5. QED
      BY <1>5, <3>3, <3>4
  <2>4. Firsts(k)' = Firsts(k) \ {p}
    BY <2>2, <2>3, SMTT(30)
  <2>5. ASSUME NEW q \in Firsts(k)' PROVE At(k)[q] = At(k)'[q]
    <3>1. q \in Matches(k)' /\ q \in Probes
      BY <1>4, <1>5
    <3>2. QED
      BY <1>6, <1>10, <3>1
  <2>6. Read(Firsts(k)', At(k)) = Read(Firsts(k)', At(k)')
    BY <2>5, VersionsRead, ReadSame
  <2>7. Versions(k)' = Read(Firsts(k)', At(k)')
    BY VersionsRead
  <2>8. QED
    BY <2>1, <2>4, <2>6, <2>7, Zenon
<1>13. QED
  BY <1>11, <1>12

\* del() is Del.
LEMMA DelMaps ==
    ASSUME TypeOK, NEW k \in Keys, Del(k)
    PROVE  VM!Del(k)
<1> DEFINE all == [l \in Keys |-> Versions(l)]
<1>1. UNCHANGED <<table, tableSize>>
  BY DEF Del
<1>2. all[k] = Versions(k)
  OBVIOUS
<1>3. ASSUME NEW p \in Probes, IsFirst(p, Matches(k)),
             pool' = [pool EXCEPT ![IndexAt(table, tableSize, k, p)] = DeadEntry],
             ret' = Result("del", k, NoValue, TRUE)
      PROVE  VM!Del(k)
  <2>1. all[k] # << >>
    BY <1>2, <1>3, NewestVersion, Zenon
  <2>2. all' = [all EXCEPT ![k] = Tail(all[k])]
    BY <1>1, <1>2, <1>3, DelVersions, OneStack, ZenonT(30)
  <2> HIDE DEF all
  <2>3. all' = [all EXCEPT ![k] = IF @ = << >> THEN @ ELSE Tail(@)]
    BY <2>1, <2>2
  <2>4. QED
    BY <1>3, <2>1, <2>3, Zenon DEF VM!Del, VM!Result, Result, all
<1>4. CASE Matches(k) = {} /\ ret' = Result("del", k, NoValue, FALSE) /\ UNCHANGED pool
  <2>1. all[k] = << >>
    BY <1>2, <1>4, NoVersion
  <2>2. all' = [all EXCEPT ![k] = all[k]]
    <3>1. \A l \in Keys : Versions(l)' = Versions(l)
      BY <1>1, <1>4, SameVersions DEF Matches
    <3>2. QED
      BY <1>2, <3>1, OneStack
  <2> HIDE DEF all
  <2>3. all' = [all EXCEPT ![k] = IF @ = << >> THEN @ ELSE Tail(@)]
    BY <2>1, <2>2
  <2>4. QED
    BY <1>4, <2>1, <2>3, Zenon DEF VM!Del, VM!Result, Result, all
<1>5. QED
  BY <1>3, <1>4, Zenon DEF Del

\* The entries of a key in the new table were all in the old one, so a resize()
\* makes no version up and shows none twice.
LEMMA ReorganisedVersions ==
    ASSUME IInv, Placement, FinishResize, NEW k \in Keys
    PROVE  VM!TakenFrom(Versions(k)', Versions(k))
<1> DEFINE Old(q) == IndexAt(table, tableSize, k, q)
           New(q) == IndexAt(newTable, newTableSize, k, q)
           s == InOrder(Firsts(k))
           t == InOrder(Firsts(k)')
           n == Cardinality(Firsts(k))
           m == Cardinality(Firsts(k)')
<1>1. /\ pc = "migrate" /\ table' = newTable /\ tableSize' = newTableSize /\ pool' = pool
  BY DEF FinishResize
<1>2. /\ newTableSize \in Nat \ {0} /\ newTable \in Table(newTableSize, capacity)
      /\ capacity \in Nat \ {0} /\ pool \in [1..(capacity - 1) -> Entry]
  <2>1. TypeOK /\ tableSize < newTableSize
    BY <1>1, SMTT(30) DEF IInv, SizesAgree
  <2>2. QED
    BY <2>1 DEF TypeOK
<1>3. /\ Matches(k) = {q \in Probes : Old(q) # 0 /\ pool[Old(q)].key = k}
      /\ Matches(k)' = {q \in Probes : New(q) # 0 /\ pool[New(q)].key = k}
      /\ Firsts(k) = {r \in Matches(k) : \A q \in Matches(k) :
                         Old(q) = Old(r) => q = r \/ Before(r, q)}
      /\ Firsts(k)' = {r \in Matches(k)' : \A q \in Matches(k)' :
                         New(q) = New(r) => q = r \/ Before(r, q)}
  BY <1>1 DEF Matches, Firsts
<1>4. /\ n \in Nat /\ s \in [1..n -> Firsts(k)] /\ Lists(s, Firsts(k))
      /\ m \in Nat /\ t \in [1..m -> Firsts(k)'] /\ Lists(t, Firsts(k)')
  BY VersionsRead, InOrderLists, ProbesFinite
<1>5. /\ Versions(k) = [i \in 1..n |-> pool[Old(s[i])].value]
      /\ Versions(k)' = [i \in 1..m |-> pool[New(t[i])].value]
  BY <1>1, <1>4 DEF Versions
<1>6. ASSUME NEW q \in Matches(k)'
      PROVE  \E r \in Matches(k) : Old(r) = New(q)
  <2> DEFINE e == New(q)
  <2>1. q \in Probes /\ e # 0 /\ pool[e].key = k /\ e \in 0..(capacity - 1)
    BY <1>2, <1>3, <1>6, IndexAtType, SMTT(30)
  <2>2. Holds(newTable, e)
    BY <1>2, <2>1, ProbeInTable DEF Table, Holds, IndexAt
  <2> HIDE DEF e
  <2>3. e \in DOMAIN pool /\ Live(e)
    BY <1>2, <2>1, KeysAssumption DEF Live
  <2>4. WellPlaced(table, tableSize, e)
    BY <1>1, <2>2, <2>3 DEF Placement
  <2>5. PICK r \in Probes : IndexAt(table, tableSize, k, r) = e
    BY <2>1, <2>4 DEF WellPlaced
  <2>6. r \in Matches(k)
    BY <1>3, <2>1, <2>5
  <2>7. QED
    BY <2>5, <2>6 DEF e
<1> HIDE DEF Old, New, s, t, n, m
<1>7. ASSUME NEW i \in 1..m PROVE \E j \in 1..n : Old(s[j]) = New(t[i])
  <2>1. t[i] \in Matches(k)'
    BY <1>3, <1>4
  <2> DEFINE R == {r \in Matches(k) : Old(r) = New(t[i])}
  <2>2. R \in SUBSET Probes /\ R # {}
    BY <1>3, <1>6, <2>1
  <2>3. PICK r \in R : IsFirst(r, R)
    <3> HIDE DEF R
    <3>1. QED
      BY <2>2, FirstProbe
  <2>4. r \in Firsts(k)
    BY <1>3, <2>3 DEF IsFirst
  <2>5. PICK j \in 1..n : r = s[j]
    BY <1>4, <2>4 DEF Lists
  <2>6. QED
    BY <2>5
<1> DEFINE f == [i \in 1..m |-> CHOOSE j \in 1..n : Old(s[j]) = New(t[i])]
<1>8. \A i \in 1..m : f[i] \in 1..n /\ Old(s[f[i]]) = New(t[i])
  BY <1>7
<1>9. f \in [1..m -> 1..n]
  BY <1>8
<1> HIDE DEF f
<1>10. ASSUME NEW i \in 1..m, NEW j \in 1..m, f[i] = f[j] PROVE i = j
  <2>1. New(t[i]) = New(t[j])
    BY <1>8, <1>10
  <2>2. t[i] \in Firsts(k)' /\ t[j] \in Firsts(k)'
    BY <1>4
  <2>3. /\ t[i] \in Matches(k)' /\ t[j] \in Matches(k)'
        /\ t[i] \in Probes /\ t[j] \in Probes
    BY <1>3, <2>2
  <2>4. t[i] = t[j]
    <3>1. t[j] = t[i] \/ Before(t[i], t[j])
      BY <1>3, <2>1, <2>2, <2>3
    <3>2. t[i] = t[j] \/ Before(t[j], t[i])
      BY <1>3, <2>1, <2>2, <2>3
    <3>3. QED
      BY <2>3, <3>1, <3>2, ProbeOrder
  <2>5. ~Before(t[i], t[j]) /\ ~Before(t[j], t[i])
    BY <2>3, <2>4, ProbeOrder
  <2>6. ~(i < j) /\ ~(j < i)
    BY <1>4, <2>5 DEF Lists
  <2>7. QED
    BY <1>4, <2>6
<1>11. m <= n
  <2>1. f \in Injection(1..m, 1..n)
    BY <1>9, <1>10 DEF Injection, IsInjective
  <2>2. /\ IsFiniteSet(1..n) /\ Cardinality(1..n) = n
        /\ IsFiniteSet(1..m) /\ Cardinality(1..m) = m
    BY <1>4, FS_Interval
  <2>3. QED
    <3>1. Cardinality(1..m) <= Cardinality(1..n)
      BY <2>1, <2>2, FS_Injection
    <3>2. QED
      BY <2>2, <3>1
<1>12. /\ DOMAIN Versions(k) = 1..n /\ Len(Versions(k)) = n
       /\ DOMAIN Versions(k)' = 1..m /\ Len(Versions(k)') = m
  BY <1>4, <1>5
<1>13. \A i \in 1..m : Versions(k)'[i] = Versions(k)[f[i]]
  BY <1>5, <1>8
<1>14. QED
  BY <1>9, <1>10, <1>11, <1>12, <1>13, SMTT(30) DEF VM!TakenFrom

\* The end of a resize, where the new table takes the old one's place, is
\* Reorganise.
LEMMA FinishResizeMaps ==
    ASSUME IInv, Placement, FinishResize
    PROVE  VM!Reorganise
<1> DEFINE all == [l \in Keys |-> Versions(l)]
<1>1. ret' = ret
  BY DEF FinishResize
<1>2. DOMAIN all' = Keys
  OBVIOUS
<1>3. ASSUME NEW k \in Keys PROVE VM!TakenFrom(all'[k], all[k])
  <2>1. all'[k] = Versions(k)' /\ all[k] = Versions(k)
    OBVIOUS
  <2>2. QED
    BY <2>1, ReorganisedVersions
<1> HIDE DEF all
<1>4. QED
  BY <1>1, <1>2, <1>3 DEF VM!Reorganise, all

\* The steps of a resize() before its last one are not seen by a caller.
LEMMA ResizeStutters ==
    ASSUME IInv, \/ \E k \in Keys, v \in Values : Resize(k, v)
                 \/ ResizeThrows \/ MigrateEntry \/ UNCHANGED vars
    PROVE  UNCHANGED VM!vars
<1>1. UNCHANGED <<table, tableSize, ret>>
  BY Zenon DEF Resize, ResizeThrows, MigrateEntry, vars, storeVars
<1>2. ASSUME NEW e \in 1..(capacity - 1) PROVE pool'[e] = pool[e]
  <2>1. CASE \E k \in Keys, v \in Values : Resize(k, v)
    <3>1. PICK k \in Keys, v \in Values : Resize(k, v)
      BY <2>1
    <3> DEFINE size == IF UsePrimeNumbers THEN Primes[popped + 1] ELSE tableSize * 2
    <3>2. /\ pc = "idle" /\ UsePrimeNumbers => popped < Len(Primes)
          /\ pool' = [d \in 1..(size - 1) |-> IF d < capacity THEN pool[d] ELSE DeadEntry]
      BY <3>1, SMTT(30) DEF Resize
    <3>3. size \in Nat /\ capacity < size /\ capacity \in Nat
      BY <3>1, NextSizeGrows, SMTT(30) DEF IInv, TypeOK, Resize
    <3> HIDE DEF size
    <3>4. QED
      BY <1>2, <3>2, <3>3
  <2>2. CASE ResizeThrows \/ MigrateEntry \/ UNCHANGED vars
    BY <2>2, ZenonT(30) DEF ResizeThrows, MigrateEntry, vars, storeVars
  <2>3. QED
    BY <2>1, <2>2
<1>3. ASSUME NEW k \in Keys PROVE Versions(k)' = Versions(k)
  <2> DEFINE Old(q) == IndexAt(table, tableSize, k, q)
  <2>1. ASSUME NEW q \in Probes
        PROVE  /\ Old(q) # 0 => pool'[Old(q)] = pool[Old(q)]
               /\ IndexAt(table', tableSize', k, q) = Old(q)
    <3>1. Old(q) \in 0..(capacity - 1) /\ capacity \in Nat
      BY IndexAtType, SMTT(30) DEF IInv, TypeOK
    <3>2. QED
      BY <1>1, <1>2, <3>1, SMTT(30)
  <2>2. Matches(k)' = Matches(k) /\ \A q \in Matches(k) : q \in Probes /\ Old(q) # 0
    BY <2>1, Zenon DEF Matches
  <2>3. QED
    BY <2>1, <2>2, SameVersions, ZenonT(30)
<1>4. [k \in Keys |-> Versions(k)]' = [k \in Keys |-> Versions(k)]
  BY <1>3
<1>5. QED
  BY <1>1, <1>4, SMTT(30) DEF VM!vars

\* An empty store has no versions.
LEMMA InitMaps == Init => VM!Init
<1> SUFFICES ASSUME Init PROVE VM!Init
  OBVIOUS
<1>1. ASSUME NEW k \in Keys PROVE Versions(k) = << >>
  <2>1. ASSUME NEW p \in Probes PROVE IndexAt(table, tableSize, k, p) = 0
    BY ProbeInTable, SizesAssumption DEF Init, IndexAt, EmptyTable
  <2>2. Matches(k) = {}
    BY <2>1 DEF Matches
  <2>3. QED
    BY <2>2, NoVersion
<1>2. QED
  BY <1>1 DEF Init, VM!Init, VM!Result, Result

\* Every step of the store is a step of VersionedMap or leaves it as it is.
LEMMA NextMaps == IInv /\ Placement /\ [Next]_vars => [VM!Next]_(VM!vars)
<1> SUFFICES ASSUME IInv, Placement, [Next]_vars PROVE [VM!Next]_(VM!vars)
  OBVIOUS
<1>1. TypeOK /\ FreeListSound /\ ControlAgrees
  BY DEF IInv
<1>2. ASSUME NEW k \in Keys, NEW v \in Values, Place(k, v) PROVE VM!Next
  BY <1>1, <1>2, PlaceMaps DEF VM!Next
<1>3. ASSUME NEW k \in Keys, NEW v \in Values, Set(k, v) PROVE VM!Next
  BY <1>2, <1>3 DEF Set
<1>4. CASE FinishSet
  <2>1. arg[1] \in Keys /\ arg[2] \in Values /\ Place(arg[1], arg[2])
    BY <1>1, <1>4 DEF FinishSet, ControlAgrees
  <2>2. QED
    BY <1>2, <2>1
<1>5. CASE FinishResize
  BY <1>5, FinishResizeMaps DEF VM!Next
<1>6. ASSUME NEW k \in Keys, Get(k) \/ Del(k) PROVE VM!Next
  BY <1>1, <1>6, GetMaps, DelMaps DEF VM!Next
<1>7. CASE \/ \E k \in Keys, v \in Values : Resize(k, v)
           \/ ResizeThrows \/ MigrateEntry \/ UNCHANGED vars
  BY <1>7, ResizeStutters
<1>8. QED
  BY <1>3, <1>4, <1>5, <1>6, <1>7 DEF Next

\* The store implements a map with versions: set() covers or replaces the newest
\* version of its key, get() reads it, del() takes it away and a resize() may
\* reorder or drop versions, for every hash function, table size, bucket size
\* and number of attempts; stale slots and reused entries never show.
THEOREM StoreRefinesVersionedMap == Spec => RefinesVersionedMap
<1>1. QED
  BY InitMaps, NextMaps, Invariance, PlacementHolds, PTL
     DEF Spec, RefinesVersionedMap, VM!Spec
=============================================================================
