------------------------- MODULE ConversationProofs -------------------------
(***************************************************************************)
(* That a client gets the answers to its own requests, and that the stream *)
(* holds just what is pending, for every number of requests and every room *)
(* on the socket.                                                          *)
(*                                                                         *)
(* The proof follows the pieces.  The lemmas of the first part are about   *)
(* the operators of the server: its loop over the iovecs leaves what it    *)
(* did not send, the requests of a batch are consecutive, and their iovecs *)
(* hold their replies in order.  The second part takes the invariant IInv  *)
(* of Conversation through every step of the client and of the server.     *)
(***************************************************************************)
EXTENDS Conversation, SequenceTheorems, WellFoundedInduction, TLAPS

-----------------------------------------------------------------------------
\* Induction over the natural numbers, for sets of them, and with it what a
\* recursive function f[i \in 0..n] == IF i = 0 THEN b ELSE ... f[i - 1] needs to
\* be reasoned about: that a function with these values exists.

\* A set that holds 0, and with a number the next one, holds all of them.
LEMMA SetInduction ==
    ASSUME NEW S \in SUBSET Nat, 0 \in S, \A n \in S : n + 1 \in S
    PROVE  \A n \in Nat : n \in S
<1>. DEFINE R == OpToRel(<, Nat)
            T == Nat \ S
<1>1. SUFFICES ASSUME T # {} PROVE FALSE
    OBVIOUS
<1>2. IsWellFoundedOn(R, Nat)
    BY NatLessThanWellFounded, Zenon
<1>. HIDE DEF R
<1>3. \E x \in T : \A y \in T : ~ (<<y, x>> \in R)
    BY <1>1, <1>2, WFMin, Zenon
<1>4. PICK x \in T : \A y \in T : ~ (<<y, x>> \in R)
    BY <1>3
<1>5. x # 0 /\ x - 1 \in Nat
    OBVIOUS
<1>6. x - 1 \in T
    BY <1>5
<1>7. <<x - 1, x>> \in R
    BY <1>5 DEF R, OpToRel
<1>. QED BY <1>4, <1>6, <1>7

\* g applies the steps of H one after the other, beginning with b.
Iterates(g, S, b, H, n) ==
    /\ g \in [0..n -> S]
    /\ g[0] = b
    /\ \A i \in 1..n : g[i] = H[i][g[i - 1]]

\* Steps that stay in a set can be applied one after the other.
LEMMA Recursion ==
    ASSUME NEW S, NEW b \in S, NEW H \in [Nat -> [S -> S]], NEW n \in Nat
    PROVE  \E g : Iterates(g, S, b, H, n)
<1>. DEFINE T == {m \in Nat : \E g : Iterates(g, S, b, H, m)}
<1>1. 0 \in T
  <2>. DEFINE g == [i \in 0..0 |-> b]
  <2>1. Iterates(g, S, b, H, 0)
    BY DEF Iterates
  <2>. QED BY <2>1
<1>2. ASSUME NEW m \in T PROVE m + 1 \in T
  <2>1. PICK g : Iterates(g, S, b, H, m)
    OBVIOUS
  <2>. DEFINE h == [i \in 0..(m + 1) |-> IF i <= m THEN g[i] ELSE H[m + 1][g[m]]]
  <2>2. h \in [0..(m + 1) -> S]
    BY <2>1 DEF Iterates
  <2>3. h[0] = b
    BY <2>1 DEF Iterates
  <2>4. ASSUME NEW i \in 1..(m + 1)
        PROVE  h[i] = H[i][h[i - 1]]
    <3>1. i - 1 \in 0..(m + 1) /\ i - 1 <= m /\ i \in 0..(m + 1)
      OBVIOUS
    <3>2. h[i - 1] = g[i - 1]
      BY <3>1
    <3>3. CASE i <= m
      BY <2>1, <3>1, <3>2, <3>3 DEF Iterates
    <3>4. CASE i = m + 1
      <4>1. h[i] = H[m + 1][g[m]] /\ i - 1 = m
        BY <3>1, <3>4
      <4>. QED BY <3>2, <3>4, <4>1
    <3>. QED BY <3>3, <3>4
  <2>. HIDE DEF h
  <2>5. m + 1 \in Nat /\ Iterates(h, S, b, H, m + 1)
    BY <2>2, <2>3, <2>4 DEF Iterates
  <2>. QED BY <2>5
<1>3. n \in T
    BY <1>1, <1>2, SetInduction, Zenon
<1>. QED BY <1>3

-----------------------------------------------------------------------------
\* Sequences of pieces.

LEMMA SameSeq ==
    ASSUME NEW P, NEW s \in Seq(P), NEW t \in Seq(P), NEW n, Len(s) = n, Len(t) = n,
           \A i \in 1..n : s[i] = t[i]
    PROVE  s = t
BY SeqEqual

LEMMA ConcatSize ==
    ASSUME NEW P, NEW s \in Seq(P), NEW t \in Seq(P)
    PROVE  /\ s \o t \in Seq(P) /\ Len(s \o t) = Len(s) + Len(t)
           /\ Len(s) \in Nat /\ Len(t) \in Nat
BY ConcatProperties

\* Concatenation under a name of its own, so that it can be regrouped.
Cat(s, t) == s \o t

LEMMA CatAssociative ==
    ASSUME NEW P, NEW s \in Seq(P), NEW t \in Seq(P), NEW u \in Seq(P)
    PROVE  Cat(Cat(s, t), u) = Cat(s, Cat(t, u))
BY ConcatAssociative DEF Cat

LEMMA Regroup ==
    ASSUME NEW P, NEW s \in Seq(P), NEW t \in Seq(P), NEW u \in Seq(P),
           NEW w, Cat(t, u) = w
    PROVE  Cat(Cat(s, t), u) = Cat(s, w)
BY CatAssociative

\* What is left of a sequence after its first n elements.
LEMMA RestFacts ==
    ASSUME NEW P, NEW s \in Seq(P), NEW n \in 0..Len(s)
    PROVE  /\ Rest(s, n) \in Seq(P)
           /\ Len(Rest(s, n)) = Len(s) - n
           /\ \A i \in 1..(Len(s) - n) : Rest(s, n)[i] = s[n + i]
<1>1. \A i \in (n + 1)..Len(s) : s[i] \in P
    BY ElementOfSeq
<1>2. Rest(s, n) \in Seq(P) /\ Len(Rest(s, n)) = Len(s) - n
    BY <1>1, SubSeqProperties DEF Rest
<1>3. ASSUME NEW i \in 1..(Len(s) - n) PROVE Rest(s, n)[i] = s[n + i]
    BY <1>1, SubSeqProperties DEF Rest
<1>. QED BY <1>2, <1>3

LEMMA PrefixFacts ==
    ASSUME NEW P, NEW s \in Seq(P), NEW n \in 0..Len(s)
    PROVE  /\ SubSeq(s, 1, n) \in Seq(P)
           /\ Len(SubSeq(s, 1, n)) = n
           /\ \A i \in 1..n : SubSeq(s, 1, n)[i] = s[i]
<1>1. \A i \in 1..n : s[i] \in P
    BY ElementOfSeq
<1>. QED BY <1>1, SubSeqProperties

\* A sequence is its first n elements and the rest.
LEMMA PrefixRest ==
    ASSUME NEW P, NEW s \in Seq(P), NEW n \in 0..Len(s)
    PROVE  SubSeq(s, 1, n) \o Rest(s, n) = s
<1>1. Len(s) \in Nat /\ 1 \in 1..(Len(s) + 1) /\ n \in (1 - 1)..Len(s) /\ Len(s) \in n..Len(s)
    OBVIOUS
<1>2. SubSeq(s, 1, n) \o SubSeq(s, n + 1, Len(s)) = SubSeq(s, 1, Len(s))
    BY <1>1, ConcatAdjacentSubSeq, Zenon
<1>. QED BY <1>2, SubSeqFull, Zenon DEF Rest

LEMMA RestNothing ==
    ASSUME NEW P, NEW s \in Seq(P)
    PROVE  Rest(s, 0) = s /\ Rest(s, Len(s)) = <<>>
BY SubSeqFull, SubSeqEmpty DEF Rest

\* Dropping elements of a concatenation, within its first part or beyond.
LEMMA RestConcat ==
    ASSUME NEW P, NEW s \in Seq(P), NEW t \in Seq(P), NEW n \in Nat,
           n <= Len(s) + Len(t)
    PROVE  /\ n <= Len(s) => Rest(s \o t, n) = Rest(s, n) \o t
           /\ n >= Len(s) => Rest(s \o t, n) = Rest(t, n - Len(s))
<1>. DEFINE w == s \o t
<1>1. /\ w \in Seq(P) /\ Len(w) = Len(s) + Len(t)
      /\ Len(s) \in Nat /\ Len(t) \in Nat
      /\ \A i \in 1..(Len(s) + Len(t)) : w[i] = IF i <= Len(s) THEN s[i] ELSE t[i - Len(s)]
    BY ConcatProperties
<1>. HIDE DEF w
<1>2. /\ Rest(w, n) \in Seq(P)
      /\ Len(Rest(w, n)) = Len(s) + Len(t) - n
      /\ \A i \in 1..(Len(s) + Len(t) - n) : Rest(w, n)[i] = w[n + i]
  <2>1. n \in 0..Len(w)
    BY <1>1
  <2>2. /\ Rest(w, n) \in Seq(P)
        /\ Len(Rest(w, n)) = Len(w) - n
        /\ \A i \in 1..(Len(w) - n) : Rest(w, n)[i] = w[n + i]
    BY <1>1, <2>1, RestFacts, SMTT(30)
  <2>. QED BY <1>1, <2>2
<1>3. CASE n <= Len(s)
  <2>. DEFINE r == Rest(s, n)
  <2>1. /\ r \in Seq(P) /\ Len(r) = Len(s) - n
        /\ \A i \in 1..(Len(s) - n) : r[i] = s[n + i]
    <3>1. n \in 0..Len(s)
      BY <1>1, <1>3
    <3>. QED BY <3>1, RestFacts
  <2>. HIDE DEF r
  <2>. DEFINE v == r \o t
  <2>2. /\ v \in Seq(P) /\ Len(v) = Len(r) + Len(t)
        /\ \A i \in 1..(Len(r) + Len(t)) : v[i] = IF i <= Len(r) THEN r[i] ELSE t[i - Len(r)]
    BY <2>1, ConcatProperties, Zenon
  <2>. HIDE DEF v
  <2>3. ASSUME NEW i \in 1..(Len(s) + Len(t) - n)
        PROVE  Rest(w, n)[i] = v[i]
    <3>1. /\ n + i \in 1..(Len(s) + Len(t))
          /\ n + i <= Len(s) <=> i <= Len(s) - n
          /\ (n + i) - Len(s) = i - (Len(s) - n)
      BY <1>1, <1>3
    <3>2. Rest(w, n)[i] = IF n + i <= Len(s) THEN s[n + i] ELSE t[(n + i) - Len(s)]
      BY <1>1, <1>2, <3>1
    <3>3. i \in 1..(Len(r) + Len(t))
      BY <1>1, <2>1
    <3>4. v[i] = IF i <= Len(s) - n THEN r[i] ELSE t[i - (Len(s) - n)]
      BY <2>1, <2>2, <3>3
    <3>5. i <= Len(s) - n => r[i] = s[n + i]
      BY <1>1, <2>1
    <3>. QED BY <3>1, <3>2, <3>4, <3>5
  <2>4. Rest(w, n) = v
    <3>1. Len(v) = Len(s) + Len(t) - n
      BY <1>1, <2>1, <2>2
    <3>. QED BY <1>2, <2>2, <2>3, <3>1, SameSeq, Zenon
  <2>5. n >= Len(s) => v = Rest(t, n - Len(s))
    <3>1. SUFFICES ASSUME n = Len(s) PROVE v = Rest(t, 0)
      BY <1>1, <1>3
    <3>2. r = <<>>
      BY <3>1, RestNothing DEF r
    <3>. QED BY <3>2, RestNothing, ConcatEmptySeq DEF v
  <2>. QED BY <2>4, <2>5 DEF v, w, r
<1>4. CASE n > Len(s)
  <2>. DEFINE r == Rest(t, n - Len(s))
  <2>1. n - Len(s) \in 0..Len(t)
    BY <1>1, <1>4
  <2>2. /\ r \in Seq(P)
        /\ Len(r) = Len(t) - (n - Len(s))
        /\ \A i \in 1..(Len(t) - (n - Len(s))) : r[i] = t[(n - Len(s)) + i]
    BY <2>1, RestFacts, Zenon
  <2>. HIDE DEF r
  <2>3. ASSUME NEW i \in 1..(Len(s) + Len(t) - n)
        PROVE  Rest(w, n)[i] = r[i]
    <3>1. /\ n + i \in 1..(Len(s) + Len(t))
          /\ ~ (n + i <= Len(s))
          /\ (n + i) - Len(s) = (n - Len(s)) + i
          /\ i \in 1..(Len(t) - (n - Len(s)))
      BY <1>1, <1>4
    <3>. QED BY <1>1, <1>2, <2>2, <3>1
  <2>4. Rest(w, n) = r
    <3>1. Len(r) = Len(s) + Len(t) - n
      BY <1>1, <2>2
    <3>. QED BY <1>2, <2>2, <2>3, <3>1, SameSeq, SMTT(30)
  <2>. QED BY <1>1, <1>4, <2>4 DEF w, r
<1>. QED BY <1>1, <1>3, <1>4 DEF w

-----------------------------------------------------------------------------
\* The server's iovecs.

\* The recursion that gathers the pieces of the iovecs, unfolded.
LEMMA PiecesFromSteps ==
    ASSUME NEW P, NEW vecs \in Seq(Seq(P))
    PROVE  \E f \in [0..Len(vecs) -> Seq(P)] :
              /\ f[0] = <<>>
              /\ \A j \in 1..Len(vecs) : f[j] = vecs[Len(vecs) + 1 - j] \o f[j - 1]
              /\ \A i : Server!PiecesFrom(vecs, i) = f[Len(vecs) + 1 - i]
<1>. DEFINE n == Len(vecs)
            S == Seq(P)
            b == <<>>
            Step(j, s) == vecs[n + 1 - j] \o s
            H == [j \in Nat |-> [s \in S |-> IF j \in 1..n THEN Step(j, s) ELSE s]]
            Eq(f) == f = [j \in 0..n |->
                            IF j = 0 THEN <<>> ELSE vecs[n + 1 - j] \o f[j - 1]]
            f == CHOOSE g : Eq(g)
<1>1. n \in Nat /\ b \in S
    OBVIOUS
<1>2. ASSUME NEW j \in 1..n, NEW s \in S PROVE Step(j, s) \in S
  <2>1. n + 1 - j \in 1..n
    BY <1>1
  <2>2. vecs[n + 1 - j] \in S
    BY <2>1, ElementOfSeq
  <2>. QED BY <2>2, ConcatProperties
<1>3. \A i : Server!PiecesFrom(vecs, i) = f[n + 1 - i]
    BY DEF Server!PiecesFrom
<1>. HIDE DEF n, S, Step
<1>4. H \in [Nat -> [S -> S]]
    BY <1>2
<1>5. \A j \in 1..n, s \in S : H[j][s] = Step(j, s)
    BY <1>1
<1>6. PICK g : Iterates(g, S, b, H, n)
  <2>. HIDE DEF H, b
  <2>. QED BY <1>1, <1>4, Recursion, Zenon
<1>. HIDE DEF H
<1>7. Eq(g)
  <2>1. ASSUME NEW j \in 1..n PROVE g[j] = Step(j, g[j - 1])
    <3>1. g[j] = H[j][g[j - 1]] /\ g[j - 1] \in S
      BY <1>1, <1>6 DEF Iterates
    <3>. QED BY <3>1, <1>5
  <2>2. ASSUME NEW j \in 0..n PROVE g[j] = IF j = 0 THEN <<>> ELSE Step(j, g[j - 1])
    <3>1. CASE j = 0
      BY <1>6, <3>1 DEF Iterates
    <3>2. CASE j # 0
      BY <1>1, <2>1, <3>2
    <3>. QED BY <3>1, <3>2
  <2>3. g \in [0..n -> S]
    BY <1>6 DEF Iterates
  <2>. QED BY <2>2, <2>3, Zenon DEF Step
<1>8. Eq(f)
  <2>. HIDE DEF Eq
  <2>. QED BY <1>7
<1>. HIDE DEF f
<1>9. f[0] = <<>> /\ \A j \in 1..n : f[j] = Step(j, f[j - 1])
  <2>1. \A j \in 0..n : f[j] = IF j = 0 THEN <<>> ELSE Step(j, f[j - 1])
    BY <1>8, Zenon DEF Step
  <2>. QED BY <2>1, <1>1
<1>10. f \in [0..n -> S]
  <2>. DEFINE T == {j \in Nat : j \in 0..n => f[j] \in S}
  <2>1. 0 \in T
    BY <1>1, <1>9
  <2>2. ASSUME NEW j \in T PROVE j + 1 \in T
    <3>1. j + 1 \in 0..n => j \in 0..n /\ j + 1 \in 1..n /\ (j + 1) - 1 = j
      BY <1>1
    <3>. QED BY <3>1, <1>9, <1>2
  <2>3. \A j \in Nat : j \in T
    <3>. HIDE DEF T
    <3>. QED BY <2>1, <2>2, SetInduction, Zenon DEF T
  <2>4. \A j \in 0..n : f[j] \in S
    BY <2>3, <1>1
  <2>. QED BY <2>4, <1>8
<1>. QED BY <1>3, <1>9, <1>10, Zenon DEF n, S, Step

\* The pieces from an iovec on are its own and those of the iovecs after it.
LEMMA PiecesFromUnfold ==
    ASSUME NEW P, NEW vecs \in Seq(Seq(P))
    PROVE  /\ Server!PiecesFrom(vecs, Len(vecs) + 1) = <<>>
           /\ \A i \in 1..Len(vecs) :
                 Server!PiecesFrom(vecs, i) = vecs[i] \o Server!PiecesFrom(vecs, i + 1)
           /\ \A i \in 1..(Len(vecs) + 1) : Server!PiecesFrom(vecs, i) \in Seq(P)
<1>1. PICK f \in [0..Len(vecs) -> Seq(P)] :
              /\ f[0] = <<>>
              /\ \A j \in 1..Len(vecs) : f[j] = vecs[Len(vecs) + 1 - j] \o f[j - 1]
              /\ \A i : Server!PiecesFrom(vecs, i) = f[Len(vecs) + 1 - i]
    BY PiecesFromSteps, Zenon
<1>2. Len(vecs) \in Nat
    OBVIOUS
<1>3. Server!PiecesFrom(vecs, Len(vecs) + 1) = <<>>
  <2>1. Len(vecs) + 1 - (Len(vecs) + 1) = 0
    BY <1>2
  <2>. QED BY <1>1, <2>1
<1>4. ASSUME NEW i \in 1..Len(vecs)
      PROVE  Server!PiecesFrom(vecs, i) = vecs[i] \o Server!PiecesFrom(vecs, i + 1)
  <2>. DEFINE j == Len(vecs) + 1 - i
  <2>1. j \in 1..Len(vecs) /\ Len(vecs) + 1 - j = i /\ Len(vecs) + 1 - (i + 1) = j - 1
    BY <1>2
  <2>2. Server!PiecesFrom(vecs, i) = f[j] /\ Server!PiecesFrom(vecs, i + 1) = f[j - 1]
    BY <1>1, <2>1, Zenon
  <2>. HIDE DEF j
  <2>3. f[j] = vecs[i] \o f[j - 1]
    BY <1>1, <2>1, Zenon
  <2>. QED BY <2>2, <2>3, Zenon
<1>5. ASSUME NEW i \in 1..(Len(vecs) + 1)
      PROVE  Server!PiecesFrom(vecs, i) \in Seq(P)
  <2>1. Len(vecs) + 1 - i \in 0..Len(vecs)
    BY <1>2
  <2>. QED BY <1>1, <2>1
<1>. QED BY <1>3, <1>4, <1>5, Zenon

\* The pieces after an iovec do not depend on it.
LEMMA PiecesFromAfter ==
    ASSUME NEW P, NEW vecs \in Seq(Seq(P)), NEW others \in Seq(Seq(P)),
           Len(others) = Len(vecs), NEW k \in 1..Len(vecs),
           \A i \in (k + 1)..Len(vecs) : others[i] = vecs[i]
    PROVE  Server!PiecesFrom(others, k + 1) = Server!PiecesFrom(vecs, k + 1)
<1>. DEFINE n == Len(vecs)
            T == {j \in Nat : j <= n - k =>
                    Server!PiecesFrom(others, n + 1 - j) = Server!PiecesFrom(vecs, n + 1 - j)}
<1>1. n \in Nat
    OBVIOUS
<1>2. 0 \in T
  <2>1. n + 1 - 0 = Len(vecs) + 1 /\ n + 1 - 0 = Len(others) + 1
    BY <1>1
  <2>2. Server!PiecesFrom(others, n + 1 - 0) = Server!PiecesFrom(vecs, n + 1 - 0)
    BY <2>1, PiecesFromUnfold, Zenon
  <2>. QED BY <2>2
<1>3. ASSUME NEW j \in T PROVE j + 1 \in T
  <2>1. SUFFICES ASSUME j + 1 <= n - k
                 PROVE  Server!PiecesFrom(others, n + 1 - (j + 1)) = Server!PiecesFrom(vecs, n + 1 - (j + 1))
    OBVIOUS
  <2>. DEFINE i == n + 1 - (j + 1)
  <2>2. i \in (k + 1)..n /\ i \in 1..n /\ n + 1 - j = i + 1
    BY <1>1, <2>1
  <2>3. Server!PiecesFrom(others, i + 1) = Server!PiecesFrom(vecs, i + 1)
    BY <1>1, <2>1, <2>2
  <2>. HIDE DEF i
  <2>4. others[i] = vecs[i]
    BY <2>2
  <2>5. /\ Server!PiecesFrom(others, i) = others[i] \o Server!PiecesFrom(others, i + 1)
        /\ Server!PiecesFrom(vecs, i) = vecs[i] \o Server!PiecesFrom(vecs, i + 1)
    BY <2>2, PiecesFromUnfold, Zenon
  <2>. QED BY <2>3, <2>4, <2>5, Zenon DEF i
<1>4. n - k \in T
  <2>1. \A j \in Nat : j \in T
    <3>. HIDE DEF T
    <3>. QED BY <1>2, <1>3, SetInduction, Zenon DEF T
  <2>2. n - k \in Nat
    BY <1>1
  <2>. QED BY <2>1, <2>2, Zenon
<1>5. n + 1 - (n - k) = k + 1
    BY <1>1
<1>. QED BY <1>1, <1>4, <1>5

\* The states of the loop that passes over what was sent, of a batch of size
\* iovecs of which rest is to remain in the end.
LoopStates(P, size, rest) ==
    {s \in [iov : Seq(Seq(P)), idx : 1..(size + 1), sent : Nat] :
        /\ Len(s.iov) = size
        /\ s.sent <= Len(Server!PiecesFrom(s.iov, s.idx))
        /\ Rest(Server!PiecesFrom(s.iov, s.idx), s.sent) = rest}

\* An iteration keeps what is to remain, and unless it is done goes on to the
\* next iovec.
LEMMA PassOverKeepsRest ==
    ASSUME NEW P, NEW size \in Nat, NEW rest, NEW s \in LoopStates(P, size, rest)
    PROVE  /\ Server!PassOver(s) \in LoopStates(P, size, rest)
           /\ \/ Server!PassOver(s).sent = 0
              \/ Server!PassOver(s).idx > size
              \/ Server!PassOver(s).idx = s.idx + 1
<1>. DEFINE vs == s.iov
            k == s.idx
            m == s.sent
            v == vs[k]
            u == Server!PiecesFrom(vs, k)
            w == Server!PiecesFrom(vs, k + 1)
<1>1. /\ vs \in Seq(Seq(P)) /\ k \in 1..(size + 1) /\ m \in Nat
      /\ Len(vs) = size /\ m <= Len(u) /\ Rest(u, m) = rest
      /\ s = [iov |-> vs, idx |-> k, sent |-> m]
    BY DEF LoopStates
<1>2. CASE m = 0 \/ k > Len(vs)
  <2>1. Server!PassOver(s) = s
    BY <1>2 DEF Server!PassOver
  <2>. QED BY <1>1, <1>2, <2>1
<1>3. CASE ~ (m = 0 \/ k > Len(vs))
  <2>1. Server!PassOver(s) = IF m >= Len(v)
                             THEN [s EXCEPT !.idx = k + 1, !.sent = m - Len(v)]
                             ELSE [s EXCEPT !.iov[k] = Server!Drop(v, m), !.sent = 0]
    BY <1>3 DEF Server!PassOver
  <2>. HIDE DEF vs, k, m
  <2>2. k \in 1..size /\ k + 1 \in 1..(size + 1) /\ size \in Nat
    BY <1>1, <1>3
  <2>3. v \in Seq(P) /\ w \in Seq(P) /\ u = v \o w
    BY <1>1, <2>2, ElementOfSeq, PiecesFromUnfold, Zenon
  <2>. HIDE DEF v, w
  <2>4. Len(u) = Len(v) + Len(w) /\ Len(v) \in Nat /\ Len(w) \in Nat
    BY <2>3, ConcatProperties
  <2>5. m <= Len(v) + Len(w)
    BY <1>1, <2>4
  <2>6. /\ m <= Len(v) => rest = Rest(v, m) \o w
        /\ m >= Len(v) => rest = Rest(w, m - Len(v))
    <3>1. rest = Rest(v \o w, m)
      BY <1>1, <2>3
    <3>. HIDE DEF u
    <3>. QED BY <1>1, <2>3, <2>5, <3>1, RestConcat, Zenon
  <2>. HIDE DEF u
  <2>7. CASE m >= Len(v)
    <3>. DEFINE t == [iov |-> vs, idx |-> k + 1, sent |-> m - Len(v)]
    <3>1. Server!PassOver(s) = t
      BY <1>1, <2>1, <2>7, Zenon
    <3>2. m - Len(v) \in Nat /\ m - Len(v) <= Len(w) /\ Rest(w, m - Len(v)) = rest
      BY <1>1, <2>4, <2>5, <2>6, <2>7
    <3>3. t \in [iov : Seq(Seq(P)), idx : 1..(size + 1), sent : Nat]
      BY <1>1, <2>2, <3>2
    <3>4. t.iov = vs /\ t.idx = k + 1 /\ t.sent = m - Len(v)
      OBVIOUS
    <3>. HIDE DEF t
    <3>5. t \in LoopStates(P, size, rest)
      BY <1>1, <3>2, <3>3, <3>4 DEF LoopStates, w
    <3>. QED BY <3>1, <3>4, <3>5 DEF k
  <2>8. CASE ~ (m >= Len(v))
    <3>. DEFINE d == Rest(v, m)
                vecs == [vs EXCEPT ![k] = d]
                t == [iov |-> vecs, idx |-> k, sent |-> 0]
    <3>1. m \in 0..Len(v) /\ m <= Len(v)
      BY <1>1, <2>4, <2>8
    <3>2. d = Server!Drop(v, m) /\ d \in Seq(P)
      BY <2>3, <3>1, RestFacts DEF Server!Drop, Rest
    <3>. HIDE DEF d
    <3>3. Server!PassOver(s) = t
      BY <1>1, <2>1, <2>8, <3>2, Zenon
    <3>4. /\ vecs \in Seq(Seq(P)) /\ Len(vecs) = size
          /\ \A j \in 1..size : vecs[j] = IF j = k THEN d ELSE vs[j]
      BY <1>1, <2>2, <3>2, ExceptSeq
    <3>. HIDE DEF vecs
    <3>5. t.iov = vecs /\ t.idx = k /\ t.sent = 0
      OBVIOUS
    <3>6. t \in [iov : Seq(Seq(P)), idx : 1..(size + 1), sent : Nat]
      BY <1>1, <3>4
    <3>. HIDE DEF t
    <3>7. Server!PiecesFrom(vecs, k) = d \o w
      <4>1. \A j \in (k + 1)..Len(vs) : vecs[j] = vs[j]
        BY <1>1, <2>2, <3>4
      <4>2. Len(vecs) = Len(vs) /\ k \in 1..Len(vs)
        BY <1>1, <2>2, <3>4
      <4>3. Server!PiecesFrom(vecs, k + 1) = w
        BY <1>1, <3>4, <4>1, <4>2, PiecesFromAfter, Zenon DEF w
      <4>4. Server!PiecesFrom(vecs, k) = vecs[k] \o Server!PiecesFrom(vecs, k + 1)
        BY <2>2, <3>4, PiecesFromUnfold, Zenon
      <4>. QED BY <2>2, <3>4, <4>3, <4>4, Zenon
    <3>8. d \o w = rest
      BY <2>6, <3>1 DEF d
    <3>. DEFINE x == d \o w
    <3>9. x \in Seq(P) /\ Len(x) \in Nat /\ 0 <= Len(x)
      BY <2>3, <3>2, ConcatProperties
    <3>10. Rest(x, 0) = rest
      BY <3>8, <3>9, RestNothing
    <3>. HIDE DEF x
    <3>11. t \in LoopStates(P, size, rest)
      <4>1. Server!PiecesFrom(t.iov, t.idx) = x
        BY <3>5, <3>7 DEF x
      <4>. QED BY <3>4, <3>5, <3>6, <3>9, <3>10, <4>1 DEF LoopStates
    <3>. QED BY <3>3, <3>5, <3>11
  <2>. QED BY <2>7, <2>8
<1>. QED BY <1>2, <1>3

\* The loop over the iovecs leaves just what was not sent of them.
LEMMA AdvanceLeavesRest ==
    ASSUME NEW P, NEW vecs \in Seq(Seq(P)), NEW first \in 1..(Len(vecs) + 1),
           NEW n \in 0..Len(Server!PiecesFrom(vecs, first))
    PROVE  /\ Server!Advance(vecs, first, n).iov \in Seq(Seq(P))
           /\ Len(Server!Advance(vecs, first, n).iov) = Len(vecs)
           /\ Server!Advance(vecs, first, n).idx \in 1..(Len(vecs) + 1)
           /\ Server!PiecesFrom(Server!Advance(vecs, first, n).iov,
                                Server!Advance(vecs, first, n).idx)
                  = Rest(Server!PiecesFrom(vecs, first), n)
<1>. DEFINE size == Len(vecs)
            rest == Rest(Server!PiecesFrom(vecs, first), n)
            S == LoopStates(P, size, rest)
            b == [iov |-> vecs, idx |-> first, sent |-> n]
            H == [k \in Nat |-> [s \in S |-> Server!PassOver(s)]]
            Eq(f) == f = [k \in 0..size |-> IF k = 0 THEN [iov |-> vecs, idx |-> first, sent |-> n]
                                            ELSE Server!PassOver(f[k - 1])]
            f == CHOOSE g : Eq(g)
<1>1. size \in Nat /\ b \in S
  <2>1. Server!PiecesFrom(vecs, first) \in Seq(P)
    BY PiecesFromUnfold, Zenon
  <2>2. Len(Server!PiecesFrom(vecs, first)) \in Nat
    BY <2>1
  <2>. QED BY <2>2 DEF LoopStates
<1>2. Server!Advance(vecs, first, n) = f[size]
    BY DEF Server!Advance
<1>. HIDE DEF size, rest, S
<1>3. ASSUME NEW s \in S
      PROVE  /\ Server!PassOver(s) \in S
             /\ \/ Server!PassOver(s).sent = 0
                \/ Server!PassOver(s).idx > size
                \/ Server!PassOver(s).idx = s.idx + 1
    BY <1>1, PassOverKeepsRest DEF S
<1>4. H \in [Nat -> [S -> S]]
    BY <1>3
<1>5. \A k \in Nat, s \in S : H[k][s] = Server!PassOver(s)
    OBVIOUS
<1>6. PICK g : Iterates(g, S, b, H, size)
  <2>. HIDE DEF H, b
  <2>. QED BY <1>1, <1>4, Recursion, Zenon
<1>. HIDE DEF H
<1>7. Eq(g)
  <2>1. ASSUME NEW k \in 1..size PROVE g[k] = Server!PassOver(g[k - 1])
    <3>1. g[k] = H[k][g[k - 1]] /\ g[k - 1] \in S
      BY <1>1, <1>6 DEF Iterates
    <3>. QED BY <3>1, <1>5
  <2>2. ASSUME NEW k \in 0..size PROVE g[k] = IF k = 0 THEN b ELSE Server!PassOver(g[k - 1])
    <3>. HIDE DEF b
    <3>1. CASE k = 0
      BY <1>6, <3>1 DEF Iterates
    <3>2. CASE k # 0
      BY <1>1, <2>1, <3>2
    <3>. QED BY <3>1, <3>2
  <2>3. g \in [0..size -> S]
    BY <1>6 DEF Iterates
  <2>. QED BY <2>2, <2>3
<1>8. Eq(f)
  <2>. HIDE DEF Eq
  <2>. QED BY <1>7
<1>. HIDE DEF f
<1>9. f[0] = b /\ \A k \in 1..size : f[k] = Server!PassOver(f[k - 1])
  <2>1. \A k \in 0..size : f[k] = IF k = 0 THEN b ELSE Server!PassOver(f[k - 1])
    BY <1>8, Zenon
  <2>. QED BY <2>1, <1>1
<1>10. b.idx = first /\ first \in Nat
    OBVIOUS
<1>. HIDE DEF b
<1>11. f[size] \in S /\ (f[size].sent = 0 \/ f[size].idx > size)
  <2>. DEFINE T == {k \in Nat : k \in 0..size =>
                      /\ f[k] \in S
                      /\ f[k].sent = 0 \/ f[k].idx > size \/ f[k].idx = first + k}
  <2>1. 0 \in T
    BY <1>1, <1>9, <1>10
  <2>2. ASSUME NEW k \in T PROVE k + 1 \in T
    <3>1. SUFFICES ASSUME k + 1 \in 0..size
                   PROVE  /\ f[k + 1] \in S
                          /\ \/ f[k + 1].sent = 0 \/ f[k + 1].idx > size
                             \/ f[k + 1].idx = first + (k + 1)
      OBVIOUS
    <3>2. k \in 0..size /\ k + 1 \in 1..size /\ (k + 1) - 1 = k
      BY <1>1, <3>1
    <3>3. f[k + 1] = Server!PassOver(f[k]) /\ f[k] \in S
      BY <1>9, <3>2
    <3>4. f[k].sent = 0 \/ f[k].idx > size => f[k + 1] = f[k]
      <4>1. Len(f[k].iov) = size
        BY <3>3 DEF S, LoopStates
      <4>. QED BY <3>3, <4>1 DEF Server!PassOver
    <3>5. f[k].sent = 0 \/ f[k].idx > size \/ f[k].idx = first + k
      BY <3>2
    <3>6. CASE f[k].idx = first + k
      <4>1. f[k].idx + 1 = first + (k + 1)
        BY <1>10, <3>2, <3>6
      <4>. QED BY <1>3, <3>3, <4>1
    <3>7. CASE f[k].sent = 0 \/ f[k].idx > size
      BY <3>3, <3>4, <3>7
    <3>. QED BY <3>5, <3>6, <3>7
  <2>3. \A k \in Nat : k \in T
    <3>. HIDE DEF T
    <3>. QED BY <2>1, <2>2, SetInduction, Zenon DEF T
  <2>4. f[size] \in S /\ (f[size].sent = 0 \/ f[size].idx > size \/ f[size].idx = first + size)
    BY <2>3, <1>1
  <2>5. f[size].idx = first + size => f[size].idx > size
    BY <1>1 DEF size
  <2>. QED BY <2>4, <2>5
<1>. DEFINE r == f[size]
<1>12. /\ r.iov \in Seq(Seq(P)) /\ Len(r.iov) = size /\ r.idx \in 1..(size + 1)
       /\ r.sent \in Nat /\ r.sent <= Len(Server!PiecesFrom(r.iov, r.idx))
       /\ Rest(Server!PiecesFrom(r.iov, r.idx), r.sent) = rest
    BY <1>11 DEF S, LoopStates
<1>13. r.sent = 0
  <2>1. CASE r.idx > size
    <3>1. r.idx = Len(r.iov) + 1
      BY <1>1, <1>12, <2>1, SMTT(30)
    <3>2. Server!PiecesFrom(r.iov, r.idx) = <<>>
      BY <1>12, <3>1, PiecesFromUnfold, Zenon
    <3>. QED BY <1>12, <3>2
  <2>. QED BY <1>11, <2>1
<1>14. Server!PiecesFrom(r.iov, r.idx) \in Seq(P)
    BY <1>12, PiecesFromUnfold, Zenon
<1>15. Server!PiecesFrom(r.iov, r.idx) = rest
    BY <1>12, <1>13, <1>14, RestNothing
<1>. QED BY <1>2, <1>12, <1>15 DEF size, rest

-----------------------------------------------------------------------------
\* The batch the server makes of what it has read.

\* The recursion that collects the requests of a batch, unfolded.
LEMMA CompletedSteps ==
    ASSUME NEW pieces \in Seq(Piece)
    PROVE  \E f \in [0..Len(pieces) -> Seq(Nat)] :
              /\ Server!Completed(pieces) = f[Len(pieces)]
              /\ f[0] = <<>>
              /\ \A i \in 1..Len(pieces) :
                    f[i] = IF pieces[i][2] = "end" THEN Append(f[i - 1], pieces[i][1])
                           ELSE f[i - 1]
<1>. DEFINE n == Len(pieces)
            S == Seq(Nat)
            b == <<>>
            Step(i, s) == IF pieces[i][2] = "end" THEN Append(s, pieces[i][1]) ELSE s
            H == [i \in Nat |-> [s \in S |-> IF i \in 1..n THEN Step(i, s) ELSE s]]
            Eq(f) == f = [i \in 0..n |->
                            IF i = 0 THEN <<>>
                            ELSE IF pieces[i][2] = "end" THEN Append(f[i - 1], pieces[i][1])
                            ELSE f[i - 1]]
            f == CHOOSE g : Eq(g)
<1>1. n \in Nat /\ b \in S
    OBVIOUS
<1>2. ASSUME NEW i \in 1..n, NEW s \in S PROVE Step(i, s) \in S
  <2>1. pieces[i][1] \in Nat
    BY ElementOfSeq DEF Piece
  <2>. QED BY <2>1, AppendProperties
<1>3. Server!Completed(pieces) = f[n]
   BY DEF Server!Completed
<1>. HIDE DEF n, S, Step
<1>4. H \in [Nat -> [S -> S]]
   BY <1>2
<1>5. \A i \in 1..n, s \in S : H[i][s] = Step(i, s)
   BY <1>1
<1>6. PICK g : Iterates(g, S, b, H, n)
   <2>. HIDE DEF H, b
   <2>. QED BY <1>1, <1>4, Recursion, Zenon
<1>. HIDE DEF H
<1>7. Eq(g)
   <2>1. ASSUME NEW i \in 1..n PROVE g[i] = Step(i, g[i - 1])
     <3>1. g[i] = H[i][g[i - 1]] /\ g[i - 1] \in S
       BY <1>1, <1>6 DEF Iterates
     <3>. QED BY <3>1, <1>5
   <2>2. ASSUME NEW i \in 0..n PROVE g[i] = IF i = 0 THEN <<>> ELSE Step(i, g[i - 1])
     <3>1. CASE i = 0
       BY <1>6, <3>1 DEF Iterates
     <3>2. CASE i # 0
       BY <1>1, <2>1, <3>2
     <3>. QED BY <3>1, <3>2
   <2>3. g \in [0..n -> S]
     BY <1>6 DEF Iterates
   <2>. QED BY <2>2, <2>3 DEF Step
<1>8. Eq(f)
  <2>. HIDE DEF Eq
  <2>. QED BY <1>7
<1>. HIDE DEF f
<1>9. f[0] = <<>> /\ \A i \in 1..n : f[i] = Step(i, f[i - 1])
  <2>1. \A i \in 0..n : f[i] = IF i = 0 THEN <<>> ELSE Step(i, f[i - 1])
    BY <1>8, Zenon DEF Step
  <2>. QED BY <2>1, <1>1
<1>10. f \in [0..n -> S]
  <2>. DEFINE T == {i \in Nat : i \in 0..n => f[i] \in S}
  <2>1. 0 \in T
     BY <1>1, <1>9
  <2>2. ASSUME NEW i \in T PROVE i + 1 \in T
     <3>1. i + 1 \in 0..n => i \in 0..n /\ i + 1 \in 1..n /\ (i + 1) - 1 = i
        BY <1>1
     <3>. QED BY <3>1, <1>9, <1>2
  <2>3. \A i \in Nat : i \in T
     <3>. HIDE DEF T
     <3>. QED BY <2>1, <2>2, SetInduction, Zenon DEF T
  <2>4. \A i \in 0..n : f[i] \in S
     BY <2>3, <1>1
  <2>. QED BY <2>4, <1>8
<1>. QED BY <1>3, <1>9, <1>10 DEF n, S, Step

LEMMA Halves ==
    ASSUME NEW m \in Nat
    PROVE  /\ m % 2 = 0 => (m + 1) \div 2 = m \div 2 /\ (m + 2) \div 2 = (m \div 2) + 1
           /\ m % 2 # 0 => (m + 2) \div 2 = (m + 1) \div 2
           /\ (m + 1) \div 2 \in Nat /\ (m + 2) \div 2 \in Nat /\ m \div 2 \in Nat
           /\ (m + 1) \div 2 <= (m + 2) \div 2
OBVIOUS

LEMMA HalvesMonotonic ==
    ASSUME NEW m \in Nat, NEW n \in Nat, m <= n
    PROVE  m \div 2 <= n \div 2 /\ n \div 2 \in Nat
OBVIOUS

\* Consecutive numbers, and one more of them.
LEMMA RunGrows ==
    ASSUME NEW base \in Nat, NEW m \in Nat
    PROVE  /\ [k \in 1..m |-> base + k] \in Seq(Nat)
           /\ Len([k \in 1..m |-> base + k]) = m
           /\ Append([k \in 1..m |-> base + k], base + m + 1) = [k \in 1..(m + 1) |-> base + k]
<1>. DEFINE s == [k \in 1..m |-> base + k]
            t == [k \in 1..(m + 1) |-> base + k]
<1>1. s \in Seq(Nat) /\ Len(s) = m /\ \A k \in 1..m : s[k] = base + k
    OBVIOUS
<1>2. t \in Seq(Nat) /\ Len(t) = m + 1 /\ \A k \in 1..(m + 1) : t[k] = base + k
    OBVIOUS
<1>. HIDE DEF s, t
<1>. DEFINE u == Append(s, base + m + 1)
<1>3. /\ u \in Seq(Nat) /\ Len(u) = m + 1
      /\ \A k \in 1..m : u[k] = s[k]
      /\ u[m + 1] = base + m + 1
    BY <1>1, AppendProperties
<1>. HIDE DEF u
<1>4. ASSUME NEW k \in 1..(m + 1) PROVE u[k] = t[k]
    BY <1>1, <1>2, <1>3
<1>5. u = t
    BY <1>2, <1>3, <1>4, SameSeq
<1>. QED BY <1>1, <1>5 DEF s, t, u

\* Of a run of the last pieces of messages, the requests whose end is among
\* the first pieces follow one another.
LEMMA CompletedMessages ==
    ASSUME NEW r \in Nat, NEW len \in Nat, (len + 1) \div 2 <= r,
           NEW pieces \in Seq(Piece), Len(pieces) <= len,
           \A i \in 1..Len(pieces) : pieces[i] = MessagesUpTo(r, len)[i]
    PROVE  /\ (len + 1) \div 2 - (len - Len(pieces) + 1) \div 2 \in Nat
           /\ Server!Completed(pieces)
                = [k \in 1..((len + 1) \div 2 - (len - Len(pieces) + 1) \div 2) |->
                      r - (len + 1) \div 2 + k]
<1>. DEFINE n == Len(pieces)
            all == (len + 1) \div 2
            c(i) == all - (len - i + 1) \div 2
            Run(m) == [k \in 1..m |-> r - all + k]
<1>1. n \in Nat /\ n <= len /\ all \in Nat /\ all <= r
    OBVIOUS
<1>2. ASSUME NEW m \in Nat
      PROVE  /\ Run(m) \in Seq(Nat) /\ Len(Run(m)) = m
             /\ Append(Run(m), r - all + m + 1) = Run(m + 1)
  <2>. HIDE DEF all
  <2>1. r - all \in Nat
    BY <1>1
  <2>. QED BY <2>1, RunGrows
<1>3. PICK f \in [0..n -> Seq(Nat)] :
              /\ Server!Completed(pieces) = f[n]
              /\ f[0] = <<>>
              /\ \A i \in 1..n : f[i] = IF pieces[i][2] = "end" THEN Append(f[i - 1], pieces[i][1])
                                        ELSE f[i - 1]
    BY CompletedSteps
<1>4. ASSUME NEW i \in 1..n
      PROVE  /\ (len - i) % 2 = 0 => /\ c(i) = c(i - 1) + 1
                                     /\ pieces[i][2] = "end"
                                     /\ pieces[i][1] = r - all + c(i - 1) + 1
             /\ (len - i) % 2 # 0 => c(i) = c(i - 1) /\ pieces[i][2] # "end"
             /\ c(i - 1) \in Nat /\ c(i) \in Nat
  <2>. DEFINE m == len - i
  <2>1. m \in Nat /\ len - i + 1 = m + 1 /\ len - (i - 1) + 1 = m + 2 /\ m + 2 <= len + 1
    BY <1>1
  <2>2. /\ m % 2 = 0 => (m + 1) \div 2 = m \div 2 /\ (m + 2) \div 2 = (m \div 2) + 1
        /\ m % 2 # 0 => (m + 2) \div 2 = (m + 1) \div 2
        /\ (m + 1) \div 2 \in Nat /\ (m + 2) \div 2 \in Nat /\ m \div 2 \in Nat
        /\ (m + 1) \div 2 <= (m + 2) \div 2
        /\ (m + 2) \div 2 <= all
    <3>. HIDE DEF m
    <3>. QED BY <2>1, Halves, HalvesMonotonic
  <2>3. i \in 1..len
    BY <1>1
  <2>4. pieces[i] = <<r - m \div 2, IF m % 2 = 0 THEN "end" ELSE "part">>
    BY <2>3, Zenon DEF MessagesUpTo
  <2>5. c(i) = all - (m + 1) \div 2 /\ c(i - 1) = all - (m + 2) \div 2
    BY <2>1
  <2>6. c(i) \in Nat /\ c(i - 1) \in Nat
    BY <2>2, <2>5, <1>1
  <2>7. CASE m % 2 = 0
    <3>1. c(i) = c(i - 1) + 1 /\ r - all + c(i - 1) + 1 = r - m \div 2
      <4>. HIDE DEF c, all, m
      <4>. QED BY <1>1, <2>2, <2>5, <2>7
    <3>. QED BY <2>4, <2>6, <2>7, <3>1
  <2>8. CASE m % 2 # 0
    BY <2>2, <2>4, <2>5, <2>6, <2>8
  <2>. QED BY <2>7, <2>8
<1>5. c(0) = 0 /\ Run(0) = <<>>
    BY <1>1
<1>. HIDE DEF c, Run
<1>6. f[n] = Run(c(n)) /\ c(n) \in Nat
  <2>. DEFINE T == {i \in Nat : i \in 0..n => c(i) \in Nat /\ f[i] = Run(c(i))}
  <2>1. 0 \in T
    BY <1>3, <1>5
  <2>2. ASSUME NEW i \in T PROVE i + 1 \in T
    <3>1. SUFFICES ASSUME i + 1 \in 0..n PROVE c(i + 1) \in Nat /\ f[i + 1] = Run(c(i + 1))
      OBVIOUS
    <3>. DEFINE j == i + 1
    <3>2. j \in 1..n /\ j - 1 = i /\ i \in 0..n
      BY <1>1, <3>1
    <3>3. f[j - 1] = Run(c(j - 1))
      BY <3>2
    <3>. HIDE DEF j
    <3>4. f[j] = IF pieces[j][2] = "end" THEN Append(Run(c(j - 1)), pieces[j][1]) ELSE Run(c(j - 1))
      BY <1>3, <3>2, <3>3
    <3>5. c(j) \in Nat /\ f[j] = Run(c(j))
      BY <1>2, <1>4, <3>2, <3>4, Zenon
    <3>. QED BY <3>5 DEF j
  <2>3. \A i \in Nat : i \in T
    <3>. HIDE DEF T
    <3>. QED BY <2>1, <2>2, SetInduction, Zenon DEF T
  <2>. QED BY <2>3, <1>1
<1>. QED BY <1>3, <1>6 DEF c, Run

-----------------------------------------------------------------------------
\* Replies that follow one another.

LEMMA Triple ==
    ASSUME NEW P, NEW a \in P, NEW b \in P, NEW c \in P
    PROVE  /\ <<a, b, c>> \in Seq(P) /\ Len(<<a, b, c>>) = 3
           /\ <<a, b, c>>[1] = a /\ <<a, b, c>>[2] = b /\ <<a, b, c>>[3] = c
OBVIOUS

LEMMA ReplyPieces ==
    ASSUME NEW r \in Nat
    PROVE  /\ Server!Reply(r) \in Seq(Piece) /\ Len(Server!Reply(r)) = 3
           /\ Server!Reply(r)[1] = <<r, "data1">>
           /\ Server!Reply(r)[2] = <<r, "data2">>
           /\ Server!Reply(r)[3] = <<r, "end">>
<1>1. <<r, "data1">> \in Piece /\ <<r, "data2">> \in Piece /\ <<r, "end">> \in Piece
    BY DEF Piece
<1>. QED BY <1>1, Triple DEF Server!Reply

LEMMA Thirds ==
    ASSUME NEW i \in Nat, NEW n \in Nat
    PROVE  /\ (3 * n + i) \div 3 = n + (i \div 3)
           /\ (3 * n + i) % 3 = i % 3
           /\ i \div 3 \in Nat /\ i % 3 \in 0..2
OBVIOUS

LEMMA ReplyPieceFacts ==
    ASSUME NEW r \in Nat, NEW i \in Nat \ {0}
    PROVE  /\ ReplyPiece(r, i) \in Piece
           /\ \A m \in Nat : ReplyPiece(r, 3 * m + i) = ReplyPiece(r + m, i)
<1>. DEFINE j == i - 1
<1>1. j \in Nat
    OBVIOUS
<1>2. ReplyPiece(r, i) \in Piece
  <2>1. r + j \div 3 \in Nat /\ 1 + (j % 3) \in 1..3
    BY <1>1, Thirds
  <2>. HIDE DEF j
  <2>2. Server!Reply(r + j \div 3)[1 + (j % 3)] \in Piece
    BY <2>1, ReplyPieces, ElementOfSeq
  <2>. QED BY <2>2 DEF ReplyPiece, j
<1>3. ASSUME NEW m \in Nat PROVE ReplyPiece(r, 3 * m + i) = ReplyPiece(r + m, i)
  <2>1. (3 * m + i) - 1 = 3 * m + j
    OBVIOUS
  <2>2. (3 * m + j) \div 3 = m + (j \div 3) /\ (3 * m + j) % 3 = j % 3 /\ j \div 3 \in Nat
    BY <1>1, Thirds
  <2>3. r + (m + (j \div 3)) = r + m + (j \div 3)
    BY <2>2
  <2>. QED BY <2>1, <2>2, <2>3 DEF ReplyPiece
<1>. QED BY <1>2, <1>3

LEMMA RepliesFacts ==
    ASSUME NEW r \in Nat, NEW n \in Nat
    PROVE  /\ Replies(r, n) \in Seq(Piece) /\ Len(Replies(r, n)) = n
           /\ \A i \in 1..n : Replies(r, n)[i] = ReplyPiece(r, i)
<1>1. ASSUME NEW i \in 1..n PROVE ReplyPiece(r, i) \in Piece
    BY ReplyPieceFacts
<1>. QED BY <1>1 DEF Replies

LEMMA RepliesConcat ==
    ASSUME NEW r \in Nat, NEW m \in Nat, NEW n \in Nat
    PROVE  Replies(r, 3 * m) \o Replies(r + m, n) = Replies(r, 3 * m + n)
<1>. DEFINE k == 3 * m
            s == Replies(r, k)
            t == Replies(r + m, n)
            w == Replies(r, k + n)
<1>1. k \in Nat /\ r + m \in Nat
    OBVIOUS
<1>2. ASSUME NEW i \in 1..n PROVE ReplyPiece(r, k + i) = ReplyPiece(r + m, i)
    BY ReplyPieceFacts
<1>. HIDE DEF k
<1>3. s \in Seq(Piece) /\ Len(s) = k /\ \A i \in 1..k : s[i] = ReplyPiece(r, i)
    BY <1>1, RepliesFacts
<1>4. t \in Seq(Piece) /\ Len(t) = n /\ \A i \in 1..n : t[i] = ReplyPiece(r + m, i)
    BY <1>1, RepliesFacts
<1>5. w \in Seq(Piece) /\ Len(w) = k + n /\ \A i \in 1..(k + n) : w[i] = ReplyPiece(r, i)
    BY <1>1, RepliesFacts
<1>. HIDE DEF s, t, w
<1>. DEFINE v == s \o t
<1>6. /\ v \in Seq(Piece) /\ Len(v) = k + n
      /\ \A i \in 1..(k + n) : v[i] = IF i <= k THEN s[i] ELSE t[i - k]
    BY <1>3, <1>4, ConcatProperties
<1>. HIDE DEF v
<1>7. ASSUME NEW i \in 1..(k + n) PROVE v[i] = w[i]
  <2>1. CASE i <= k
    BY <1>1, <1>3, <1>5, <1>6, <2>1
  <2>2. CASE ~ (i <= k)
    <3>1. i - k \in 1..n /\ k + (i - k) = i
      BY <1>1, <2>2
    <3>. QED BY <1>2, <1>4, <1>5, <1>6, <2>2, <3>1
  <2>. QED BY <2>1, <2>2
<1>8. v = w
    BY <1>5, <1>6, <1>7, SameSeq
<1>. QED BY <1>8 DEF s, t, v, w, k

\* A beginning of replies is fewer pieces of them.
LEMMA RepliesPrefix ==
    ASSUME NEW r \in Nat, NEW s \in Seq(Piece), NEW t \in Seq(Piece),
           s \o t = Replies(r, Len(s \o t))
    PROVE  s = Replies(r, Len(s))
<1>. DEFINE v == s \o t
            w == Replies(r, Len(s))
<1>1. /\ Len(v) = Len(s) + Len(t) /\ Len(s) \in Nat /\ Len(t) \in Nat
      /\ \A i \in 1..(Len(s) + Len(t)) : v[i] = IF i <= Len(s) THEN s[i] ELSE t[i - Len(s)]
    BY ConcatProperties
<1>2. /\ w \in Seq(Piece) /\ Len(w) = Len(s)
      /\ \A i \in 1..Len(s) : w[i] = ReplyPiece(r, i)
    BY <1>1, RepliesFacts
<1>3. \A i \in 1..Len(v) : v[i] = ReplyPiece(r, i)
  <2>1. Len(v) \in Nat /\ v = Replies(r, Len(v))
    BY <1>1
  <2>. HIDE DEF v
  <2>. QED BY <2>1, RepliesFacts, Zenon
<1>. HIDE DEF v, w
<1>4. ASSUME NEW i \in 1..Len(s) PROVE s[i] = w[i]
  <2>1. i \in 1..(Len(s) + Len(t)) /\ i <= Len(s) /\ i \in 1..Len(v)
    BY <1>1
  <2>. QED BY <1>1, <1>2, <1>3, <2>1
<1>5. s = w
    BY <1>2, <1>4, SameSeq
<1>. QED BY <1>5 DEF w

\* Replies without the first one.
LEMMA RepliesRest ==
    ASSUME NEW r \in Nat, NEW n \in Nat, 3 <= n
    PROVE  Rest(Replies(r, n), 3) = Replies(r + 1, n - 3)
<1>. DEFINE w == Replies(r, n)
            v == Replies(r + 1, n - 3)
            x == Rest(w, 3)
<1>1. 3 \in 0..n /\ n - 3 \in Nat /\ r + 1 \in Nat
    OBVIOUS
<1>2. w \in Seq(Piece) /\ Len(w) = n /\ \A i \in 1..n : w[i] = ReplyPiece(r, i)
    BY RepliesFacts
<1>3. /\ v \in Seq(Piece) /\ Len(v) = n - 3
      /\ \A i \in 1..(n - 3) : v[i] = ReplyPiece(r + 1, i)
    BY <1>1, RepliesFacts
<1>4. ASSUME NEW i \in 1..(n - 3) PROVE ReplyPiece(r, 3 + i) = ReplyPiece(r + 1, i)
  <2>1. i \in Nat \ {0} /\ 3 * 1 = 3
    BY <1>1
  <2>2. ReplyPiece(r, 3 * 1 + i) = ReplyPiece(r + 1, i)
    BY <2>1, ReplyPieceFacts, Zenon
  <2>. QED BY <2>1, <2>2
<1>. HIDE DEF w, v
<1>5. /\ x \in Seq(Piece) /\ Len(x) = n - 3
      /\ \A i \in 1..(n - 3) : x[i] = w[3 + i]
    BY <1>1, <1>2, RestFacts, Zenon
<1>. HIDE DEF x
<1>6. ASSUME NEW i \in 1..(n - 3) PROVE x[i] = v[i]
  <2>1. 3 + i \in 1..n
    BY <1>1
  <2>. QED BY <1>2, <1>3, <1>4, <1>5, <2>1
<1>7. x = v
    BY <1>3, <1>5, <1>6, SameSeq
<1>. QED BY <1>7 DEF w, v, x

\* The two iovecs of a reply are the reply.
LEMMA IovecsOfReply ==
    ASSUME NEW r \in Nat
    PROVE  /\ Server!iovecs(r)[1] \in Seq(Piece) /\ Server!iovecs(r)[2] \in Seq(Piece)
           /\ Server!iovecs(r)[1] \o Server!iovecs(r)[2] = Replies(r, 3)
<1>. DEFINE s == Server!Reply(r)
            a == SubSeq(s, 1, 2)
            d == SubSeq(s, 3, 3)
            w == Replies(r, 3)
<1>1. Server!iovecs(r)[1] = a /\ Server!iovecs(r)[2] = d
    BY DEF Server!iovecs
<1>2. s \in Seq(Piece) /\ Len(s) = 3
    BY ReplyPieces
<1>3. w \in Seq(Piece) /\ Len(w) = 3 /\ \A i \in 1..3 : w[i] = ReplyPiece(r, i)
    BY RepliesFacts, Zenon
<1>4. ASSUME NEW i \in 1..3 PROVE ReplyPiece(r, i) = s[i]
  <2>1. (i - 1) \div 3 = 0 /\ 1 + ((i - 1) % 3) = i /\ r + 0 = r
    OBVIOUS
  <2>. QED BY <2>1 DEF ReplyPiece
<1>. HIDE DEF s, w
<1>5. s = w
    BY <1>2, <1>3, <1>4, SameSeq
<1>6. a \in Seq(Piece)
  <2>1. 2 \in 0..Len(s)
    BY <1>2
  <2>. QED BY <1>2, <2>1, PrefixFacts, Zenon
<1>7. d = Rest(s, 2) /\ d \in Seq(Piece) /\ a \o d = s
  <2>1. 2 \in 0..Len(s)
    BY <1>2
  <2>2. d = Rest(s, 2)
    BY <1>2 DEF Rest
  <2>3. Rest(s, 2) \in Seq(Piece)
    BY <1>2, <2>1, RestFacts, Zenon
  <2>4. a \o Rest(s, 2) = s
    BY <1>2, <2>1, PrefixRest, Zenon
  <2>. HIDE DEF a, d
  <2>. QED BY <2>2, <2>3, <2>4
<1>. QED BY <1>1, <1>5, <1>6, <1>7 DEF w

\* The iovecs of a batch of consecutive requests hold their replies in order.
LEMMA LayoutOfRun ==
    ASSUME NEW base \in Nat, NEW c \in Nat
    PROVE  /\ Server!Layout([k \in 1..c |-> base + k]) \in Seq(Seq(Piece))
           /\ Len(Server!Layout([k \in 1..c |-> base + k])) = 2 * c
           /\ Server!PiecesFrom(Server!Layout([k \in 1..c |-> base + k]), 1)
                = Replies(base + 1, 3 * c)
<1>. DEFINE reqs == [k \in 1..c |-> base + k]
            vecs == Server!Layout(reqs)
            PF(i) == Server!PiecesFrom(vecs, i)
<1>1. Len(reqs) = c /\ \A k \in 1..c : reqs[k] = base + k
    OBVIOUS
<1>. HIDE DEF reqs
<1>2. vecs = [j \in 1..(2 * c) |-> Server!iovecs(reqs[(j + 1) \div 2])[2 - (j % 2)]]
    BY <1>1 DEF Server!Layout
<1>3. ASSUME NEW k \in 1..c
      PROVE  /\ 2 * k - 1 \in 1..(2 * c) /\ 2 * k \in 1..(2 * c)
             /\ vecs[2 * k - 1] = Server!iovecs(base + k)[1]
             /\ vecs[2 * k] = Server!iovecs(base + k)[2]
  <2>. HIDE DEF vecs
  <2>1. /\ 2 * k - 1 \in 1..(2 * c) /\ 2 * k \in 1..(2 * c)
        /\ ((2 * k - 1) + 1) \div 2 = k /\ (2 * k + 1) \div 2 = k
        /\ 2 - ((2 * k - 1) % 2) = 1 /\ 2 - ((2 * k) % 2) = 2
    OBVIOUS
  <2>2. /\ vecs[2 * k - 1] = Server!iovecs(reqs[((2 * k - 1) + 1) \div 2])[2 - ((2 * k - 1) % 2)]
        /\ vecs[2 * k] = Server!iovecs(reqs[(2 * k + 1) \div 2])[2 - ((2 * k) % 2)]
    BY <1>2, <2>1
  <2>. QED BY <1>1, <2>1, <2>2, Zenon
<1>4. vecs \in Seq(Seq(Piece)) /\ Len(vecs) = 2 * c
  <2>1. ASSUME NEW j \in 1..(2 * c)
        PROVE  Server!iovecs(reqs[(j + 1) \div 2])[2 - (j % 2)] \in Seq(Piece)
    <3>1. (j + 1) \div 2 \in 1..c /\ (2 - (j % 2) = 1 \/ 2 - (j % 2) = 2)
      OBVIOUS
    <3>2. base + (j + 1) \div 2 \in Nat
      BY <3>1
    <3>. QED BY <1>1, <3>1, <3>2, IovecsOfReply, Zenon
  <2>2. 2 * c \in Nat
    OBVIOUS
  <2>. HIDE DEF vecs
  <2>. QED BY <1>2, <2>1, <2>2
<1>. HIDE DEF vecs
<1>. DEFINE T == {j \in Nat : j <= c => PF(2 * (c - j) + 1) = Replies(base + (c - j) + 1, 3 * j)}
<1>5. 0 \in T
  <2>1. 2 * (c - 0) + 1 = Len(vecs) + 1 /\ 3 * 0 = 0 /\ base + (c - 0) + 1 \in Nat
    BY <1>4
  <2>2. PF(2 * (c - 0) + 1) = <<>>
    BY <1>4, <2>1, PiecesFromUnfold, Zenon
  <2>3. Replies(base + (c - 0) + 1, 0) \in Seq(Piece) /\ Len(Replies(base + (c - 0) + 1, 0)) = 0
    BY <2>1, RepliesFacts
  <2>4. Replies(base + (c - 0) + 1, 0) = <<>>
    BY <2>3, EmptySeq
  <2>. HIDE DEF PF
  <2>. QED BY <2>1, <2>2, <2>4
<1>6. ASSUME NEW j \in T PROVE j + 1 \in T
  <2>1. SUFFICES ASSUME j + 1 <= c
                 PROVE  PF(2 * (c - (j + 1)) + 1) = Replies(base + (c - (j + 1)) + 1, 3 * (j + 1))
    OBVIOUS
  <2>. DEFINE k == c - j
              r == base + k
              v == Server!iovecs(r)[1]
              x == Server!iovecs(r)[2]
              w == PF(2 * k + 1)
  <2>2. /\ k \in 1..c /\ j \in Nat /\ j <= c /\ r \in Nat
        /\ 2 * (c - (j + 1)) + 1 = 2 * k - 1
        /\ base + (c - (j + 1)) + 1 = r
        /\ (2 * k - 1) + 1 = 2 * k /\ 3 * (j + 1) = 3 * 1 + 3 * j
        /\ 2 * k + 1 \in 1..(2 * c + 1)
    BY <2>1
  <2>3. w = Replies(r + 1, 3 * j)
    BY <2>2
  <2>. HIDE DEF k, r
  <2>4. PF(2 * k - 1) = vecs[2 * k - 1] \o PF(2 * k) /\ PF(2 * k) = vecs[2 * k] \o w
    BY <1>3, <1>4, <2>2, PiecesFromUnfold, Zenon
  <2>5. vecs[2 * k - 1] = v /\ vecs[2 * k] = x
    BY <1>3, <2>2 DEF r
  <2>6. v \in Seq(Piece) /\ x \in Seq(Piece) /\ v \o x = Replies(r, 3)
    BY <2>2, IovecsOfReply, Zenon
  <2>7. w \in Seq(Piece)
    BY <1>4, <2>2, PiecesFromUnfold, Zenon
  <2>. HIDE DEF v, x, w, PF
  <2>8. (v \o x) \o w = v \o (x \o w)
    <3>1. v \in Seq(Piece) /\ x \in Seq(Piece)
      BY <2>6
    <3>. QED BY <2>7, <3>1, ConcatAssociative
  <2>9. Replies(r, 3 * 1) \o Replies(r + 1, 3 * j) = Replies(r, 3 * 1 + 3 * j)
    <3>1. 3 * j \in Nat /\ 1 \in Nat
      BY <2>2
    <3>. QED BY <2>2, <3>1, RepliesConcat, ZenonT(30)
  <2>10. 3 * 1 = 3
    OBVIOUS
  <2>. QED BY <2>2, <2>3, <2>4, <2>5, <2>6, <2>8, <2>9, <2>10, Zenon
<1>7. \A j \in Nat : j \in T
  <2>. HIDE DEF T
  <2>. QED BY <1>5, <1>6, SetInduction, Zenon DEF T
<1>8. PF(1) = Replies(base + 1, 3 * c)
  <2>1. 2 * (c - c) + 1 = 1 /\ base + (c - c) + 1 = base + 1 /\ c <= c
    OBVIOUS
  <2>2. c \in T
    BY <1>7
  <2>. HIDE DEF PF
  <2>. QED BY <2>1, <2>2
<1>. QED BY <1>4, <1>8 DEF vecs, reqs

-----------------------------------------------------------------------------
\* The messages of the last requests.

LEMMA MessagePieces ==
    ASSUME NEW r \in Nat
    PROVE  /\ Message(r) \in Seq(Piece) /\ Len(Message(r)) = 2
           /\ Message(r)[1] = <<r, "part">> /\ Message(r)[2] = <<r, "end">>
<1>1. <<r, "part">> \in Piece /\ <<r, "end">> \in Piece
    BY DEF Piece
<1>. QED BY <1>1 DEF Message

\* A piece that has m pieces after it, the last of them the end of r.
Countdown(r, m) == <<r - m \div 2, IF m % 2 = 0 THEN "end" ELSE "part">>

LEMMA MessagesFacts ==
    ASSUME NEW r \in Nat, NEW n \in Nat, (n + 1) \div 2 <= r
    PROVE  /\ MessagesUpTo(r, n) \in Seq(Piece) /\ Len(MessagesUpTo(r, n)) = n
           /\ \A i \in 1..n : MessagesUpTo(r, n)[i] = Countdown(r, n - i)
<1>1. ASSUME NEW i \in 1..n PROVE Countdown(r, n - i) \in Piece
  <2>1. n - i \in Nat /\ n - i <= n + 1 /\ n + 1 \in Nat
    OBVIOUS
  <2>2. (n - i) \div 2 <= (n + 1) \div 2 /\ (n + 1) \div 2 \in Nat
    BY <2>1, HalvesMonotonic
  <2>3. r - (n - i) \div 2 \in Nat
    BY <2>1, <2>2
  <2>. QED BY <2>3 DEF Countdown, Piece
<1>2. MessagesUpTo(r, n) = [i \in 1..n |-> Countdown(r, n - i)]
    BY DEF MessagesUpTo, Countdown
<1>. QED BY <1>1, <1>2

\* One more message.
LEMMA MessagesGrow ==
    ASSUME NEW r \in Nat, NEW n \in Nat, (n + 1) \div 2 <= r
    PROVE  MessagesUpTo(r, n) \o Message(r + 1) = MessagesUpTo(r + 1, n + 2)
<1>. DEFINE s == MessagesUpTo(r, n)
            t == Message(r + 1)
            w == MessagesUpTo(r + 1, n + 2)
            v == s \o t
<1>1. ((n + 2) + 1) \div 2 = (n + 1) \div 2 + 1 /\ r + 1 \in Nat /\ n + 2 \in Nat
    OBVIOUS
<1>2. ((n + 2) + 1) \div 2 <= r + 1
    BY <1>1
<1>3. s \in Seq(Piece) /\ Len(s) = n /\ \A i \in 1..n : s[i] = Countdown(r, n - i)
    BY MessagesFacts
<1>4. t \in Seq(Piece) /\ Len(t) = 2 /\ t[1] = <<r + 1, "part">> /\ t[2] = <<r + 1, "end">>
    BY <1>1, MessagePieces
<1>5. /\ w \in Seq(Piece) /\ Len(w) = n + 2
      /\ \A i \in 1..(n + 2) : w[i] = Countdown(r + 1, n + 2 - i)
    BY <1>1, <1>2, MessagesFacts
<1>. HIDE DEF s, t, w
<1>6. /\ v \in Seq(Piece) /\ Len(v) = n + 2
      /\ \A i \in 1..(n + 2) : v[i] = IF i <= n THEN s[i] ELSE t[i - n]
  <2>1. s \in Seq(Piece) /\ t \in Seq(Piece)
    BY <1>3, <1>4
  <2>2. /\ v \in Seq(Piece) /\ Len(v) = Len(s) + Len(t)
        /\ \A i \in 1..(Len(s) + Len(t)) : v[i] = IF i <= Len(s) THEN s[i] ELSE t[i - Len(s)]
    BY <2>1, ConcatProperties
  <2>. HIDE DEF v
  <2>. QED BY <1>3, <1>4, <2>2
<1>. HIDE DEF v
<1>7. ASSUME NEW i \in 1..(n + 2) PROVE v[i] = w[i]
  <2>1. CASE i <= n
    <3>. DEFINE m == n - i
    <3>1. m \in Nat /\ n + 2 - i = m + 2 /\ i \in 1..n
      BY <2>1
    <3>2. r - m \div 2 = (r + 1) - (m + 2) \div 2 /\ m % 2 = (m + 2) % 2
      BY <3>1
    <3>3. v[i] = Countdown(r, m) /\ w[i] = Countdown(r + 1, m + 2)
      BY <1>3, <1>5, <1>6, <2>1, <3>1
    <3>. QED BY <3>2, <3>3 DEF Countdown
  <2>2. CASE i = n + 1
    <3>1. i - n = 1 /\ n + 2 - i = 1 /\ 1 \div 2 = 0 /\ 1 % 2 = 1 /\ (r + 1) - 0 = r + 1 /\ ~ (i <= n)
      BY <2>2
    <3>. QED BY <1>4, <1>5, <1>6, <3>1, Zenon DEF Countdown
  <2>3. CASE i = n + 2
    <3>1. i - n = 2 /\ n + 2 - i = 0 /\ 0 \div 2 = 0 /\ 0 % 2 = 0 /\ (r + 1) - 0 = r + 1 /\ ~ (i <= n)
      BY <2>3
    <3>. QED BY <1>4, <1>5, <1>6, <3>1, Zenon DEF Countdown
  <2>. QED BY <2>1, <2>2, <2>3
<1>8. v = w
    BY <1>5, <1>6, <1>7, SameSeq, Zenon
<1>. QED BY <1>8 DEF s, t, v, w

\* The end of messages is fewer pieces of them.
LEMMA MessagesSuffix ==
    ASSUME NEW r \in Nat, NEW s \in Seq(Piece), NEW t \in Seq(Piece),
           (Len(s \o t) + 1) \div 2 <= r,
           s \o t = MessagesUpTo(r, Len(s \o t))
    PROVE  /\ t = MessagesUpTo(r, Len(t))
           /\ \A i \in 1..Len(s) : s[i] = MessagesUpTo(r, Len(s \o t))[i]
<1>. DEFINE v == s \o t
            w == MessagesUpTo(r, Len(t))
<1>1. /\ Len(v) = Len(s) + Len(t) /\ Len(s) \in Nat /\ Len(t) \in Nat
      /\ \A i \in 1..(Len(s) + Len(t)) : v[i] = IF i <= Len(s) THEN s[i] ELSE t[i - Len(s)]
    BY ConcatProperties
<1>. HIDE DEF v
<1>2. (Len(t) + 1) \div 2 <= r
  <2>1. Len(t) + 1 \in Nat /\ Len(v) + 1 \in Nat /\ Len(t) + 1 <= Len(v) + 1
    BY <1>1
  <2>2. (Len(t) + 1) \div 2 <= (Len(v) + 1) \div 2 /\ (Len(v) + 1) \div 2 <= r
    BY <2>1, HalvesMonotonic DEF v
  <2>. QED BY <2>1, <2>2
<1>3. /\ w \in Seq(Piece) /\ Len(w) = Len(t)
      /\ \A i \in 1..Len(t) : w[i] = Countdown(r, Len(t) - i)
    BY <1>1, <1>2, MessagesFacts, Zenon
<1>4. \A i \in 1..Len(v) : v[i] = Countdown(r, Len(v) - i)
  <2>1. Len(v) \in Nat /\ v = MessagesUpTo(r, Len(v)) /\ (Len(v) + 1) \div 2 <= r
    BY <1>1 DEF v
  <2>. QED BY <2>1, MessagesFacts, Zenon
<1>. HIDE DEF w
<1>5. ASSUME NEW i \in 1..Len(t) PROVE t[i] = w[i]
  <2>. DEFINE j == Len(s) + i
  <2>1. j \in 1..Len(v) /\ Len(v) - j = Len(t) - i /\ ~ (j <= Len(s)) /\ j - Len(s) = i
    BY <1>1
  <2>. HIDE DEF j
  <2>2. v[j] = t[i]
    BY <1>1, <2>1
  <2>3. v[j] = Countdown(r, Len(t) - i)
    BY <1>4, <2>1
  <2>. QED BY <1>3, <2>2, <2>3
<1>6. t = w
    BY <1>3, <1>5, SameSeq, Zenon
<1>7. ASSUME NEW i \in 1..Len(s) PROVE s[i] = v[i]
    BY <1>1
<1>8. v = MessagesUpTo(r, Len(v))
    BY DEF v
<1>. QED BY <1>6, <1>7, <1>8 DEF v, w

-----------------------------------------------------------------------------
\* The inductive invariant.

LEMMA Sizes ==
    ASSUME IInv
    PROVE  /\ Server!Unsent \in Seq(Piece) /\ Owed \in Seq(Piece)
           /\ receiveBuffer \in Seq(Piece) /\ downlink \in Seq(Piece)
           /\ receiveBuffer \o downlink \in Seq(Piece)
           /\ Back \in Seq(Piece) /\ Len(Back) \in Nat
           /\ uplink \in Seq(Piece) /\ Rest(sendBuffer, sendOffset) \in Seq(Piece)
           /\ Forward \in Seq(Piece) /\ Len(Forward) \in Nat
           /\ Pending \in Nat /\ Pending <= issued /\ issued \in Nat
           /\ Oldest \in Nat \ {0} /\ Unread \in Nat
           /\ socketFd # "reset" => Unread <= Pending
<1>. USE DEF IInv
<1>1. Server!Unsent \in Seq(Piece) /\ Owed \in Seq(Piece)
  <2>1. iov \in Seq(Seq(Piece)) /\ iovIdx \in 1..(Len(iov) + 1)
    BY DEF ServerTypeOK
  <2>2. Server!PiecesFrom(iov, iovIdx) \in Seq(Piece)
    BY <2>1, PiecesFromUnfold, Zenon
  <2>. QED BY <2>2, EmptySeq DEF Server!Unsent, Owed
<1>2. receiveBuffer \in Seq(Piece) /\ downlink \in Seq(Piece) /\ uplink \in Seq(Piece)
    BY DEF ClientTypeOK
<1>3. receiveBuffer \o downlink \in Seq(Piece)
    BY <1>2, ConcatProperties
<1>4. Back \in Seq(Piece)
    BY <1>1, <1>3, ConcatProperties DEF Back
<1>5. Rest(sendBuffer, sendOffset) \in Seq(Piece)
    BY RestFacts DEF ClientTypeOK
<1>6. Forward \in Seq(Piece)
    BY <1>2, <1>5, ConcatProperties DEF Forward
<1>7. Len(Back) \in Nat /\ Len(Forward) \in Nat
    BY <1>4, <1>6, LenProperties
<1>8. Pending \in Nat /\ Pending <= issued /\ issued \in Nat
    BY ClientAssumption DEF ClientTypeOK, Books, Pending
<1>9. Oldest \in Nat \ {0} /\ Unread \in Nat
    BY <1>7, <1>8, Halves DEF Oldest, Unread
<1>10. socketFd # "reset" => Unread <= Pending
    BY <1>7, <1>8, <1>9 DEF OnTheWay
<1>. QED BY <1>1, <1>2, <1>3, <1>4, <1>5, <1>6, <1>7, <1>8, <1>9, <1>10

LEMMA InitInvariant == Init => IInv
<1>. SUFFICES ASSUME Init PROVE IInv
    OBVIOUS
<1>. USE DEF Init, ClientInit, Server!SenderInit
<1>1. ClientTypeOK /\ ServerTypeOK
  <2>1. <<>> \in Seq(Piece) /\ <<>> \in Seq(Seq(Piece)) /\ <<>> \in Seq(Nat) /\ Len(<<>>) = 0
    BY EmptySeq
  <2>2. ClientTypeOK
    BY <2>1, ClientAssumption DEF ClientTypeOK
  <2>3. 1 \in 1..(0 + 1)
    OBVIOUS
  <2>. QED BY <2>1, <2>2, <2>3, Zenon DEF ServerTypeOK
<1>2. Books
    BY DEF Books, Pending
<1>3. Server!Unsent = <<>>
  <2>1. <<>> \in Seq(Seq(Piece)) /\ Len(<<>>) + 1 = 1
    OBVIOUS
  <2>2. Server!PiecesFrom(<<>>, Len(<<>>) + 1) = <<>>
    BY <2>1, PiecesFromUnfold, Zenon
  <2>. QED BY <2>1, <2>2 DEF Server!Unsent
<1>4. Sending
    BY <1>3, ClientAssumption DEF Sending
<1>5. Back = <<>> /\ Forward = <<>>
  <2>1. Rest(sendBuffer, sendOffset) = <<>>
    BY SubSeqEmpty DEF Rest
  <2>. QED BY <1>3, <2>1 DEF Back, Owed, Forward
<1>6. OnTheWay
  <2>1. Pending = 0 /\ Unread = 0 /\ Oldest = 1 /\ Len(<<>>) = 0
    BY <1>5 DEF Pending, Unread, Oldest
  <2>2. Replies(1, 0) = <<>>
    BY DEF Replies
  <2>3. MessagesUpTo(0, 0) = <<>>
    BY DEF MessagesUpTo
  <2>. QED BY <1>5, <2>1, <2>2, <2>3 DEF OnTheWay
<1>7. AnswersMatch
    BY DEF AnswersMatch
<1>. QED BY <1>1, <1>2, <1>4, <1>6, <1>7 DEF IInv

\* Steps that leave the ids, or what is on its way, as it is.
LEMMA SameBooks ==
    ASSUME Books, UNCHANGED <<pendingRequests, completedResponses, nextRequestId, ids, issued>>
    PROVE  Books'
BY DEF Books, Pending, Serial

LEMMA SameOnTheWay ==
    ASSUME OnTheWay, Back' = Back, Forward' = Forward,
           UNCHANGED <<pendingRequests, issued>>,
           socketFd' # "reset" => socketFd # "reset"
    PROVE  OnTheWay'
<1>1. Pending' = Pending /\ Oldest' = Oldest /\ Unread' = Unread
    BY DEF Pending, Oldest, Unread
<1>. QED BY <1>1 DEF OnTheWay

LEMMA SameSending ==
    ASSUME Sending, UNCHANGED <<server, uplink, pendingRequests, sendBuffer, receiveBuffer, downlink>>,
           socketFd' = socketFd \/ (socketFd = "none" /\ socketFd' = "open")
    PROVE  Sending'
<1>1. Server!Unsent' = Server!Unsent /\ left' = left /\ gone' = gone /\ iov' = iov
    BY DEF server, Server!Unsent
<1>. QED BY <1>1 DEF Sending

\* Beginning a call, or ending one in an exception, moves nothing.
LEMMA QuietStep ==
    ASSUME IInv, UNCHANGED server,
           connect \/ BeginFlush \/ FlushThrows \/ BeginWait \/ BeginReceive \/ WaitThrows
    PROVE  IInv'
<1>1. /\ UNCHANGED <<pendingRequests, completedResponses, sendBuffer, sendOffset, receiveBuffer,
                     nextRequestId, uplink, downlink, ids, answers, issued>>
      /\ socketFd' = socketFd \/ (socketFd = "none" /\ socketFd' = "open")
    BY DEF connect, BeginFlush, FlushThrows, BeginWait, BeginReceive, WaitThrows,
           ensureConnected, client
<1>2. ClientTypeOK'
    BY <1>1 DEF IInv, ClientTypeOK
<1>3. ServerTypeOK'
    BY DEF IInv, ServerTypeOK, server
<1>4. Books'
    BY <1>1, SameBooks DEF IInv
<1>5. Sending'
    BY <1>1, SameSending DEF IInv
<1>6. OnTheWay'
  <2>1. Back' = Back /\ Forward' = Forward
    BY <1>1 DEF Back, Owed, Forward, Server!Unsent, server, Rest
  <2>. QED BY <1>1, <2>1, SameOnTheWay DEF IInv
<1>7. AnswersMatch'
    BY <1>1 DEF IInv, AnswersMatch
<1>. QED BY <1>2, <1>3, <1>4, <1>5, <1>6, <1>7 DEF IInv

\* A new request is the last one, and so is its id.
LEMMA EnqueueStep ==
    ASSUME IInv, UNCHANGED server, enqueue
    PROVE  IInv'
<1>. DEFINE rest == Rest(sendBuffer, sendOffset)
            m == Message(issued + 1)
<1>1. /\ issued' = issued + 1 /\ nextRequestId' = nextRequestId + 1 /\ issued < MaxRequests
      /\ pendingRequests' = Append(pendingRequests, nextRequestId)
      /\ sendBuffer' = sendBuffer \o m
      /\ ids' = ids \union {<<nextRequestId, issued + 1>>}
      /\ UNCHANGED <<completedResponses, sendOffset, receiveBuffer, uplink, downlink, answers>>
      /\ socketFd' = (IF socketFd = "none" THEN "open" ELSE socketFd)
    BY DEF enqueue, ensureConnected
<1>2. /\ pendingRequests \in Seq(Nat) /\ nextRequestId \in Nat \ {0} /\ issued \in Nat
      /\ sendBuffer \in Seq(Piece) /\ sendOffset \in 0..Len(sendBuffer)
    BY ClientAssumption DEF IInv, ClientTypeOK
<1>3. /\ pendingRequests' \in Seq(Nat) /\ Pending' = Pending + 1
      /\ \A i \in 1..Pending : pendingRequests'[i] = pendingRequests[i]
      /\ pendingRequests'[Pending + 1] = nextRequestId
    BY <1>1, <1>2, AppendProperties DEF Pending
<1>4. m \in Seq(Piece) /\ Len(m) = 2
    BY <1>2, MessagePieces
<1>5. sendBuffer' \in Seq(Piece) /\ Len(sendBuffer') = Len(sendBuffer) + 2 /\ Len(sendBuffer) \in Nat
  <2>. HIDE DEF m
  <2>. QED BY <1>1, <1>2, <1>4, ConcatSize, Zenon
<1>6. ClientTypeOK'
    BY <1>1, <1>2, <1>3, <1>5, ClientAssumption DEF IInv, ClientTypeOK
<1>7. ServerTypeOK'
    BY DEF IInv, ServerTypeOK, server
<1>8. Books'
  <2>1. /\ nextRequestId - 1 <= issued /\ Pending < nextRequestId /\ Pending \in Nat
        /\ \A i \in 1..Pending : pendingRequests[i] = nextRequestId - Pending + i - 1
        /\ \A i \in 1..(nextRequestId - 1) : <<i, Serial(i)>> \in ids
        /\ \A h \in ids : h[1] \in 1..(nextRequestId - 1) /\ h = <<h[1], Serial(h[1])>>
        /\ completedResponses \subseteq ids
    BY Sizes DEF IInv, Books
  <2>2. \A i \in Nat : Serial(i)' = Serial(i)
    BY <1>1, <1>2 DEF Serial
  <2>3. Serial(nextRequestId) = issued + 1
    BY <1>2 DEF Serial
  <2>4. ASSUME NEW i \in 1..(Pending + 1)
        PROVE  pendingRequests'[i] = (nextRequestId + 1) - (Pending + 1) + i - 1
    <3>1. (nextRequestId + 1) - (Pending + 1) + i - 1 = nextRequestId - Pending + i - 1
      BY <1>2, <2>1
    <3>2. CASE i <= Pending
      BY <1>3, <2>1, <3>1, <3>2
    <3>3. CASE i = Pending + 1
      <4>1. nextRequestId - Pending + i - 1 = nextRequestId
        BY <1>2, <2>1, <3>3
      <4>2. pendingRequests'[i] = nextRequestId
        BY <1>3, <3>3
      <4>. QED BY <3>1, <4>1, <4>2
    <3>. QED BY <2>1, <3>2, <3>3
  <2>5. ASSUME NEW i \in 1..nextRequestId PROVE <<i, Serial(i)>> \in ids'
    <3>1. CASE i = nextRequestId
      BY <1>1, <2>3, <3>1
    <3>2. CASE i # nextRequestId
      BY <1>1, <1>2, <2>1, <3>2
    <3>. QED BY <3>1, <3>2
  <2>6. ASSUME NEW h \in ids' PROVE h[1] \in 1..nextRequestId /\ h = <<h[1], Serial(h[1])>>
    <3>1. CASE h \in ids
      BY <1>2, <2>1, <3>1
    <3>2. CASE h = <<nextRequestId, issued + 1>>
      BY <1>2, <2>3, <3>2
    <3>. QED BY <1>1, <3>1, <3>2
  <2>7. (nextRequestId + 1) - 1 = nextRequestId
    BY <1>2
  <2>8. \A i \in 1..nextRequestId : Serial(i)' = Serial(i)
    BY <1>2, <2>2
  <2>9. nextRequestId' - 1 <= issued' /\ Pending' < nextRequestId'
    BY <1>1, <1>2, <1>3, <2>1
  <2>10. \A i \in 1..Pending' : pendingRequests'[i] = nextRequestId' - Pending' + i - 1
    BY <1>1, <1>3, <2>4, Zenon
  <2>11. \A i \in 1..(nextRequestId' - 1) : <<i, Serial(i)'>> \in ids'
    BY <1>1, <2>5, <2>7, <2>8
  <2>12. \A h \in ids' : h[1] \in 1..(nextRequestId' - 1) /\ h = <<h[1], Serial(h[1])'>>
    BY <1>1, <2>6, <2>7, <2>8
  <2>13. completedResponses' \subseteq ids'
    BY <1>1, <2>1
  <2>. QED BY <2>9, <2>10, <2>11, <2>12, <2>13 DEF Books
<1>9. Back' = Back /\ Owed' = Owed /\ Server!Unsent' = Server!Unsent
    BY <1>1 DEF Back, Owed, Server!Unsent, server
<1>10. Sending'
    BY <1>1, <1>9 DEF IInv, Sending, ClientTypeOK, server
<1>11. Forward' = Forward \o m
  <2>1. Len(m) \in Nat /\ sendOffset \in Nat /\ sendOffset <= Len(sendBuffer)
        /\ sendOffset <= Len(sendBuffer) + Len(m)
    BY <1>2, <1>4
  <2>2. Rest(sendBuffer \o m, sendOffset) = rest \o m
    BY <1>2, <1>4, <2>1, RestConcat
  <2>3. uplink \in Seq(Piece) /\ rest \in Seq(Piece)
    BY Sizes
  <2>4. Forward' = uplink \o (rest \o m)
    BY <1>1, <2>2, Zenon DEF Forward, Rest
  <2>. HIDE DEF rest, m
  <2>5. (uplink \o rest) \o m = uplink \o (rest \o m)
    BY <1>4, <2>3, ConcatAssociative
  <2>. QED BY <2>4, <2>5 DEF Forward, rest
<1>12. OnTheWay'
  <2>1. Oldest' = Oldest
    BY <1>1, <1>2, <1>3, Sizes, SMTT(30) DEF Oldest
  <2>2. Back' = Replies(Oldest', Len(Back'))
    BY <1>9, <2>1 DEF IInv, OnTheWay
  <2>3. ASSUME socketFd' # "reset"
        PROVE  /\ Len(Back') = 3 * (Pending' - Unread')
               /\ Forward' = MessagesUpTo(issued', Len(Forward'))
    <3>1. socketFd # "reset"
      BY <1>1, <2>3
    <3>2. /\ Len(Back) = 3 * (Pending - Unread) /\ Forward = MessagesUpTo(issued, Len(Forward))
          /\ Unread <= Pending
      BY <3>1, Sizes DEF IInv, OnTheWay
    <3>3. Len(Forward') = Len(Forward) + 2
      <4>. HIDE DEF m
      <4>1. Forward \in Seq(Piece)
        BY Sizes
      <4>. QED BY <1>4, <1>11, <4>1, ConcatSize, Zenon
    <3>4. Unread' = Unread + 1
      BY <3>3, Sizes DEF Unread
    <3>5. Forward' = MessagesUpTo(issued + 1, Len(Forward) + 2)
      <4>1. (Len(Forward) + 1) \div 2 <= issued
        BY <3>2, Sizes DEF Unread
      <4>2. MessagesUpTo(issued, Len(Forward)) \o Message(issued + 1)
              = MessagesUpTo(issued + 1, Len(Forward) + 2)
        BY <4>1, Sizes, MessagesGrow, Zenon
      <4>. QED BY <1>11, <3>2, <4>2
    <3>6. Pending' - Unread' = Pending - Unread
      BY <1>3, <3>4, Sizes, SMTT(30)
    <3>. QED BY <1>1, <1>9, <3>2, <3>3, <3>5, <3>6
  <2>. QED BY <2>2, <2>3 DEF OnTheWay
<1>13. AnswersMatch'
    BY <1>1 DEF IInv, AnswersMatch
<1>. QED BY <1>6, <1>7, <1>8, <1>10, <1>12, <1>13 DEF IInv

\* A send moves pieces from the client's buffer to the socket, and keeps
\* their order.
LEMMA FlushStepKeeps ==
    ASSUME IInv, UNCHANGED server, FlushStep
    PROVE  IInv'
<1>1. /\ UNCHANGED <<socketFd, pendingRequests, completedResponses, receiveBuffer,
                     nextRequestId, downlink, ids, answers, issued>>
      /\ UNCHANGED <<iov, iovIdx, left, gone>>
    BY DEF FlushStep, FlushSend, FlushEnds, server
<1>2. sendBuffer \in Seq(Piece) /\ sendOffset \in 0..Len(sendBuffer) /\ uplink \in Seq(Piece)
    BY DEF IInv, ClientTypeOK
<1>3. /\ sendBuffer' \in Seq(Piece) /\ sendOffset' \in 0..Len(sendBuffer') /\ uplink' \in Seq(Piece)
      /\ Forward' = Forward
      /\ socketFd # "open" => uplink' = uplink
      /\ sendBuffer = <<>> => sendBuffer' = <<>>
  <2>1. CASE FlushSend
    <3>1. PICK n \in (sendOffset + 1)..Len(sendBuffer) :
              /\ uplink' = uplink \o SubSeq(sendBuffer, sendOffset + 1, n)
              /\ sendOffset' = n
              /\ sendBuffer' = sendBuffer /\ socketFd = "open"
      BY <2>1, Zenon DEF FlushSend
    <3>. DEFINE a == SubSeq(sendBuffer, sendOffset + 1, n)
                d == Rest(sendBuffer, n)
    <3>2. /\ n \in 0..Len(sendBuffer) /\ sendOffset + 1 \in 1..(Len(sendBuffer) + 1)
          /\ n \in (sendOffset + 1 - 1)..Len(sendBuffer)
          /\ Len(sendBuffer) \in n..Len(sendBuffer) /\ Len(sendBuffer) \in Nat
      BY <1>2
    <3>3. a \in Seq(Piece)
      <4>1. \A i \in (sendOffset + 1)..n : sendBuffer[i] \in Piece
        BY <1>2, <3>2, ElementOfSeq
      <4>2. sendOffset + 1 \in Int /\ n \in Int
        BY <3>2
      <4>. QED BY <4>1, <4>2, SubSeqProperties
    <3>4. d \in Seq(Piece)
      BY <1>2, <3>2, RestFacts
    <3>5. a \o d = Rest(sendBuffer, sendOffset)
      <4>. DEFINE m == sendOffset + 1
      <4>1. n \in (m - 1)..Len(sendBuffer) /\ m \in 1..(Len(sendBuffer) + 1)
        BY <3>2
      <4>. HIDE DEF m
      <4>2. SubSeq(sendBuffer, m, n) \o SubSeq(sendBuffer, n + 1, Len(sendBuffer))
              = SubSeq(sendBuffer, m, Len(sendBuffer))
        BY <1>2, <3>2, <4>1, ConcatAdjacentSubSeq, Zenon
      <4>. QED BY <4>2, Zenon DEF m, Rest
    <3>6. Forward' = (uplink \o a) \o d
      BY <3>1 DEF Forward, Rest
    <3>7. Forward = uplink \o Rest(sendBuffer, sendOffset)
      BY DEF Forward
    <3>. HIDE DEF a, d
    <3>8. (uplink \o a) \o d = uplink \o Rest(sendBuffer, sendOffset)
      <4>1. Cat(a, d) = Rest(sendBuffer, sendOffset)
        BY <3>5 DEF Cat
      <4>2. Cat(Cat(uplink, a), d) = Cat(uplink, Rest(sendBuffer, sendOffset))
        BY <1>2, <3>3, <3>4, <4>1, Regroup
      <4>. QED BY <4>2 DEF Cat
    <3>9. uplink' \in Seq(Piece)
      BY <1>2, <3>1, <3>3, ConcatSize DEF a
    <3>. QED BY <1>2, <3>1, <3>2, <3>6, <3>7, <3>8, <3>9
  <2>2. CASE FlushEnds
    <3>1. sendOffset = Len(sendBuffer) /\ sendBuffer' = <<>> /\ sendOffset' = 0 /\ uplink' = uplink
      BY <2>2 DEF FlushEnds
    <3>2. <<>> \in Seq(Piece) /\ Len(<<>>) = 0 /\ 0 \in 0..0
      BY EmptySeq
    <3>3. Rest(sendBuffer, sendOffset) = <<>>
      BY <1>2, <3>1, RestNothing
    <3>4. Rest(<<>>, 0) = <<>>
      BY <3>2, RestNothing, Zenon
    <3>5. Forward' = uplink \o <<>> /\ Forward = uplink \o <<>>
      BY <3>1, <3>3, <3>4, Zenon DEF Forward, Rest
    <3>. QED BY <1>2, <3>1, <3>2, <3>5
  <2>. QED BY <2>1, <2>2 DEF FlushStep
<1>4. ClientTypeOK'
    BY <1>1, <1>3 DEF IInv, ClientTypeOK
<1>5. ServerTypeOK'
    BY <1>1 DEF IInv, ServerTypeOK
<1>6. Books'
    BY <1>1, SameBooks DEF IInv
<1>7. Server!Unsent' = Server!Unsent /\ Back' = Back
    BY <1>1 DEF Server!Unsent, Back, Owed
<1>8. Sending'
    BY <1>1, <1>3, <1>7 DEF IInv, Sending
<1>9. OnTheWay'
    BY <1>1, <1>3, <1>7, SameOnTheWay DEF IInv
<1>10. AnswersMatch'
    BY <1>1 DEF IInv, AnswersMatch
<1>. QED BY <1>4, <1>5, <1>6, <1>8, <1>9, <1>10 DEF IInv

\* An answer that was put aside belongs to the id it was put aside for.
LEMMA PopStep ==
    ASSUME IInv, UNCHANGED server, popCompleted
    PROVE  IInv'
<1>1. PICK h \in ids, c \in completedResponses :
              /\ h[1] = c[1]
              /\ completedResponses' = completedResponses \ {c}
              /\ answers' = answers \union {<<h[2], c[2]>>}
    BY DEF popCompleted
<1>2. /\ UNCHANGED <<socketFd, pendingRequests, sendBuffer, sendOffset, receiveBuffer,
                     nextRequestId, uplink, downlink, ids, issued>>
      /\ UNCHANGED <<iov, iovIdx, left, gone>>
    BY DEF popCompleted, server
<1>3. ClientTypeOK' /\ ServerTypeOK'
    BY <1>2 DEF IInv, ClientTypeOK, ServerTypeOK
<1>4. Books'
    BY <1>1, <1>2 DEF IInv, Books, Pending, Serial
<1>5. Sending'
    BY <1>2, SameSending DEF IInv, server
<1>6. Back' = Back /\ Forward' = Forward
    BY <1>2 DEF Back, Owed, Server!Unsent, Forward, Rest
<1>7. OnTheWay'
    BY <1>2, <1>6, SameOnTheWay DEF IInv
<1>8. h[2] = c[2]
  <2>1. h = <<h[1], Serial(h[1])>> /\ c = <<c[1], Serial(c[1])>>
    BY DEF IInv, Books
  <2>2. h[2] = Serial(h[1]) /\ c[2] = Serial(c[1])
    BY <2>1
  <2>. QED BY <1>1, <2>2
<1>9. AnswersMatch'
    BY <1>1, <1>8 DEF IInv, AnswersMatch
<1>. QED BY <1>3, <1>4, <1>5, <1>7, <1>9 DEF IInv

\* A receive moves pieces from the socket to the client's buffer.
LEMMA ReceiveStep ==
    ASSUME IInv, UNCHANGED server, Receive
    PROVE  IInv'
<1>1. PICK n \in 1..Len(downlink) :
              /\ receiveBuffer' = receiveBuffer \o SubSeq(downlink, 1, n)
              /\ downlink' = Rest(downlink, n)
    BY DEF Receive
<1>2. /\ UNCHANGED <<socketFd, pendingRequests, completedResponses, sendBuffer, sendOffset,
                     nextRequestId, uplink, ids, answers, issued>>
      /\ UNCHANGED <<iov, iovIdx, left, gone>>
    BY DEF Receive, server
<1>3. receiveBuffer \in Seq(Piece) /\ downlink \in Seq(Piece)
    BY DEF IInv, ClientTypeOK
<1>. DEFINE a == SubSeq(downlink, 1, n)
            d == Rest(downlink, n)
<1>4. n \in 0..Len(downlink)
    OBVIOUS
<1>5. a \in Seq(Piece)
    BY <1>3, <1>4, PrefixFacts
<1>6. d \in Seq(Piece)
    BY <1>3, <1>4, RestFacts
<1>7. a \o d = downlink
    BY <1>3, <1>4, PrefixRest
<1>8. receiveBuffer' \o downlink' = (receiveBuffer \o a) \o d
    BY <1>1
<1>. HIDE DEF a, d
<1>9. receiveBuffer' \o downlink' = receiveBuffer \o downlink
  <2>1. Cat(a, d) = downlink
    BY <1>7 DEF Cat
  <2>2. Cat(Cat(receiveBuffer, a), d) = Cat(receiveBuffer, downlink)
    BY <1>3, <1>5, <1>6, <2>1, Regroup
  <2>. QED BY <1>8, <2>2 DEF Cat
<1>10. receiveBuffer' \in Seq(Piece) /\ downlink' \in Seq(Piece)
    BY <1>1, <1>3, <1>5, <1>6, ConcatSize DEF a, d
<1>11. ClientTypeOK' /\ ServerTypeOK'
    BY <1>2, <1>10 DEF IInv, ClientTypeOK, ServerTypeOK
<1>12. Books'
    BY <1>2, SameBooks DEF IInv
<1>13. downlink # <<>>
    BY <1>3
<1>14. Server!Unsent' = Server!Unsent
    BY <1>2 DEF Server!Unsent
<1>15. Sending'
    BY <1>2, <1>13, <1>14 DEF IInv, Sending
<1>16. Back' = Back /\ Forward' = Forward
    BY <1>2, <1>9, <1>14 DEF Back, Owed, Forward, Rest
<1>17. OnTheWay'
    BY <1>2, <1>16, SameOnTheWay DEF IInv
<1>18. AnswersMatch'
    BY <1>2 DEF IInv, AnswersMatch
<1>. QED BY <1>11, <1>12, <1>15, <1>17, <1>18 DEF IInv

\* The first end among replies is that of the first one.
LEMMA FirstEnd ==
    ASSUME NEW r \in Nat, NEW s \in Seq(Piece), s = Replies(r, Len(s)),
           NEW e \in DOMAIN s, s[e][2] = "end"
    PROVE  /\ 3 \in DOMAIN s /\ s[3] = <<r, "end">> /\ 3 <= Len(s)
           /\ \A j \in DOMAIN s : s[j][2] = "end" => 3 <= j
<1>. DEFINE n == Len(s)
<1>1. n \in Nat /\ DOMAIN s = 1..n
    BY LenProperties
<1>2. \A i \in 1..n : s[i] = ReplyPiece(r, i)
  <2>. HIDE DEF n
  <2>1. s = Replies(r, n)
    BY DEF n
  <2>. QED BY <1>1, <2>1, RepliesFacts
<1>3. /\ ReplyPiece(r, 1)[2] = "data1" /\ ReplyPiece(r, 2)[2] = "data2"
      /\ ReplyPiece(r, 3) = <<r, "end">>
  <2>1. /\ r + (1 - 1) \div 3 = r /\ r + (2 - 1) \div 3 = r /\ r + (3 - 1) \div 3 = r
        /\ 1 + ((1 - 1) % 3) = 1 /\ 1 + ((2 - 1) % 3) = 2 /\ 1 + ((3 - 1) % 3) = 3
    OBVIOUS
  <2>. QED BY <2>1, ReplyPieces DEF ReplyPiece
<1>4. ASSUME NEW j \in 1..n, s[j][2] = "end" PROVE 3 <= j
  <2>1. j # 1 /\ j # 2
    BY <1>2, <1>3, <1>4
  <2>. QED BY <1>1, <2>1
<1>5. 3 <= e
    BY <1>1, <1>4
<1>6. 3 \in 1..n
    BY <1>1, <1>5
<1>. QED BY <1>1, <1>2, <1>3, <1>4, <1>6

\* What the client has received are the replies to its oldest requests.
LEMMA Received ==
    ASSUME IInv
    PROVE  /\ receiveBuffer \o downlink = Replies(Oldest, Len(receiveBuffer \o downlink))
           /\ receiveBuffer = Replies(Oldest, Len(receiveBuffer))
<1>. DEFINE s == receiveBuffer \o downlink
<1>1. s \in Seq(Piece) /\ receiveBuffer \in Seq(Piece) /\ downlink \in Seq(Piece)
      /\ Owed \in Seq(Piece) /\ Oldest \in Nat
    BY Sizes
<1>2. s \o Owed = Replies(Oldest, Len(s \o Owed))
    BY DEF IInv, OnTheWay, Back
<1>3. s = Replies(Oldest, Len(s))
  <2>. HIDE DEF s
  <2>. QED BY <1>1, <1>2, RepliesPrefix, Zenon
<1>4. receiveBuffer = Replies(Oldest, Len(receiveBuffer))
    BY <1>1, <1>3, RepliesPrefix, Zenon
<1>. QED BY <1>3, <1>4

\* A response goes to the oldest pending id, whose request it answers.
LEMMA ParseStep ==
    ASSUME IInv, UNCHANGED server, tryParseResponse
    PROVE  IInv'
<1>. DEFINE id == Head(pendingRequests)
            end == CHOOSE i \in Ends : \A j \in Ends : i <= j
<1>1. /\ UNCHANGED <<socketFd, sendBuffer, sendOffset, nextRequestId, uplink, downlink, ids, issued>>
      /\ UNCHANGED <<iov, iovIdx, left, gone>>
      /\ pendingRequests # <<>> /\ Ends # {}
      /\ receiveBuffer' = Rest(receiveBuffer, end)
      /\ pendingRequests' = Tail(pendingRequests)
      /\ Hand(id, receiveBuffer[end][1])
    BY DEF tryParseResponse, InReceive, server
<1>2. receiveBuffer \in Seq(Piece) /\ downlink \in Seq(Piece) /\ Owed \in Seq(Piece) /\ Oldest \in Nat
    BY Sizes
<1>3. end = 3 /\ receiveBuffer[3] = <<Oldest, "end">> /\ 3 <= Len(receiveBuffer)
  <2>1. PICK e : e \in DOMAIN receiveBuffer /\ receiveBuffer[e][2] = "end"
    BY <1>1 DEF Ends
  <2>2. /\ 3 \in DOMAIN receiveBuffer /\ receiveBuffer[3] = <<Oldest, "end">>
        /\ 3 <= Len(receiveBuffer)
        /\ \A j \in DOMAIN receiveBuffer : receiveBuffer[j][2] = "end" => 3 <= j
    BY <1>2, <2>1, Received, FirstEnd
  <2>3. DOMAIN receiveBuffer \subseteq Nat
    BY <1>2
  <2>4. 3 \in Ends /\ (\A j \in Ends : 3 <= j) /\ Ends \subseteq Nat
    BY <2>2, <2>3 DEF Ends
  <2>5. \A i \in Ends : (\A j \in Ends : i <= j) => i = 3
    BY <2>4
  <2>. QED BY <2>2, <2>4, <2>5, Zenon
<1>. HIDE DEF end
<1>. DEFINE r == receiveBuffer[end][1]
<1>4. receiveBuffer' = Rest(receiveBuffer, 3) /\ r = Oldest
    BY <1>1, <1>3
<1>5. /\ pendingRequests \in Seq(Nat) /\ Pending \in Nat /\ Pending = Len(pendingRequests)
      /\ nextRequestId \in Nat \ {0} /\ issued \in Nat
    BY Sizes DEF IInv, ClientTypeOK, Pending
<1>6. /\ pendingRequests' \in Seq(Nat) /\ Pending' = Pending - 1 /\ Pending > 0
      /\ \A i \in 1..(Pending - 1) : pendingRequests'[i] = pendingRequests[i + 1]
      /\ id = pendingRequests[1]
    BY <1>1, <1>5, HeadTailProperties DEF Pending
<1>7. /\ nextRequestId - 1 <= issued /\ Pending < nextRequestId
      /\ \A i \in 1..Pending : pendingRequests[i] = nextRequestId - Pending + i - 1
      /\ \A i \in 1..(nextRequestId - 1) : <<i, Serial(i)>> \in ids
      /\ \A h \in ids : h[1] \in 1..(nextRequestId - 1) /\ h = <<h[1], Serial(h[1])>>
      /\ completedResponses \subseteq ids
    BY DEF IInv, Books
<1>8. id \in 1..(nextRequestId - 1) /\ Serial(id) = Oldest
  <2>1. 1 \in 1..Pending /\ nextRequestId - Pending + 1 - 1 = nextRequestId - Pending
    BY <1>5, <1>6
  <2>2. id = nextRequestId - Pending
    BY <1>6, <1>7, <2>1
  <2>. QED BY <1>5, <1>6, <1>7, <2>2 DEF Serial, Oldest
<1>9. AnswersMatch' /\ completedResponses' \subseteq ids
  <2>1. CASE call = "receive" \/ id = waited[1]
    <3>1. /\ answers' = answers \union {<<h[2], r>> : h \in {i \in ids : i[1] = id}}
          /\ completedResponses' = completedResponses
      BY <1>1, <2>1 DEF Hand
    <3>2. ASSUME NEW h \in ids, h[1] = id PROVE h[2] = Oldest
      <4>1. h = <<h[1], Serial(h[1])>>
        BY <1>7
      <4>2. h[2] = Serial(h[1])
        BY <4>1
      <4>. QED BY <1>8, <3>2, <4>2
    <3>3. \A a \in answers' : a[1] = a[2]
      BY <1>4, <3>1, <3>2 DEF IInv, AnswersMatch
    <3>. QED BY <1>7, <3>1, <3>3 DEF AnswersMatch
  <2>2. CASE ~ (call = "receive" \/ id = waited[1])
    <3>1. answers' = answers /\ completedResponses' = completedResponses \union {<<id, r>>}
      BY <1>1, <2>2 DEF Hand
    <3>2. <<id, r>> \in ids
      BY <1>4, <1>7, <1>8
    <3>. QED BY <1>7, <3>1, <3>2 DEF IInv, AnswersMatch
  <2>. QED BY <2>1, <2>2
<1>10. Books'
  <2>1. \A i : Serial(i)' = Serial(i)
    BY <1>1 DEF Serial
  <2>2. ASSUME NEW i \in 1..(Pending - 1)
        PROVE  pendingRequests'[i] = nextRequestId - (Pending - 1) + i - 1
    <3>1. /\ i + 1 \in 1..Pending
          /\ nextRequestId - Pending + (i + 1) - 1 = nextRequestId - (Pending - 1) + i - 1
      BY <1>5
    <3>2. pendingRequests[i + 1] = nextRequestId - Pending + (i + 1) - 1
      BY <1>7, <3>1
    <3>. QED BY <1>6, <3>1, <3>2
  <2>3. Pending - 1 < nextRequestId
    BY <1>5, <1>7
  <2>. QED BY <1>1, <1>6, <1>7, <1>9, <2>1, <2>2, <2>3, ZenonT(30) DEF Books
<1>11. receiveBuffer' \in Seq(Piece)
  <2>1. 3 \in 0..Len(receiveBuffer)
    BY <1>2, <1>3
  <2>. QED BY <1>2, <1>4, <2>1, RestFacts
<1>12. ClientTypeOK' /\ ServerTypeOK'
    BY <1>1, <1>6, <1>11 DEF IInv, ClientTypeOK, ServerTypeOK
<1>13. Server!Unsent' = Server!Unsent /\ Owed' = Owed /\ Forward' = Forward
    BY <1>1, SMTT(30) DEF Server!Unsent, Owed, Forward, Rest
<1>14. Sending'
    BY <1>1, <1>13 DEF IInv, Sending
<1>15. Back' = Rest(Back, 3) /\ 3 <= Len(Back)
  <2>. DEFINE s == receiveBuffer \o downlink
  <2>1. /\ Len(receiveBuffer) \in Nat /\ Len(downlink) \in Nat
        /\ 3 \in Nat /\ 3 <= Len(receiveBuffer) + Len(downlink)
    BY <1>2, <1>3
  <2>2. Rest(s, 3) = Rest(receiveBuffer, 3) \o downlink
    BY <1>2, <1>3, <2>1, RestConcat
  <2>3. s \in Seq(Piece) /\ Len(s) = Len(receiveBuffer) + Len(downlink)
    BY <1>2, ConcatSize
  <2>4. Back' = (Rest(receiveBuffer, 3) \o downlink) \o Owed /\ Back = s \o Owed
    BY <1>1, <1>4, <1>13 DEF Back
  <2>. HIDE DEF s
  <2>5. Len(Owed) \in Nat /\ 3 <= Len(s) /\ 3 <= Len(s) + Len(Owed)
    BY <1>2, <2>1, <2>3
  <2>6. Rest(s \o Owed, 3) = Rest(s, 3) \o Owed
    BY <1>2, <2>1, <2>3, <2>5, RestConcat, SMTT(30)
  <2>7. Len(s \o Owed) = Len(s) + Len(Owed)
    BY <1>2, <2>3, ConcatSize
  <2>8. 3 <= Len(Back)
    BY <2>4, <2>5, <2>7
  <2>. QED BY <2>2, <2>4, <2>6, <2>8, Zenon
<1>16. Back' = Replies(Oldest + 1, Len(Back) - 3) /\ Len(Back') = Len(Back) - 3
  <2>1. Len(Back) \in Nat /\ Back = Replies(Oldest, Len(Back)) /\ Back \in Seq(Piece)
    BY Sizes DEF IInv, OnTheWay
  <2>2. Rest(Replies(Oldest, Len(Back)), 3) = Replies(Oldest + 1, Len(Back) - 3)
    BY <1>2, <1>15, <2>1, RepliesRest
  <2>3. 3 \in 0..Len(Back)
    BY <1>15, <2>1
  <2>4. Len(Rest(Back, 3)) = Len(Back) - 3
    BY <2>1, <2>3, RestFacts
  <2>. QED BY <1>15, <2>1, <2>2, <2>4
<1>17. OnTheWay'
  <2>1. Oldest' = Oldest + 1 /\ Unread' = Unread
    BY <1>1, <1>5, <1>6, <1>13 DEF Oldest, Unread
  <2>2. ASSUME socketFd' # "reset"
        PROVE  /\ Len(Back') = 3 * (Pending' - Unread')
               /\ Forward' = MessagesUpTo(issued', Len(Forward'))
    <3>1. Len(Back) = 3 * (Pending - Unread) /\ Forward = MessagesUpTo(issued, Len(Forward))
      BY <1>1, <2>2 DEF IInv, OnTheWay
    <3>2. Len(Back) - 3 = 3 * ((Pending - 1) - Unread)
      BY <1>5, <3>1, Sizes, SMTT(30)
    <3>. QED BY <1>1, <1>6, <1>13, <1>16, <2>1, <3>1, <3>2
  <2>. QED BY <1>16, <2>1, <2>2 DEF OnTheWay
<1>. QED BY <1>9, <1>10, <1>12, <1>14, <1>17 DEF IInv

\* A batch takes the whole requests off the one way and puts their replies on
\* the other.
LEMMA ReadBatchStep ==
    ASSUME IInv, UNCHANGED <<client, user>>, Server!ReadBatch
    PROVE  IInv'
<1>. DEFINE rest == Rest(sendBuffer, sendOffset)
            len == Len(Forward)
            after == (len - Len(uplink) + 1) \div 2
            c == Unread - after
            base == issued - Unread
            reqs == [k \in 1..c |-> base + k]
<1>1. /\ left = 0 /\ uplink # <<>> /\ uplink' = <<>>
      /\ iov' = Server!Layout(Server!Completed(uplink)) /\ iovIdx' = 1
      /\ left' = Len(Server!PiecesFrom(iov', 1))
      /\ UNCHANGED <<downlink, gone>>
    BY DEF Server!ReadBatch
<1>2. UNCHANGED <<socketFd, pendingRequests, completedResponses, sendBuffer, sendOffset,
                  receiveBuffer, nextRequestId, ids, answers, issued>>
    BY DEF client, user
<1>3. /\ socketFd = "open" /\ ~ gone /\ gone \in BOOLEAN /\ Len(Server!Unsent) = 0
    BY <1>1 DEF IInv, Sending, ServerTypeOK
<1>4. /\ uplink \in Seq(Piece) /\ rest \in Seq(Piece) /\ Forward = uplink \o rest
      /\ len \in Nat /\ issued \in Nat /\ Unread \in Nat /\ Unread <= Pending /\ Pending <= issued
      /\ Unread = (len + 1) \div 2 /\ Pending \in Nat /\ Oldest \in Nat
    BY <1>3, Sizes DEF Forward, Unread
<1>5. Len(Back) = 3 * (Pending - Unread) /\ Forward = MessagesUpTo(issued, len)
    BY <1>3 DEF IInv, OnTheWay
<1>6. len = Len(uplink) + Len(rest) /\ Len(uplink) \in Nat /\ Len(rest) \in Nat
    BY <1>4, ConcatSize
<1>7. /\ rest = MessagesUpTo(issued, Len(rest))
      /\ \A i \in 1..Len(uplink) : uplink[i] = MessagesUpTo(issued, len)[i]
  <2>1. /\ (Len(uplink \o rest) + 1) \div 2 <= issued
        /\ uplink \o rest = MessagesUpTo(issued, Len(uplink \o rest))
        /\ len = Len(uplink \o rest)
    BY <1>4, <1>5
  <2>. HIDE DEF rest, len
  <2>. QED BY <1>4, <2>1, MessagesSuffix, Zenon
<1>8. c \in Nat /\ Server!Completed(uplink) = reqs
  <2>1. (len + 1) \div 2 <= issued /\ Len(uplink) <= len
    BY <1>4, <1>6
  <2>. HIDE DEF len
  <2>2. /\ (len + 1) \div 2 - (len - Len(uplink) + 1) \div 2 \in Nat
        /\ Server!Completed(uplink)
             = [k \in 1..((len + 1) \div 2 - (len - Len(uplink) + 1) \div 2) |->
                   issued - (len + 1) \div 2 + k]
    BY <1>4, <1>7, <2>1, CompletedMessages
  <2>3. c = (len + 1) \div 2 - (len - Len(uplink) + 1) \div 2 /\ base = issued - (len + 1) \div 2
    BY <1>4
  <2>. HIDE DEF c, base
  <2>. QED BY <2>2, <2>3
<1>9. after \in Nat /\ base \in Nat /\ c <= MaxRequests
  <2>1. len - Len(uplink) + 1 \in Nat
    BY <1>6
  <2>2. after \in Nat
    BY <2>1, HalvesMonotonic
  <2>3. issued <= MaxRequests /\ MaxRequests \in Nat
    BY ClientAssumption DEF IInv, ClientTypeOK
  <2>. HIDE DEF after
  <2>. QED BY <1>4, <1>8, <2>2, <2>3
<1>. HIDE DEF len, after, c, base
<1>10. /\ iov' \in Seq(Seq(Piece)) /\ Len(iov') = 2 * c
       /\ Server!PiecesFrom(iov', 1) = Replies(base + 1, 3 * c)
    BY <1>1, <1>8, <1>9, LayoutOfRun
<1>11. Server!Unsent' = Replies(base + 1, 3 * c) /\ left' = Len(Server!Unsent')
    BY <1>1, <1>10 DEF Server!Unsent
<1>12. <<>> \in Seq(Piece)
    BY EmptySeq
<1>13. ClientTypeOK'
    BY <1>1, <1>2, <1>12 DEF IInv, ClientTypeOK
<1>14. ServerTypeOK'
  <2>1. 3 * c \in Nat /\ base + 1 \in Nat /\ 2 * c \in Nat
    BY <1>8, <1>9
  <2>2. left' \in Nat
    BY <1>11, <2>1, RepliesFacts
  <2>3. 1 \in 1..(2 * c + 1)
    BY <2>1
  <2>. QED BY <1>1, <1>3, <1>10, <2>2, <2>3 DEF ServerTypeOK
<1>15. Books'
    BY <1>2, SameBooks DEF IInv
<1>16. Sending'
  <2>1. 2 * c <= 2 * MaxRequests
    BY <1>8, <1>9, ClientAssumption
  <2>. QED BY <1>1, <1>2, <1>3, <1>10, <1>11, <2>1 DEF Sending
<1>17. Forward' = rest
    BY <1>1, <1>2, <1>4, ConcatEmptySeq DEF Forward, Rest
<1>18. Unread' = after
  <2>1. Len(rest) = len - Len(uplink)
    BY <1>6
  <2>. QED BY <1>17, <2>1 DEF Unread, after
<1>19. Back' = Replies(Oldest, 3 * (Pending - after)) /\ Len(Back') = 3 * (Pending - after)
  <2>. DEFINE m == Pending - Unread
              s == receiveBuffer \o downlink
  <2>1. /\ m \in Nat /\ base + 1 = Oldest + m /\ 3 * m + 3 * c = 3 * (Pending - after)
        /\ 3 * c \in Nat /\ 3 * (Pending - after) \in Nat
    BY <1>4, <1>8, <1>9 DEF base, c, Oldest
  <2>2. Server!Unsent = <<>>
    BY <1>3, Sizes, EmptySeq
  <2>3. s \in Seq(Piece)
    BY Sizes
  <2>4. Back = s
    BY <1>3, <2>2, <2>3, ConcatEmptySeq DEF Back, Owed
  <2>5. Back' = s \o Server!Unsent'
    BY <1>1, <1>2, <1>3 DEF Back, Owed
  <2>6. s = Replies(Oldest, 3 * m)
    BY <1>5, <2>4 DEF IInv, OnTheWay
  <2>. HIDE DEF m, s
  <2>7. Replies(Oldest, 3 * m) \o Replies(Oldest + m, 3 * c) = Replies(Oldest, 3 * m + 3 * c)
    BY <1>4, <2>1, RepliesConcat, ZenonT(30)
  <2>8. Back' = Replies(Oldest, 3 * (Pending - after))
    BY <1>11, <2>1, <2>5, <2>6, <2>7, SMTT(30)
  <2>. QED BY <1>4, <2>1, <2>8, RepliesFacts
<1>20. OnTheWay'
  <2>1. Pending' = Pending /\ Oldest' = Oldest
    BY <1>2 DEF Pending, Oldest
  <2>. QED BY <1>2, <1>7, <1>17, <1>18, <1>19, <2>1 DEF OnTheWay
<1>21. AnswersMatch'
    BY <1>2 DEF IInv, AnswersMatch
<1>. QED BY <1>13, <1>14, <1>15, <1>16, <1>20, <1>21 DEF IInv

\* A send moves pieces of the batch to the socket, wherever it cuts it.
LEMMA SendmsgStep ==
    ASSUME IInv, UNCHANGED <<client, user>>, Server!Sendmsg
    PROVE  IInv'
<1>. DEFINE u == Server!PiecesFrom(iov, iovIdx)
<1>1. PICK n \in 1..left :
              /\ downlink' = downlink \o SubSeq(u, 1, n)
              /\ iov' = Server!Advance(iov, iovIdx, n).iov
              /\ iovIdx' = Server!Advance(iov, iovIdx, n).idx
              /\ left' = left - n
    BY Zenon DEF Server!Sendmsg, Server!Unsent
<1>2. left > 0 /\ ~ gone /\ UNCHANGED <<uplink, gone>>
    BY DEF Server!Sendmsg
<1>3. UNCHANGED <<socketFd, pendingRequests, completedResponses, sendBuffer, sendOffset,
                  receiveBuffer, nextRequestId, ids, answers, issued>>
    BY DEF client, user
<1>4. /\ u \in Seq(Piece) /\ left = Len(u) /\ socketFd = "open" /\ gone \in BOOLEAN
      /\ iov \in Seq(Seq(Piece)) /\ iovIdx \in 1..(Len(iov) + 1)
      /\ receiveBuffer \in Seq(Piece) /\ downlink \in Seq(Piece)
    BY <1>2, Sizes DEF IInv, Sending, ServerTypeOK, Server!Unsent
<1>5. n \in 0..Len(u) /\ Len(u) \in Nat
    BY <1>4
<1>6. /\ iov' \in Seq(Seq(Piece)) /\ Len(iov') = Len(iov) /\ iovIdx' \in 1..(Len(iov) + 1)
      /\ Server!PiecesFrom(iov', iovIdx') = Rest(u, n)
  <2>. DEFINE a == Server!Advance(iov, iovIdx, n)
  <2>1. /\ a.iov \in Seq(Seq(Piece)) /\ Len(a.iov) = Len(iov) /\ a.idx \in 1..(Len(iov) + 1)
        /\ Server!PiecesFrom(a.iov, a.idx) = Rest(u, n)
    BY <1>4, <1>5, AdvanceLeavesRest
  <2>. HIDE DEF a
  <2>2. iov' = a.iov /\ iovIdx' = a.idx
    BY <1>1 DEF a
  <2>. QED BY <2>1, <2>2
<1>. HIDE DEF u
<1>. DEFINE p == SubSeq(u, 1, n)
            d == Rest(u, n)
<1>7. p \in Seq(Piece)
    BY <1>4, <1>5, PrefixFacts
<1>8. d \in Seq(Piece) /\ Len(d) = Len(u) - n
    BY <1>4, <1>5, RestFacts
<1>9. p \o d = u
    BY <1>4, <1>5, PrefixRest
<1>10. downlink' = downlink \o p
    BY <1>1
<1>11. Server!Unsent' = d /\ left' = Len(d)
    BY <1>1, <1>4, <1>6, <1>8 DEF Server!Unsent
<1>. HIDE DEF p, d
<1>12. downlink' \in Seq(Piece)
    BY <1>4, <1>7, <1>10, ConcatSize
<1>13. ClientTypeOK'
    BY <1>2, <1>3, <1>12 DEF IInv, ClientTypeOK
<1>14. ServerTypeOK'
  <2>1. left' \in Nat
    BY <1>8, <1>11
  <2>. QED BY <1>2, <1>4, <1>6, <2>1 DEF ServerTypeOK
<1>15. Books'
    BY <1>3, SameBooks DEF IInv
<1>16. Sending'
    BY <1>2, <1>3, <1>4, <1>6, <1>11 DEF IInv, Sending
<1>17. Back' = Back
  <2>. DEFINE s == Cat(receiveBuffer, downlink)
  <2>1. Back' = Cat(Cat(receiveBuffer, Cat(downlink, p)), d)
    BY <1>2, <1>3, <1>4, <1>10, <1>11 DEF Back, Owed, Cat
  <2>2. Back = Cat(s, u)
    BY <1>2, <1>4 DEF Back, Owed, Cat, Server!Unsent, u
  <2>3. Cat(s, p) = Cat(receiveBuffer, Cat(downlink, p))
    BY <1>4, <1>7, CatAssociative
  <2>4. Cat(p, d) = u
    BY <1>9 DEF Cat
  <2>5. s \in Seq(Piece)
    BY <1>4, ConcatSize DEF Cat
  <2>. HIDE DEF s
  <2>6. Cat(Cat(s, p), d) = Cat(s, u)
    BY <1>7, <1>8, <2>4, <2>5, Regroup
  <2>. QED BY <2>1, <2>2, <2>3, <2>6
<1>18. Forward' = Forward
    BY <1>2, <1>3 DEF Forward, Rest
<1>19. OnTheWay'
    BY <1>3, <1>17, <1>18, SameOnTheWay DEF IInv
<1>20. AnswersMatch'
    BY <1>3 DEF IInv, AnswersMatch
<1>. QED BY <1>13, <1>14, <1>15, <1>16, <1>19, <1>20 DEF IInv

\* With room for the iovecs of every batch, a send fails only for a batch
\* whose connection is gone.
LEMMA SendmsgFailsStep ==
    ASSUME IInv, UNCHANGED <<client, user>>, Server!SendmsgFails, 2 * MaxRequests <= IOV_MAX
    PROVE  IInv'
<1>1. /\ left > 0
      /\ gone \/ Len(iov) - iovIdx >= IOV_MAX
      /\ left' = 0 /\ iov' = <<>> /\ iovIdx' = 1 /\ gone' = FALSE
      /\ UNCHANGED <<uplink, downlink>>
    BY DEF Server!SendmsgFails
<1>2. UNCHANGED <<socketFd, pendingRequests, completedResponses, sendBuffer, sendOffset,
                  receiveBuffer, nextRequestId, ids, answers, issued>>
    BY DEF client, user
<1>3. gone
  <2>1. iovIdx \in 1..(Len(iov) + 1) /\ Len(iov) \in Nat /\ Len(iov) <= 2 * MaxRequests
    BY DEF IInv, ServerTypeOK, Sending
  <2>2. Len(iov) - iovIdx < IOV_MAX
    BY <2>1, ClientAssumption, SenderAssumption
  <2>. QED BY <1>1, <2>1, <2>2, SenderAssumption
<1>4. <<>> \in Seq(Seq(Piece)) /\ <<>> \in Seq(Piece) /\ Len(<<>>) = 0
    BY EmptySeq
<1>5. Server!Unsent' = <<>>
  <2>1. Len(<<>>) + 1 = 1
    BY <1>4
  <2>2. Server!PiecesFrom(<<>>, Len(<<>>) + 1) = <<>>
    BY <1>4, PiecesFromUnfold, Zenon
  <2>. QED BY <1>1, <2>1, <2>2 DEF Server!Unsent
<1>6. Owed' = Owed
    BY <1>1, <1>3, <1>5 DEF Owed
<1>7. ClientTypeOK'
    BY <1>1, <1>2 DEF IInv, ClientTypeOK
<1>8. ServerTypeOK'
  <2>1. 1 \in 1..(0 + 1)
    OBVIOUS
  <2>. QED BY <1>1, <1>4, <2>1, Zenon DEF ServerTypeOK
<1>9. Books'
    BY <1>2, SameBooks DEF IInv
<1>10. Sending'
    BY <1>1, <1>2, <1>4, <1>5, ClientAssumption DEF IInv, Sending
<1>11. Back' = Back /\ Forward' = Forward
    BY <1>1, <1>2, <1>6 DEF Back, Forward, Rest
<1>12. OnTheWay'
    BY <1>2, <1>11, SameOnTheWay DEF IInv
<1>13. AnswersMatch'
    BY <1>2 DEF IInv, AnswersMatch
<1>. QED BY <1>7, <1>8, <1>9, <1>10, <1>12, <1>13 DEF IInv

\* Of a batch whose connection ends nothing will be sent.
LEMMA NothingOwed ==
    ASSUME IInv, Server!ConnectionEnds
    PROVE  /\ Owed' = <<>> /\ UNCHANGED <<iov, iovIdx, left>> /\ gone' = (left > 0)
           /\ Server!Unsent' = Server!Unsent
<1>1. UNCHANGED <<iov, iovIdx, left>> /\ gone' = (left > 0)
    BY DEF Server!ConnectionEnds
<1>2. Server!Unsent' = Server!Unsent
    BY <1>1 DEF Server!Unsent
<1>3. left = Len(Server!Unsent) /\ Server!Unsent \in Seq(Piece) /\ left \in Nat
    BY Sizes DEF IInv, Sending, ServerTypeOK
<1>4. CASE left > 0
    BY <1>1, <1>2, <1>4, Zenon DEF Owed
<1>5. CASE ~ (left > 0)
  <2>1. Server!Unsent = <<>>
    BY <1>3, <1>5, EmptySeq
  <2>. QED BY <1>1, <1>2, <1>5, <2>1 DEF Owed
<1>. QED BY <1>1, <1>2, <1>4, <1>5

LEMMA CloseStep ==
    ASSUME IInv, Server!ConnectionEnds, close
    PROVE  IInv'
<1>1. /\ socketFd' = "none" /\ pendingRequests' = <<>> /\ completedResponses' = {}
      /\ sendBuffer' = <<>> /\ sendOffset' = 0 /\ receiveBuffer' = <<>> /\ nextRequestId' = 1
      /\ uplink' = <<>> /\ downlink' = <<>> /\ ids' = {} /\ UNCHANGED <<answers, issued>>
    BY DEF close
<1>2. <<>> \in Seq(Piece) /\ <<>> \in Seq(Nat) /\ Len(<<>>) = 0 /\ issued \in 0..MaxRequests
    BY EmptySeq DEF IInv, ClientTypeOK
<1>3. ClientTypeOK'
    BY <1>1, <1>2 DEF ClientTypeOK
<1>4. ServerTypeOK'
    BY NothingOwed DEF IInv, ServerTypeOK
<1>5. Pending' = 0 /\ issued \in Nat
    BY <1>1, <1>2, ClientAssumption DEF Pending
<1>6. Books'
    BY <1>1, <1>5 DEF Books
<1>7. Sending'
    BY <1>1, NothingOwed, Zenon DEF IInv, Sending
<1>8. Back' = <<>> /\ Forward' = <<>>
  <2>1. Rest(<<>>, 0) = <<>>
    BY <1>2, RestNothing, Zenon
  <2>2. Forward' = <<>> \o Rest(<<>>, 0)
    BY <1>1 DEF Forward, Rest
  <2>3. Back' = <<>> \o <<>> \o <<>>
    BY <1>1, NothingOwed DEF Back
  <2>. QED BY <1>2, <2>1, <2>2, <2>3, ConcatEmptySeq
<1>9. OnTheWay'
  <2>1. Unread' = 0 /\ Oldest' = issued + 1 /\ 3 * (0 - 0) = 0
    BY <1>1, <1>2, <1>5, <1>8 DEF Unread, Oldest
  <2>2. \A r : Replies(r, 0) = <<>> /\ MessagesUpTo(r, 0) = <<>>
    BY DEF Replies, MessagesUpTo
  <2>. QED BY <1>2, <1>5, <1>8, <2>1, <2>2 DEF OnTheWay
<1>10. AnswersMatch'
    BY <1>1 DEF IInv, AnswersMatch
<1>. QED BY <1>3, <1>4, <1>6, <1>7, <1>9, <1>10 DEF IInv

\* After the server has closed the connection, what it sent can still be read.
LEMMA ServerClosesStep ==
    ASSUME IInv, Server!ConnectionEnds, ServerCloses
    PROVE  IInv'
<1>1. /\ socketFd' = "reset" /\ uplink' = <<>>
      /\ UNCHANGED <<pendingRequests, completedResponses, sendBuffer, sendOffset, receiveBuffer,
                     nextRequestId, downlink, ids, answers, issued>>
    BY DEF ServerCloses
<1>2. <<>> \in Seq(Piece)
    BY EmptySeq
<1>3. ClientTypeOK'
    BY <1>1, <1>2 DEF IInv, ClientTypeOK
<1>4. ServerTypeOK'
    BY NothingOwed DEF IInv, ServerTypeOK
<1>5. Books'
    BY <1>1, SameBooks DEF IInv
<1>6. Sending'
    BY <1>1, NothingOwed, Zenon DEF IInv, Sending
<1>7. Back' = receiveBuffer \o downlink
  <2>1. Back' = (receiveBuffer \o downlink) \o <<>>
    BY <1>1, NothingOwed DEF Back
  <2>2. receiveBuffer \o downlink \in Seq(Piece)
    BY Sizes
  <2>. QED BY <2>1, <2>2, ConcatEmptySeq
<1>8. OnTheWay'
  <2>1. Oldest' = Oldest
    BY <1>1 DEF Oldest, Pending
  <2>. QED BY <1>1, <1>7, <2>1, Received DEF OnTheWay
<1>9. AnswersMatch'
    BY <1>1 DEF IInv, AnswersMatch
<1>. QED BY <1>3, <1>4, <1>5, <1>6, <1>8, <1>9 DEF IInv

LEMMA StepInvariant ==
    ASSUME 2 * MaxRequests <= IOV_MAX, IInv, [Next]_vars
    PROVE  IInv'
<1>1. CASE ClientMoves
  <2>1. UNCHANGED server /\ ClientStep
    BY <1>1 DEF ClientMoves
  <2>2. CASE connect \/ BeginFlush \/ FlushThrows \/ BeginWait \/ BeginReceive \/ WaitThrows
    BY <2>1, <2>2, QuietStep
  <2>3. CASE enqueue
    BY <2>1, <2>3, EnqueueStep
  <2>4. CASE FlushStep
    BY <2>1, <2>4, FlushStepKeeps
  <2>5. CASE popCompleted
    BY <2>1, <2>5, PopStep
  <2>6. CASE tryParseResponse
    BY <2>1, <2>6, ParseStep
  <2>7. CASE Receive
    BY <2>1, <2>7, ReceiveStep
  <2>. QED BY <2>1, <2>2, <2>3, <2>4, <2>5, <2>6, <2>7 DEF ClientStep, WaitStep
<1>2. CASE ServerMoves
  <2>1. UNCHANGED <<client, user>> /\ Server!SenderStep
    BY <1>2 DEF ServerMoves
  <2>2. CASE Server!ReadBatch
    BY <2>1, <2>2, ReadBatchStep
  <2>3. CASE Server!Sendmsg
    BY <2>1, <2>3, SendmsgStep
  <2>4. CASE Server!SendmsgFails
    BY <2>1, <2>4, SendmsgFailsStep
  <2>. QED BY <2>1, <2>2, <2>3, <2>4 DEF Server!SenderStep
<1>3. CASE Disconnect
    BY <1>3, CloseStep, ServerClosesStep DEF Disconnect
<1>4. CASE UNCHANGED vars
  <2>1. /\ UNCHANGED <<socketFd, pendingRequests, completedResponses, sendBuffer, sendOffset,
                       receiveBuffer, nextRequestId, uplink, downlink, ids, answers, issued>>
        /\ UNCHANGED <<iov, iovIdx, left, gone>>
    BY <1>4 DEF vars, client, user, server
  <2>2. ClientTypeOK' /\ ServerTypeOK' /\ AnswersMatch'
    BY <2>1 DEF IInv, ClientTypeOK, ServerTypeOK, AnswersMatch
  <2>3. Books'
    BY <2>1, SameBooks DEF IInv
  <2>4. Sending'
    BY <2>1, SameSending DEF IInv, server
  <2>5. Back' = Back /\ Forward' = Forward
    BY <2>1 DEF Back, Owed, Forward, Server!Unsent, Rest
  <2>6. OnTheWay'
    BY <2>1, <2>5, SameOnTheWay DEF IInv
  <2>. QED BY <2>2, <2>3, <2>4, <2>6 DEF IInv
<1>. QED BY <1>1, <1>2, <1>3, <1>4 DEF Next

(* The queue of ids, the buffers, the socket and the iovecs stay in step,   *)
(* for every number of requests whose replies one sendmsg() can take, and   *)
(* every room on the socket.                                                *)
THEOREM ConversationInvariant ==
    ASSUME 2 * MaxRequests <= IOV_MAX
    PROVE  Spec => []IInv
<1>1. IInv /\ [Next]_vars => IInv'
    BY StepInvariant
<1>. QED BY <1>1, InitInvariant, PTL DEF Spec

(* AnswersMatch: whatever order answers are waited for in, wherever sends   *)
(* and receives cut the stream and whatever they throw, an id gets the      *)
(* answer to its own request.  The hypothesis is what the code lacks: with  *)
(* more iovecs in a batch than IOV_MAX its replies are dropped, and later   *)
(* ones are taken for them.                                                 *)
THEOREM AnswersBelongToTheirIds ==
    ASSUME 2 * MaxRequests <= IOV_MAX
    PROVE  Spec => []AnswersMatch
<1>1. IInv => AnswersMatch
    BY DEF IInv
<1>. QED BY <1>1, ConversationInvariant, PTL

(* PendingIsOnTheWay: as long as the connection stands, the stream holds    *)
(* the replies and the messages of just the pending requests, in order.     *)
THEOREM StreamHoldsPending ==
    ASSUME 2 * MaxRequests <= IOV_MAX
    PROVE  Spec => []PendingIsOnTheWay
<1>1. ASSUME IInv PROVE PendingIsOnTheWay
  <2>1. SUFFICES ASSUME socketFd = "open"
                 PROVE  /\ \A i \in 1..Pending : <<pendingRequests[i], Oldest + i - 1>> \in ids
                        /\ Unread <= Pending
                        /\ Back = Replies(Oldest, 3 * (Pending - Unread))
                        /\ Forward = MessagesUpTo(issued, Len(Forward))
    BY DEF PendingIsOnTheWay
  <2>2. ASSUME NEW i \in 1..Pending
        PROVE  <<pendingRequests[i], Oldest + i - 1>> \in ids
    <3>1. /\ pendingRequests[i] = nextRequestId - Pending + i - 1 /\ Pending < nextRequestId
          /\ nextRequestId \in Nat \ {0} /\ Pending \in Nat /\ issued \in Nat
          /\ \A j \in 1..(nextRequestId - 1) : <<j, Serial(j)>> \in ids
      BY <1>1, Sizes DEF IInv, ClientTypeOK, Books
    <3>2. /\ pendingRequests[i] \in 1..(nextRequestId - 1)
          /\ Serial(pendingRequests[i]) = Oldest + i - 1
      BY <3>1 DEF Serial, Oldest
    <3>. QED BY <3>1, <3>2
  <2>. QED BY <1>1, <2>1, <2>2, Sizes DEF IInv, OnTheWay
<1>. QED BY <1>1, ConversationInvariant, PTL
=============================================================================
