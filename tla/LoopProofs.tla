----------------------------- MODULE LoopProofs -----------------------------
(***************************************************************************)
(* What the loops of the code compute, for every input: the passes of      *)
(* Loop and Repeat one by one, by induction, and with them what the        *)
(* generator of table sizes (Primegen) queues and what the parser of RESP  *)
(* messages (RespProtocol) finds in a buffer.                              *)
(***************************************************************************)
EXTENDS Primegen, RespProtocol, SequenceTheorems, WellFoundedInduction, TLAPS

-----------------------------------------------------------------------------
\* Induction, and with it what a loop computes.

\* A set of numbers that is not empty has a least one.
LEMMA LeastNumber ==
    ASSUME NEW T \in SUBSET Nat, T # {}
    PROVE  \E x \in T : \A y \in T : x <= y
<1>. DEFINE R == OpToRel(<, Nat)
<1>1. IsWellFoundedOn(R, Nat)
    BY NatLessThanWellFounded, Zenon
<1>. HIDE DEF R
<1>2. \E x \in T : \A y \in T : ~ (<<y, x>> \in R)
    BY <1>1, WFMin, Zenon
<1>3. PICK x \in T : \A y \in T : ~ (<<y, x>> \in R)
    BY <1>2
<1>4. ASSUME NEW y \in T PROVE x <= y
  <2>1. ~ (y < x)
    BY <1>3, Zenon DEF R, OpToRel
  <2>. QED BY <2>1
<1>. QED BY <1>4

\* A set that holds 0, and with a number the next one, holds all of them.
LEMMA SetInduction ==
    ASSUME NEW S \in SUBSET Nat, 0 \in S, \A n \in S : n + 1 \in S
    PROVE  \A n \in Nat : n \in S
<1>. DEFINE T == Nat \ S
<1>1. SUFFICES ASSUME T # {} PROVE FALSE
    OBVIOUS
<1>2. PICK x \in T : \A y \in T : x <= y
    BY <1>1, LeastNumber, Zenon
<1>3. x # 0 /\ x - 1 \in Nat
    OBVIOUS
<1>4. x - 1 \in S
    BY <1>2, <1>3
<1>. QED BY <1>3, <1>4

\* g holds the variables of a loop after each of its first n passes.
Passed(g, S, passes, x, n) ==
    /\ g \in [0..n -> S]
    /\ g[0] = x
    /\ \A i \in 1..n : g[i] = passes[i][g[i - 1]]

\* Passes that stay in a set can be made one after the other.
LEMMA Passes ==
    ASSUME NEW S, NEW x \in S, NEW m \in Nat, NEW passes \in [1..m -> [S -> S]], NEW n \in 0..m
    PROVE  \E g : Passed(g, S, passes, x, n)
<1>. DEFINE T == {k \in Nat : k <= m => \E g : Passed(g, S, passes, x, k)}
<1>1. 0 \in T
  <2>. DEFINE g == [i \in 0..0 |-> x]
  <2>1. Passed(g, S, passes, x, 0)
    BY DEF Passed
  <2>. QED BY <2>1
<1>2. ASSUME NEW k \in T PROVE k + 1 \in T
  <2>1. SUFFICES ASSUME k + 1 <= m PROVE \E h : Passed(h, S, passes, x, k + 1)
    OBVIOUS
  <2>2. PICK g : Passed(g, S, passes, x, k)
    BY <2>1
  <2>. DEFINE y == passes[k + 1][g[k]]
              h == [i \in 0..(k + 1) |-> IF i <= k THEN g[i] ELSE y]
  <2>3. g[k] \in S /\ k + 1 \in 1..m
    BY <2>1, <2>2 DEF Passed
  <2>4. y \in S
    BY <2>3
  <2>5. h \in [0..(k + 1) -> S] /\ h[0] = x
    BY <2>2, <2>4 DEF Passed
  <2>6. ASSUME NEW i \in 1..(k + 1) PROVE h[i] = passes[i][h[i - 1]]
    <3>1. i - 1 \in 0..(k + 1) /\ i - 1 <= k /\ i \in 0..(k + 1)
      OBVIOUS
    <3>2. h[i - 1] = g[i - 1]
      BY <3>1
    <3>3. CASE i <= k
      BY <2>2, <3>1, <3>2, <3>3 DEF Passed
    <3>4. CASE i = k + 1
      <4>1. h[i] = passes[k + 1][g[k]] /\ i - 1 = k
        BY <3>1, <3>4
      <4>. QED BY <3>2, <3>4, <4>1
    <3>. QED BY <3>3, <3>4
  <2>. HIDE DEF h
  <2>. QED BY <2>5, <2>6 DEF Passed
<1>3. n \in T
  <2>1. n \in Nat /\ T \in SUBSET Nat
    OBVIOUS
  <2>. HIDE DEF T
  <2>. QED BY <1>1, <1>2, <2>1, SetInduction, Zenon
<1>. QED BY <1>3

\* What a loop computes is what passes made one after the other lead to.
LEMMA LoopIs ==
    ASSUME NEW S, NEW x \in S, NEW m \in Nat, NEW passes \in [1..m -> [S -> S]], NEW n \in 0..m,
           NEW g, Passed(g, S, passes, x, n)
    PROVE  Loop(passes, x, n) = g[n]
<1>. DEFINE Eq(f) == f = [i \in 0..n |-> IF i = 0 THEN x ELSE passes[i][f[i - 1]]]
            f == CHOOSE h : Eq(h)
<1>1. Loop(passes, x, n) = f[n]
    BY DEF Loop
<1>2. Eq(g)
  <2>1. ASSUME NEW i \in 0..n PROVE g[i] = IF i = 0 THEN x ELSE passes[i][g[i - 1]]
    BY DEF Passed
  <2>2. g \in [0..n -> S]
    BY DEF Passed
  <2>. QED BY <2>1, <2>2, Zenon
<1>3. Eq(f)
  <2>. HIDE DEF Eq
  <2>. QED BY <1>2
<1>. HIDE DEF f
<1>4. \A i \in 0..n : f[i] = IF i = 0 THEN x ELSE passes[i][f[i - 1]]
    BY <1>3, Zenon
<1>. DEFINE T == {i \in Nat : i <= n => f[i] = g[i]}
<1>5. 0 \in T
    BY <1>4 DEF Passed
<1>6. ASSUME NEW i \in T PROVE i + 1 \in T
  <2>1. SUFFICES ASSUME i + 1 <= n PROVE f[i + 1] = g[i + 1]
    OBVIOUS
  <2>2. i + 1 \in 1..n /\ i + 1 \in 0..n /\ (i + 1) - 1 = i /\ f[i] = g[i] /\ i + 1 # 0
    BY <2>1
  <2>3. f[i + 1] = passes[i + 1][f[i]]
    BY <1>4, <2>2
  <2>4. g[i + 1] = passes[i + 1][g[i]]
    BY <2>2 DEF Passed
  <2>. QED BY <2>2, <2>3, <2>4
<1>7. n \in T
  <2>1. n \in Nat /\ T \in SUBSET Nat
    OBVIOUS
  <2>. HIDE DEF T
  <2>. QED BY <1>5, <1>6, <2>1, SetInduction, Zenon
<1>. QED BY <1>1, <1>7

\* A loop, pass by pass.
PassesOn(S, passes, m) == passes \in [1..m -> [S -> S]]
PassByPass(S, passes, x, m) ==
    /\ Loop(passes, x, 0) = x
    /\ \A n \in 0..m : Loop(passes, x, n) \in S
    /\ \A n \in 1..m : Loop(passes, x, n) = passes[n][Loop(passes, x, n - 1)]

LEMMA LoopSteps ==
    ASSUME NEW S, NEW x \in S, NEW m \in Nat, NEW passes, PassesOn(S, passes, m)
    PROVE  PassByPass(S, passes, x, m)
<1>. passes \in [1..m -> [S -> S]]
    BY DEF PassesOn
<1>1. PICK g : Passed(g, S, passes, x, m)
    BY Passes
<1>2. ASSUME NEW n \in 0..m PROVE Loop(passes, x, n) = g[n]
  <2>. DEFINE h == [i \in 0..n |-> g[i]]
  <2>1. Passed(h, S, passes, x, n)
    BY <1>1 DEF Passed
  <2>. HIDE DEF h
  <2>2. Loop(passes, x, n) = h[n]
    BY <2>1, LoopIs
  <2>. QED BY <2>2 DEF h
<1>3. Loop(passes, x, 0) = x
    BY <1>1, <1>2 DEF Passed
<1>4. \A n \in 0..m : Loop(passes, x, n) \in S
    BY <1>1, <1>2 DEF Passed
<1>5. ASSUME NEW n \in 1..m PROVE Loop(passes, x, n) = passes[n][Loop(passes, x, n - 1)]
  <2>1. n \in 0..m /\ n - 1 \in 0..m
    OBVIOUS
  <2>. QED BY <1>1, <1>2, <2>1 DEF Passed
<1>. QED BY <1>3, <1>4, <1>5 DEF PassByPass

\* A loop whose passes are all the same.
PassOn(S, pass) == pass \in [S -> S]
Repeated(S, pass, x) ==
    /\ Repeat(pass, x, 0) = x
    /\ \A n \in Nat : Repeat(pass, x, n) \in S
    /\ \A n \in Nat : Repeat(pass, x, n + 1) = pass[Repeat(pass, x, n)]

LEMMA RepeatSteps ==
    ASSUME NEW S, NEW x \in S, NEW pass, PassOn(S, pass)
    PROVE  Repeated(S, pass, x)
<1>. pass \in [S -> S]
    BY DEF PassOn
<1>1. ASSUME NEW n \in Nat, NEW k \in Nat, k <= n
      PROVE  Loop([i \in 1..n |-> pass], x, k) = Loop([i \in 1..k |-> pass], x, k)
  <2>. DEFINE long == [i \in 1..n |-> pass]
              short == [i \in 1..k |-> pass]
  <2>1. long \in [1..n -> [S -> S]] /\ short \in [1..k -> [S -> S]]
    OBVIOUS
  <2>2. \A i \in 1..k : long[i] = short[i]
    BY <1>1
  <2>. HIDE DEF long, short
  <2>3. k \in 0..n /\ k \in 0..k
    BY <1>1
  <2>4. PICK g : Passed(g, S, long, x, k)
    BY <2>1, <2>3, Passes
  <2>5. Passed(g, S, short, x, k)
    BY <2>2, <2>4 DEF Passed
  <2>6. Loop(long, x, k) = g[k]
    BY <2>1, <2>3, <2>4, LoopIs
  <2>7. Loop(short, x, k) = g[k]
    BY <2>1, <2>3, <2>5, LoopIs
  <2>. QED BY <2>6, <2>7 DEF long, short
<1>2. ASSUME NEW n \in Nat
      PROVE  /\ Repeat(pass, x, 0) = x
             /\ Repeat(pass, x, n) \in S
             /\ Repeat(pass, x, n + 1) = pass[Repeat(pass, x, n)]
  <2>. DEFINE m == n + 1
              passes == [i \in 1..m |-> pass]
  <2>1. m \in Nat /\ 0 \in 0..m /\ n \in 0..m /\ m \in 1..m /\ m - 1 = n /\ n <= m /\ 0 <= m
    OBVIOUS
  <2>2. passes \in [1..m -> [S -> S]] /\ passes[m] = pass
    BY <2>1
  <2>3. Repeat(pass, x, m) = Loop(passes, x, m)
    BY DEF Repeat
  <2>4. Repeat(pass, x, n) = Loop(passes, x, n) /\ Repeat(pass, x, 0) = Loop(passes, x, 0)
    BY <1>1, <2>1, Zenon DEF Repeat
  <2>. HIDE DEF passes, m
  <2>5. /\ Loop(passes, x, 0) = x
        /\ Loop(passes, x, n) \in S
        /\ Loop(passes, x, m) = passes[m][Loop(passes, x, n)]
    BY <2>1, <2>2, LoopSteps DEF PassesOn, PassByPass
  <2>. QED BY <2>2, <2>3, <2>4, <2>5 DEF m
<1>. QED BY <1>2 DEF Repeated

-----------------------------------------------------------------------------
\* Digits and numbers.

\* A digit has a value, which is 0 for no digit but "0".
LEMMA DigitValues ==
    /\ \A d \in Digits : Digit[d] \in 0..9
    /\ \A d \in Digits : Digit[d] = 0 => d = "0"
    /\ \A i \in 1..10 : DigitBytes[i] \in Digits /\ Digit[DigitBytes[i]] = i - 1
<1>2. \A i, j \in 1..10 : DigitBytes[i] = DigitBytes[j] => i = j
    BY DEF DigitBytes
<1>3. DigitBytes[1] = "0"
    BY DEF DigitBytes
<1>4. Digits = {DigitBytes[i] : i \in 1..10}
    BY DEF Digits, DigitBytes
<1>5. ASSUME NEW i \in 1..10
      PROVE  DigitBytes[i] \in Digits /\ Digit[DigitBytes[i]] = i - 1
  <2>1. (CHOOSE j \in 1..10 : DigitBytes[j] = DigitBytes[i]) = i
    BY <1>2
  <2>2. DigitBytes[i] \in Digits
    BY <1>4
  <2>3. Digit[DigitBytes[i]] = (CHOOSE j \in 1..10 : DigitBytes[j] = DigitBytes[i]) - 1
    BY <2>2, Zenon DEF Digit
  <2>. QED BY <2>1, <2>2, <2>3, Zenon
<1>6. ASSUME NEW d \in Digits PROVE \E i \in 1..10 : d = DigitBytes[i]
    BY <1>4, Zenon
<1>. QED BY <1>3, <1>5, <1>6

LEMMA DigitType ==
    ASSUME NEW d \in Digits
    PROVE  Digit[d] \in Nat
BY DigitValues

LEMMA NotDigits ==
    /\ ~is_digit("cr") /\ ~is_digit("lf") /\ ~is_digit("*") /\ ~is_digit("$")
BY DEF is_digit, Digits

\* The number a sequence of digits stands for, digit by digit.
LEMMA DecimalSteps ==
    ASSUME NEW digits \in Seq(Digits)
    PROVE  \E value \in [0..Len(digits) -> Nat] :
              /\ value[0] = 0
              /\ \A i \in 1..Len(digits) : value[i] = value[i - 1] * 10 + Digit[digits[i]]
              /\ Decimal(digits) = value[Len(digits)]
<1>. DEFINE m == Len(digits)
            passes == [i \in DOMAIN digits |-> [val \in Nat |-> val * 10 + Digit[digits[i]]]]
            value == [i \in 0..m |-> Loop(passes, 0, i)]
<1>1. m \in Nat /\ DOMAIN digits = 1..m /\ \A i \in 1..m : digits[i] \in Digits
    OBVIOUS
<1>2. \A i \in 1..m : Digit[digits[i]] \in Nat
    BY <1>1, DigitType
<1>3. passes \in [1..m -> [Nat -> Nat]]
    BY <1>1, <1>2
<1>4. \A i \in 1..m, val \in Nat : passes[i][val] = val * 10 + Digit[digits[i]]
    BY <1>1
<1>5. Decimal(digits) = Loop(passes, 0, m)
    BY DEF Decimal
<1>. HIDE DEF passes, m
<1>6. /\ Loop(passes, 0, 0) = 0
      /\ \A n \in 0..m : Loop(passes, 0, n) \in Nat
      /\ \A n \in 1..m : Loop(passes, 0, n) = passes[n][Loop(passes, 0, n - 1)]
  <2>1. PassesOn(Nat, passes, m) /\ 0 \in Nat
    BY <1>3 DEF PassesOn
  <2>2. PassByPass(Nat, passes, 0, m)
    BY <1>1, <2>1, LoopSteps, Zenon
  <2>. QED BY <2>2, Zenon DEF PassByPass
<1>7. value \in [0..m -> Nat] /\ value[0] = 0 /\ Decimal(digits) = value[m]
    BY <1>1, <1>5, <1>6
<1>8. ASSUME NEW i \in 1..m PROVE value[i] = value[i - 1] * 10 + Digit[digits[i]]
  <2>1. i \in 0..m /\ i - 1 \in 0..m
    BY <1>1
  <2>. QED BY <1>4, <1>6, <2>1, Zenon
<1>. QED BY <1>7, <1>8, Zenon DEF m

LEMMA DecimalType ==
    ASSUME NEW digits \in Seq(Digits)
    PROVE  Decimal(digits) \in Nat
BY DecimalSteps

\* A number that does not begin with 0 is not 0.
LEMMA DecimalNotZero ==
    ASSUME NEW digits \in Seq(Digits), digits # <<>>, digits[1] # "0"
    PROVE  Decimal(digits) # 0
<1>1. PICK value \in [0..Len(digits) -> Nat] :
              /\ value[0] = 0
              /\ \A i \in 1..Len(digits) : value[i] = value[i - 1] * 10 + Digit[digits[i]]
              /\ Decimal(digits) = value[Len(digits)]
    BY DecimalSteps
<1>2. \A i \in 1..Len(digits) : digits[i] \in Digits
    OBVIOUS
<1>3. Len(digits) \in Nat /\ Len(digits) > 0
    OBVIOUS
<1>. DEFINE T == {k \in Nat : k + 1 <= Len(digits) => value[k + 1] > 0}
<1>4. 0 \in T
  <2>1. 1 \in 1..Len(digits) /\ 1 - 1 = 0
    BY <1>3
  <2>2. digits[1] \in Digits
    BY <1>2, <2>1
  <2>3. Digit[digits[1]] \in Nat /\ Digit[digits[1]] # 0
    BY <2>2, DigitValues, SMTT(30)
  <2>4. value[1] = Digit[digits[1]]
    BY <1>1, <2>1, <2>3
  <2>. QED BY <2>3, <2>4
<1>5. ASSUME NEW k \in T PROVE k + 1 \in T
  <2>1. SUFFICES ASSUME (k + 1) + 1 <= Len(digits) PROVE value[(k + 1) + 1] > 0
    OBVIOUS
  <2>. DEFINE i == (k + 1) + 1
  <2>2. i \in 1..Len(digits) /\ i - 1 = k + 1 /\ i - 1 \in 0..Len(digits)
    BY <2>1, <1>3
  <2>3. value[i - 1] \in Nat /\ value[i - 1] > 0
    BY <1>1, <2>1, <2>2
  <2>4. Digit[digits[i]] \in Nat
    BY <1>2, <2>2, DigitType
  <2>. HIDE DEF i
  <2>5. value[i] > 0
    BY <1>1, <2>2, <2>3, <2>4
  <2>. QED BY <2>5 DEF i
<1>6. \A k \in Nat : k \in T
  <2>. HIDE DEF T
  <2>. QED BY <1>4, <1>5, SetInduction, Zenon DEF T
<1>7. Len(digits) - 1 \in T
    BY <1>3, <1>6
<1>. QED BY <1>1, <1>3, <1>7

\* Where the digits end is one place.
LEMMA DigitsEndIs ==
    ASSUME NEW buf \in Seq(STRING), NEW idx \in 1..(Len(buf) + 1),
           NEW stop \in idx..(Len(buf) + 1),
           \A j \in idx..(stop - 1) : is_digit(buf[j]),
           stop <= Len(buf) => ~is_digit(buf[stop])
    PROVE  DigitsEnd(buf, idx) = stop
<1>. DEFINE End(i) == /\ \A j \in idx..(i - 1) : is_digit(buf[j])
                      /\ i <= Len(buf) => ~is_digit(buf[i])
<1>1. Len(buf) \in Nat
    OBVIOUS
<1>2. ASSUME NEW i \in idx..(Len(buf) + 1), End(i) PROVE i = stop
  <2>1. CASE i < stop
    <3>1. i \in idx..(stop - 1) /\ i <= Len(buf)
      BY <1>1, <2>1
    <3>. QED BY <1>2, <3>1
  <2>2. CASE stop < i
    <3>1. stop \in idx..(i - 1) /\ stop <= Len(buf)
      BY <1>1, <2>2
    <3>. QED BY <1>2, <3>1
  <2>. QED BY <2>1, <2>2
<1>3. End(stop)
    OBVIOUS
<1>4. DigitsEnd(buf, idx) = CHOOSE i \in idx..(Len(buf) + 1) : End(i)
    BY DEF DigitsEnd
<1>. HIDE DEF End
<1>. QED BY <1>2, <1>3, <1>4, Zenon

LEMMA DigitsEndFacts ==
    ASSUME NEW buf \in Seq(STRING), NEW idx \in 1..(Len(buf) + 1)
    PROVE  /\ DigitsEnd(buf, idx) \in idx..(Len(buf) + 1)
           /\ \A j \in idx..(DigitsEnd(buf, idx) - 1) : is_digit(buf[j])
           /\ DigitsEnd(buf, idx) <= Len(buf) => ~is_digit(buf[DigitsEnd(buf, idx)])
<1>. DEFINE T == {i \in idx..(Len(buf) + 1) : i <= Len(buf) => ~is_digit(buf[i])}
<1>1. Len(buf) \in Nat
    OBVIOUS
<1>2. T \in SUBSET Nat /\ Len(buf) + 1 \in T
    BY <1>1
<1>3. PICK stop \in T : \A y \in T : stop <= y
    BY <1>2, LeastNumber, Zenon
<1>4. \A j \in idx..(stop - 1) : is_digit(buf[j])
  <2>1. SUFFICES ASSUME NEW j \in idx..(stop - 1), ~is_digit(buf[j]) PROVE FALSE
    OBVIOUS
  <2>2. j \in T
    BY <1>1, <2>1
  <2>. QED BY <1>3, <2>2
<1>5. DigitsEnd(buf, idx) = stop
    BY <1>3, <1>4, DigitsEndIs
<1>. QED BY <1>3, <1>4, <1>5

\* A number that was read, with the digits it was read from.
IsNumber(buf, idx, n) ==
    LET stop == DigitsEnd(buf, idx)
    IN  /\ n.at \in Nat /\ n.val \in Nat
        /\ \/ n.end = "error"
           \/ /\ n.end = "cut" /\ stop > idx /\ stop = Len(buf) + 1 /\ n.at = stop
              /\ n.val = Decimal(SubSeq(buf, idx, stop - 1))
           \/ /\ n.end = "crlf" /\ stop > idx /\ CrLfAt(buf, stop) /\ n.at = stop + 2
              /\ n.val = Decimal(SubSeq(buf, idx, stop - 1))

LEMMA DigitsAreDigits ==
    ASSUME NEW buf \in Seq(STRING), NEW idx \in 1..(Len(buf) + 1),
           NEW stop \in idx..(Len(buf) + 1), \A j \in idx..(stop - 1) : is_digit(buf[j])
    PROVE  /\ SubSeq(buf, idx, stop - 1) \in Seq(Digits)
           /\ Len(SubSeq(buf, idx, stop - 1)) = stop - idx
           /\ \A i \in 1..(stop - idx) : SubSeq(buf, idx, stop - 1)[i] = buf[idx + i - 1]
<1>1. \A j \in idx..(stop - 1) : buf[j] \in Digits
    BY DEF is_digit
<1>2. Len(buf) \in Nat
    OBVIOUS
<1>. QED BY <1>1, <1>2, SubSeqProperties

LEMMA NumberFacts ==
    ASSUME NEW buf \in Seq(STRING), NEW idx \in 1..(Len(buf) + 1)
    PROVE  IsNumber(buf, idx, read_crlf_decimal(buf, idx))
<1>. DEFINE stop == DigitsEnd(buf, idx)
            val == Decimal(SubSeq(buf, idx, stop - 1))
<1>1. stop \in idx..(Len(buf) + 1) /\ Len(buf) \in Nat
    BY DigitsEndFacts
<1>2. val \in Nat
  <2>1. SubSeq(buf, idx, stop - 1) \in Seq(Digits)
    BY <1>1, DigitsEndFacts, DigitsAreDigits
  <2>. QED BY <2>1, DecimalType, Zenon
<1>3. read_crlf_decimal(buf, idx) =
         IF stop = idx THEN Number("error", stop, 0)
         ELSE IF stop > Len(buf) THEN Number("cut", stop, val)
         ELSE IF CrLfAt(buf, stop) THEN Number("crlf", stop + 2, val)
         ELSE Number("error", stop, 0)
    BY DEF read_crlf_decimal
<1>5. IsNumber(buf, idx, read_crlf_decimal(buf, idx)) <=>
        LET n == read_crlf_decimal(buf, idx)
        IN  /\ n.at \in Nat /\ n.val \in Nat
            /\ \/ n.end = "error"
               \/ /\ n.end = "cut" /\ stop > idx /\ stop = Len(buf) + 1 /\ n.at = stop
                  /\ n.val = val
               \/ /\ n.end = "crlf" /\ stop > idx /\ CrLfAt(buf, stop) /\ n.at = stop + 2
                  /\ n.val = val
    BY DEF IsNumber
<1>. HIDE DEF stop, val
<1>. QED BY <1>1, <1>2, <1>3, <1>5 DEF Number

\* The number is what its digits and their end make it.
LEMMA NumberIs ==
    ASSUME NEW buf \in Seq(STRING), NEW idx \in 1..(Len(buf) + 1),
           NEW stop \in idx..(Len(buf) + 1), stop > idx,
           \A j \in idx..(stop - 1) : is_digit(buf[j]),
           CrLfAt(buf, stop)
    PROVE  read_crlf_decimal(buf, idx) =
              Number("crlf", stop + 2, Decimal(SubSeq(buf, idx, stop - 1)))
<1>1. Len(buf) \in Nat /\ stop <= Len(buf) /\ ~is_digit(buf[stop])
    BY NotDigits DEF CrLfAt, RESP_CR
<1>2. DigitsEnd(buf, idx) = stop
    BY <1>1, DigitsEndIs
<1>. QED BY <1>1, <1>2 DEF read_crlf_decimal

-----------------------------------------------------------------------------
\* Two buffers that hold the same k bytes, after their first d and e bytes.
Alike(a, d, b, e, k) ==
    /\ a \in Seq(STRING) /\ b \in Seq(STRING)
    /\ d \in Nat /\ e \in Nat /\ k \in Nat
    /\ d + k <= Len(a) /\ e + k <= Len(b)
    /\ \A i \in 1..k : a[d + i] = b[e + i]

\* A number within those bytes is read alike in both.
LEMMA NumberAlike ==
    ASSUME NEW a, NEW d, NEW b, NEW e, NEW k, Alike(a, d, b, e, k),
           NEW idx \in 1..k,
           read_crlf_decimal(a, d + idx).end = "crlf",
           read_crlf_decimal(a, d + idx).at <= d + k + 1
    PROVE  read_crlf_decimal(b, e + idx) =
              Number("crlf", e + (read_crlf_decimal(a, d + idx).at - d),
                     read_crlf_decimal(a, d + idx).val)
<1>. DEFINE p == d + idx
            q == e + idx
            na == read_crlf_decimal(a, p)
            stop == DigitsEnd(a, p)
            end == e + (stop - d)
<1>1. /\ a \in Seq(STRING) /\ b \in Seq(STRING) /\ d \in Nat /\ e \in Nat /\ k \in Nat
      /\ d + k <= Len(a) /\ e + k <= Len(b) /\ Len(a) \in Nat /\ Len(b) \in Nat
    BY DEF Alike
<1>2. \A i \in 1..k : a[d + i] = b[e + i]
    BY DEF Alike
<1>3. p \in 1..(Len(a) + 1) /\ q \in 1..(Len(b) + 1)
    BY <1>1
<1>4. /\ stop \in p..(Len(a) + 1) /\ stop \in Nat
      /\ \A j \in p..(stop - 1) : is_digit(a[j])
    BY <1>1, <1>3, DigitsEndFacts
<1>5. na.end = "crlf" /\ na.at <= d + k + 1
    OBVIOUS
<1>6. /\ na.at = stop + 2 /\ na.val = Decimal(SubSeq(a, p, stop - 1))
      /\ stop > p /\ CrLfAt(a, stop)
  <2>1. IsNumber(a, p, na)
    BY <1>1, <1>3, NumberFacts, Zenon
  <2>. HIDE DEF na
  <2>. QED BY <1>5, <2>1 DEF IsNumber
<1>. HIDE DEF na, stop
<1>7. /\ stop + 1 <= d + k
      /\ end \in q..(Len(b) + 1) /\ end > q /\ end \in Nat
      /\ end + 2 = e + (na.at - d) /\ end - q = stop - p /\ end < Len(b)
    BY <1>1, <1>3, <1>4, <1>5, <1>6
<1>8. \A j \in p..(stop + 1) : a[j] = b[q + (j - p)]
  <2>1. TAKE j \in p..(stop + 1)
  <2>2. j - d \in 1..k /\ d + (j - d) = j /\ e + (j - d) = q + (j - p)
    BY <1>1, <1>3, <1>4, <1>7
  <2>. QED BY <1>2, <2>2
<1>9. q + (stop - p) = end /\ q + ((stop + 1) - p) = end + 1
    BY <1>1, <1>3, <1>4
<1>10. p \in Nat /\ q \in Nat
    BY <1>1
<1>. HIDE DEF p, q, end
<1>11. ASSUME NEW j \in q..(end - 1) PROVE is_digit(b[j])
  <2>1. p + (j - q) \in p..(stop - 1) /\ p + (j - q) \in p..(stop + 1)
        /\ q + ((p + (j - q)) - p) = j
    BY <1>3, <1>4, <1>7, <1>10
  <2>. QED BY <1>4, <1>8, <2>1
<1>12. CrLfAt(b, end)
  <2>1. stop \in p..(stop + 1) /\ stop + 1 \in p..(stop + 1)
    BY <1>4, <1>10
  <2>2. a[stop] = b[end] /\ a[stop + 1] = b[end + 1]
    BY <1>8, <1>9, <2>1
  <2>3. a[stop] = RESP_CR /\ a[stop + 1] = RESP_LF
    BY <1>6, Zenon DEF CrLfAt
  <2>. QED BY <1>7, <2>2, <2>3, Zenon DEF CrLfAt
<1>13. read_crlf_decimal(b, q) = Number("crlf", end + 2, Decimal(SubSeq(b, q, end - 1)))
    BY <1>1, <1>3, <1>7, <1>11, <1>12, NumberIs
<1>14. SubSeq(b, q, end - 1) = SubSeq(a, p, stop - 1)
  <2>. DEFINE s == SubSeq(b, q, end - 1)
              t == SubSeq(a, p, stop - 1)
  <2>1. /\ s \in Seq(Digits) /\ Len(s) = end - q
        /\ \A i \in 1..(end - q) : s[i] = b[q + i - 1]
    BY <1>1, <1>3, <1>7, <1>11, DigitsAreDigits, Zenon
  <2>2. /\ t \in Seq(Digits) /\ Len(t) = stop - p
        /\ \A i \in 1..(stop - p) : t[i] = a[p + i - 1]
    BY <1>1, <1>3, <1>4, DigitsAreDigits, Zenon
  <2>. HIDE DEF s, t
  <2>3. ASSUME NEW i \in 1..Len(s) PROVE s[i] = t[i]
    <3>1. /\ i \in 1..(end - q) /\ i \in 1..(stop - p)
          /\ p + i - 1 \in p..(stop + 1) /\ q + ((p + i - 1) - p) = q + i - 1
      BY <1>3, <1>4, <1>7, <1>10, <2>1
    <3>. QED BY <1>8, <2>1, <2>2, <3>1
  <2>4. Len(s) = Len(t)
    BY <1>7, <2>1, <2>2
  <2>5. s = t
    BY <2>1, <2>2, <2>3, <2>4, SeqEqual
  <2>. QED BY <2>5, Zenon DEF s, t
<1>. QED BY <1>6, <1>7, <1>13, <1>14, Zenon DEF na, p, q

\* A bulk string of a buffer from idx on, and where the next one begins.
IsBulk(buf, idx, next) ==
    LET len == read_crlf_decimal(buf, idx + 1)
    IN  /\ idx <= Len(buf) /\ buf[idx] = RESP_BULK_PREFIX
        /\ len.end = "crlf" /\ len.at \in Nat /\ len.val \in Nat /\ len.at > idx + 3
        /\ next = len.at + len.val + 2 /\ next <= Len(buf) + 1
        /\ CrLfAt(buf, len.at + len.val)

LEMMA BulkIs ==
    ASSUME NEW buf \in Seq(STRING), NEW idx \in Nat, NEW next, IsBulk(buf, idx, next)
    PROVE  BulkAt(buf, idx) = Place("complete", next)
<1>. DEFINE len == read_crlf_decimal(buf, idx + 1)
            end == len.at + len.val
<1>1. /\ idx <= Len(buf) /\ buf[idx] = RESP_BULK_PREFIX
      /\ len.end = "crlf" /\ end \in Nat
      /\ next = end + 2 /\ end + 1 <= Len(buf) /\ CrLfAt(buf, end) /\ Len(buf) \in Nat
    BY DEF IsBulk
<1>2. ~(idx > Len(buf)) /\ ~(end + 1 > Len(buf))
    BY <1>1
<1>3. BulkAt(buf, idx) =
        IF idx > Len(buf) THEN Place("incomplete", idx)
        ELSE IF buf[idx] # RESP_BULK_PREFIX \/ len.end = "error" THEN Place("error", idx)
        ELSE IF end + 1 > Len(buf) THEN Place("incomplete", idx)
        ELSE IF ~CrLfAt(buf, end) THEN Place("error", idx)
        ELSE Place("complete", end + 2)
    BY DEF BulkAt
<1>. HIDE DEF len, end
<1>. QED BY <1>1, <1>2, <1>3

LEMMA BulkFacts ==
    ASSUME NEW buf \in Seq(STRING), NEW idx \in Nat
    PROVE  /\ BulkAt(buf, idx) \in Places
           /\ BulkAt(buf, idx).status = "complete" => IsBulk(buf, idx, BulkAt(buf, idx).idx)
<1>. DEFINE len == read_crlf_decimal(buf, idx + 1)
            end == len.at + len.val
<1>1. Len(buf) \in Nat
    OBVIOUS
<1>2. BulkAt(buf, idx) =
        IF idx > Len(buf) THEN Place("incomplete", idx)
        ELSE IF buf[idx] # RESP_BULK_PREFIX \/ len.end = "error" THEN Place("error", idx)
        ELSE IF end + 1 > Len(buf) THEN Place("incomplete", idx)
        ELSE IF ~CrLfAt(buf, end) THEN Place("error", idx)
        ELSE Place("complete", end + 2)
    BY DEF BulkAt
<1>3. CASE idx > Len(buf)
    BY <1>2, <1>3 DEF Place, Places
<1>4. CASE idx <= Len(buf)
  <2>1. idx + 1 \in 1..(Len(buf) + 1)
    BY <1>1, <1>4
  <2>2. IsNumber(buf, idx + 1, len)
    BY <2>1, NumberFacts
  <2>3. DigitsEnd(buf, idx + 1) \in Nat /\ DigitsEnd(buf, idx + 1) >= idx + 1
    BY <1>1, <2>1, DigitsEndFacts
  <2>. HIDE DEF len
  <2>4. len.at \in Nat /\ len.val \in Nat /\ end \in Nat
    BY <2>2 DEF IsNumber
  <2>5. len.end # "error" /\ end + 1 <= Len(buf) => len.end = "crlf" /\ len.at > idx + 3
    BY <1>1, <2>2, <2>3, <2>4 DEF IsNumber
  <2>6. BulkAt(buf, idx) \in Places
    BY <1>2, <2>4 DEF Place, Places
  <2>7. ASSUME BulkAt(buf, idx).status = "complete"
        PROVE  IsBulk(buf, idx, BulkAt(buf, idx).idx)
    <3>1. /\ buf[idx] = RESP_BULK_PREFIX /\ len.end # "error" /\ ~(end + 1 > Len(buf))
          /\ CrLfAt(buf, end) /\ BulkAt(buf, idx).idx = end + 2
      BY <1>2, <2>7 DEF Place
    <3>2. end + 1 <= Len(buf) /\ end + 2 <= Len(buf) + 1
      BY <1>1, <2>4, <3>1
    <3>. QED BY <1>4, <2>4, <2>5, <3>1, <3>2 DEF IsBulk, len
  <2>. QED BY <2>6, <2>7
<1>. QED BY <1>1, <1>3, <1>4

\* A bulk string within the bytes two buffers share is found in both.
LEMMA BulkAlike ==
    ASSUME NEW a, NEW d, NEW b, NEW e, NEW k, Alike(a, d, b, e, k),
           NEW idx \in 1..k, NEW next \in Nat, IsBulk(a, d + idx, next), next <= d + k + 1
    PROVE  IsBulk(b, e + idx, e + (next - d))
<1>. DEFINE len == read_crlf_decimal(a, (d + idx) + 1)
            at == len.at
            val == len.val
            i == idx + 1
            there == e + (at - d)
            end == there + val
<1>1. /\ a \in Seq(STRING) /\ b \in Seq(STRING) /\ d \in Nat /\ e \in Nat /\ k \in Nat
      /\ d + k <= Len(a) /\ e + k <= Len(b) /\ Len(a) \in Nat /\ Len(b) \in Nat
    BY DEF Alike
<1>2. \A j \in 1..k : a[d + j] = b[e + j]
    BY DEF Alike
<1>3. /\ a[d + idx] = RESP_BULK_PREFIX /\ len.end = "crlf"
      /\ at \in Nat /\ val \in Nat /\ at > (d + idx) + 3
      /\ next = at + val + 2 /\ CrLfAt(a, at + val)
    BY DEF IsBulk
<1>4. (d + idx) + 1 = d + i /\ (e + idx) + 1 = e + i
    BY <1>1
<1>5. len = read_crlf_decimal(a, d + i)
    BY <1>4
<1>. HIDE DEF len, at, val
<1>6. i \in 1..k /\ at <= d + k + 1
    BY <1>1, <1>3
<1>. HIDE DEF i
<1>7. read_crlf_decimal(b, e + i) = Number("crlf", there, val)
    BY <1>3, <1>5, <1>6, NumberAlike DEF at, val
<1>8. /\ there \in Nat /\ end \in Nat /\ there > (e + idx) + 3 /\ e + idx <= Len(b)
      /\ e + (next - d) = end + 2 /\ end + 2 <= Len(b) + 1 /\ end < Len(b)
    BY <1>1, <1>3
<1>9. CrLfAt(b, end)
  <2>. DEFINE j == (at + val) - d
  <2>1. j \in 1..k /\ j + 1 \in 1..k /\ d + j = at + val /\ d + (j + 1) = (at + val) + 1
        /\ e + j = end /\ e + (j + 1) = end + 1
    BY <1>1, <1>3
  <2>2. a[at + val] = b[end] /\ a[(at + val) + 1] = b[end + 1]
    BY <1>2, <2>1
  <2>3. a[at + val] = RESP_CR /\ a[(at + val) + 1] = RESP_LF
    BY <1>3, Zenon DEF CrLfAt
  <2>. HIDE DEF end
  <2>. QED BY <1>8, <2>2, <2>3, Zenon DEF CrLfAt
<1>10. b[e + idx] = RESP_BULK_PREFIX
    BY <1>2, <1>3
<1>11. /\ read_crlf_decimal(b, (e + idx) + 1).end = "crlf"
       /\ read_crlf_decimal(b, (e + idx) + 1).at = there
       /\ read_crlf_decimal(b, (e + idx) + 1).val = val
    BY <1>4, <1>7 DEF Number
<1>. HIDE DEF there
<1>12. e + (next - d) = (there + val) + 2 /\ e + (next - d) <= Len(b) + 1
    BY <1>8
<1>. QED BY <1>3, <1>8, <1>9, <1>10, <1>11, <1>12, Zenon DEF IsBulk

\* Where n bulk strings from idx on lead.
BulksFrom(buf, idx, n) == Repeat(SkipBulk(buf), Place("complete", idx), n)

LEMMA BulksSteps ==
    ASSUME NEW buf \in Seq(STRING), NEW idx \in Nat
    PROVE  /\ BulksFrom(buf, idx, 0) = Place("complete", idx)
           /\ \A n \in Nat : BulksFrom(buf, idx, n) \in Places
           /\ \A n \in Nat : BulksFrom(buf, idx, n + 1) =
                 IF BulksFrom(buf, idx, n).status = "complete"
                 THEN BulkAt(buf, BulksFrom(buf, idx, n).idx) ELSE BulksFrom(buf, idx, n)
<1>. DEFINE pass == SkipBulk(buf)
            x == Place("complete", idx)
<1>1. x \in Places
    BY DEF Place, Places
<1>2. ASSUME NEW p \in Places PROVE BulkAt(buf, p.idx) \in Places
  <2>1. p.idx \in Nat
    BY DEF Places
  <2>. QED BY <2>1, BulkFacts
<1>3. PassOn(Places, pass)
    BY <1>2 DEF PassOn, SkipBulk
<1>4. \A p \in Places : pass[p] = IF p.status = "complete" THEN BulkAt(buf, p.idx) ELSE p
    BY Zenon DEF SkipBulk
<1>. HIDE DEF pass, x
<1>5. Repeated(Places, pass, x)
    BY <1>1, <1>3, RepeatSteps, Zenon
<1>6. \A n \in Nat : BulksFrom(buf, idx, n) = Repeat(pass, x, n)
    BY DEF BulksFrom, pass, x
<1>7. \A n \in Nat : Repeat(pass, x, n) \in Places
    BY <1>5, Zenon DEF Repeated
<1>8. Repeat(pass, x, 0) = x
    BY <1>5, Zenon DEF Repeated
<1>9. ASSUME NEW n \in Nat
      PROVE  Repeat(pass, x, n + 1) =
                IF Repeat(pass, x, n).status = "complete"
                THEN BulkAt(buf, Repeat(pass, x, n).idx) ELSE Repeat(pass, x, n)
    BY <1>4, <1>5, <1>7, Zenon DEF Repeated
<1>10. \A n \in Nat : n + 1 \in Nat
    OBVIOUS
<1>11. 0 \in Nat
    OBVIOUS
<1>. QED BY <1>6, <1>7, <1>8, <1>9, <1>10, <1>11, Zenon DEF x

\* Each bulk string takes at least a byte, and all of them lie in the buffer.
LEMMA BulksWithin ==
    ASSUME NEW buf \in Seq(STRING), NEW idx \in 1..(Len(buf) + 1), NEW n \in Nat,
           BulksFrom(buf, idx, n).status = "complete"
    PROVE  /\ BulksFrom(buf, idx, n).idx \in idx..(Len(buf) + 1)
           /\ n > 0 => BulksFrom(buf, idx, n).idx > idx
<1>. DEFINE B(k) == BulksFrom(buf, idx, k)
            T == {k \in Nat : B(k).status = "complete" =>
                                /\ B(k).idx \in idx..(Len(buf) + 1)
                                /\ k > 0 => B(k).idx > idx}
<1>1. Len(buf) \in Nat /\ idx \in Nat
    OBVIOUS
<1>2. /\ B(0) = Place("complete", idx)
      /\ \A k \in Nat : B(k) \in Places
      /\ \A k \in Nat : B(k + 1) = IF B(k).status = "complete" THEN BulkAt(buf, B(k).idx) ELSE B(k)
    BY <1>1, BulksSteps, Zenon
<1>. HIDE DEF B
<1>3. 0 \in T
  <2>1. B(0).idx = idx
    BY <1>2 DEF Place
  <2>2. idx \in idx..(Len(buf) + 1)
    BY <1>1
  <2>. QED BY <2>1, <2>2
<1>4. ASSUME NEW k \in T PROVE k + 1 \in T
  <2>1. SUFFICES ASSUME B(k + 1).status = "complete"
                 PROVE  B(k + 1).idx \in idx..(Len(buf) + 1) /\ B(k + 1).idx > idx
    OBVIOUS
  <2>. DEFINE x == B(k).idx
              y == B(k + 1).idx
  <2>2. B(k).status = "complete" /\ B(k + 1) = BulkAt(buf, x)
    BY <1>2, <2>1, Zenon
  <2>3. x \in Nat /\ x >= idx
    BY <1>1, <2>2
  <2>4. IsBulk(buf, x, y)
    BY <2>1, <2>2, <2>3, BulkFacts
  <2>. HIDE DEF x, y
  <2>5. y \in Nat /\ y <= Len(buf) + 1 /\ y > x
    BY <1>1, <2>3, <2>4 DEF IsBulk
  <2>6. y \in idx..(Len(buf) + 1) /\ y > idx
    BY <1>1, <2>3, <2>5
  <2>. QED BY <2>6 DEF y
<1>5. n \in T
  <2>. HIDE DEF T
  <2>. QED BY <1>3, <1>4, SetInduction, Zenon DEF T
<1>. QED BY <1>5 DEF B

\* Bulk strings within the bytes two buffers share are found in both.
LEMMA BulksAlike ==
    ASSUME NEW a, NEW d, NEW b, NEW e, NEW k, Alike(a, d, b, e, k),
           NEW idx \in 1..(k + 1), NEW n \in Nat,
           BulksFrom(a, d + idx, n).status = "complete",
           BulksFrom(a, d + idx, n).idx <= d + k + 1
    PROVE  BulksFrom(b, e + idx, n) =
              Place("complete", e + (BulksFrom(a, d + idx, n).idx - d))
<1>. DEFINE p == d + idx
            q == e + idx
            A(j) == BulksFrom(a, p, j)
            B(j) == BulksFrom(b, q, j)
            T == {j \in Nat : A(j).status = "complete" /\ A(j).idx <= d + k + 1 =>
                                B(j) = Place("complete", e + (A(j).idx - d))}
<1>1. /\ a \in Seq(STRING) /\ b \in Seq(STRING) /\ d \in Nat /\ e \in Nat /\ k \in Nat
      /\ d + k <= Len(a) /\ e + k <= Len(b) /\ Len(a) \in Nat /\ Len(b) \in Nat
    BY DEF Alike
<1>2. p \in Nat /\ q \in Nat /\ p \in 1..(Len(a) + 1) /\ p >= d + 1 /\ e + (p - d) = q
    BY <1>1
<1>. HIDE DEF p, q
<1>3. /\ A(0) = Place("complete", p)
      /\ \A j \in Nat : A(j) \in Places
      /\ \A j \in Nat : A(j + 1) = IF A(j).status = "complete" THEN BulkAt(a, A(j).idx) ELSE A(j)
    BY <1>1, <1>2, BulksSteps, Zenon
<1>4. /\ B(0) = Place("complete", q)
      /\ \A j \in Nat : B(j + 1) = IF B(j).status = "complete" THEN BulkAt(b, B(j).idx) ELSE B(j)
    BY <1>1, <1>2, BulksSteps, Zenon
<1>5. \A j \in Nat : A(j).status = "complete" => A(j).idx \in p..(Len(a) + 1)
    BY <1>1, <1>2, BulksWithin
<1>. HIDE DEF A, B
<1>6. 0 \in T
    BY <1>2, <1>3, <1>4 DEF Place
<1>7. ASSUME NEW j \in T PROVE j + 1 \in T
  <2>1. SUFFICES ASSUME A(j + 1).status = "complete", A(j + 1).idx <= d + k + 1
                 PROVE  B(j + 1) = Place("complete", e + (A(j + 1).idx - d))
    OBVIOUS
  <2>. DEFINE x == A(j).idx
              y == A(j + 1).idx
              i == x - d
  <2>2. A(j).status = "complete" /\ A(j + 1) = BulkAt(a, x)
    BY <1>3, <2>1
  <2>3. x \in Nat /\ x >= d + 1
    BY <1>1, <1>2, <1>5, <2>2, SMTT(30)
  <2>4. IsBulk(a, x, y)
    BY <1>1, <2>1, <2>2, <2>3, BulkFacts
  <2>5. y \in Nat /\ y > x + 2 /\ y <= d + k + 1
    BY <2>1, <2>3, <2>4, SMTT(30) DEF IsBulk
  <2>6. B(j) = Place("complete", e + (x - d))
    BY <1>1, <2>2, <2>3, <2>5, SMTT(30)
  <2>. HIDE DEF x, y
  <2>7. i \in 1..k /\ d + i = x /\ e + (x - d) = e + i /\ e + i \in Nat
    BY <1>1, <2>3, <2>5
  <2>. HIDE DEF i
  <2>8. IsBulk(b, e + i, e + (y - d))
    BY <2>4, <2>5, <2>7, BulkAlike
  <2>9. B(j + 1) = BulkAt(b, e + i)
    BY <1>4, <2>6, <2>7 DEF Place
  <2>10. BulkAt(b, e + i) = Place("complete", e + (y - d))
    BY <1>1, <2>7, <2>8, BulkIs
  <2>. QED BY <2>9, <2>10 DEF y
<1>8. n \in T
  <2>. HIDE DEF T
  <2>. QED BY <1>6, <1>7, SetInduction, Zenon DEF T
<1>. QED BY <1>8 DEF A, B, p, q

-----------------------------------------------------------------------------
\* Requests.

\* A request of the given length is found at a place of a buffer.
IsFound(buf, start, length) ==
    LET n == read_crlf_decimal(buf, start + 1)
        p == BulksFrom(buf, n.at, n.val)
    IN  /\ start < Len(buf) /\ buf[start] = RESP_ARRAY_PREFIX
        /\ n.end # "error" /\ n.at \in Nat /\ n.val \in Nat
        /\ n.at > start + 1 /\ n.at <= Len(buf) + 1
        /\ p.status = "complete" /\ p.idx \in Nat /\ length = p.idx - start
        /\ length \in 2..(Len(buf) + 1 - start)

LEMMA ParseFacts ==
    ASSUME NEW buf \in Seq(STRING), NEW start \in 1..Len(buf)
    PROVE  LET r == parseRespMessageLength(buf, start)
           IN  /\ r.status \in {"complete", "incomplete", "error"}
               /\ r.status = "complete" => IsFound(buf, start, r.length)
<1>. DEFINE n == read_crlf_decimal(buf, start + 1)
            p == BulksFrom(buf, n.at, n.val)
            r == parseRespMessageLength(buf, start)
<1>1. Len(buf) \in Nat /\ start + 1 \in 1..(Len(buf) + 1) /\ ~(start > Len(buf)) /\ start \in Nat
    OBVIOUS
<1>2. r = IF start > Len(buf) \/ buf[start] # RESP_ARRAY_PREFIX \/ n.end = "error"
          THEN Parse("error", 0)
          ELSE Parse(p.status, IF p.status = "complete" THEN p.idx - start ELSE 0)
    BY DEF parseRespMessageLength, BulksFrom
<1>3. IsNumber(buf, start + 1, n)
    BY <1>1, NumberFacts
<1>. HIDE DEF n, r
<1>4. n.at \in Nat /\ n.val \in Nat
    BY <1>3 DEF IsNumber
<1>5. p \in Places
    BY <1>4, BulksSteps, Zenon
<1>6. n.end # "error" => n.at > start + 1 /\ n.at <= Len(buf) + 1 /\ start < Len(buf)
  <2>1. /\ DigitsEnd(buf, start + 1) \in (start + 1)..(Len(buf) + 1)
        /\ DigitsEnd(buf, start + 1) \in Nat
    BY <1>1, DigitsEndFacts
  <2>. DEFINE stop == DigitsEnd(buf, start + 1)
  <2>. HIDE DEF stop
  <2>2. n.end # "error" => /\ stop > start + 1
                           /\ \/ n.at = stop /\ stop = Len(buf) + 1
                              \/ n.at = stop + 2 /\ stop < Len(buf)
    BY <1>3, Zenon DEF IsNumber, CrLfAt, stop
  <2>. QED BY <1>1, <1>4, <2>1, <2>2 DEF stop
<1>7. r.status \in {"complete", "incomplete", "error"}
    BY <1>2, <1>5 DEF Parse, Places
<1>8. ASSUME r.status = "complete" PROVE IsFound(buf, start, r.length)
  <2>1. /\ buf[start] = RESP_ARRAY_PREFIX /\ n.end # "error"
        /\ p.status = "complete" /\ r.length = p.idx - start
    BY <1>1, <1>2, <1>8 DEF Parse
  <2>. DEFINE at == n.at
              last == p.idx
  <2>2. at \in Nat /\ at > start + 1 /\ at <= Len(buf) + 1 /\ start < Len(buf)
    BY <1>4, <1>6, <2>1
  <2>3. last \in at..(Len(buf) + 1)
    BY <1>1, <1>4, <2>1, <2>2, BulksWithin
  <2>. HIDE DEF at, last
  <2>4. last \in Nat /\ last - start \in 2..(Len(buf) + 1 - start)
    BY <1>1, <2>2, <2>3
  <2>. QED BY <1>4, <2>1, <2>2, <2>4, Zenon DEF IsFound, n, at, last
<1>. QED BY <1>7, <1>8 DEF r

\* Such a request is found by the parser, too.
LEMMA ParseIs ==
    ASSUME NEW buf \in Seq(STRING), NEW start \in 1..Len(buf), NEW length,
           IsFound(buf, start, length)
    PROVE  parseRespMessageLength(buf, start) = Parse("complete", length)
<1>1. ~(start > Len(buf))
    OBVIOUS
<1>. QED BY <1>1 DEF IsFound, parseRespMessageLength, BulksFrom

\* The number of elements of a request does not end with the buffer, unless
\* it begins with 0.
LEMMA HeaderWhole ==
    ASSUME NEW buf \in Seq(STRING), NEW start \in 1..Len(buf), NEW length,
           IsFound(buf, start, length), buf[start + 1] # "0"
    PROVE  read_crlf_decimal(buf, start + 1).end = "crlf"
<1>. DEFINE n == read_crlf_decimal(buf, start + 1)
            p == BulksFrom(buf, n.at, n.val)
            stop == DigitsEnd(buf, start + 1)
            digits == SubSeq(buf, start + 1, stop - 1)
<1>1. Len(buf) \in Nat /\ start + 1 \in 1..(Len(buf) + 1)
    OBVIOUS
<1>2. /\ n.end # "error" /\ n.at \in Nat /\ n.val \in Nat
      /\ n.at > start + 1 /\ n.at <= Len(buf) + 1 /\ p.status = "complete"
    BY DEF IsFound
<1>3. IsNumber(buf, start + 1, n)
    BY <1>1, NumberFacts
<1>4. SUFFICES ASSUME n.end = "cut" PROVE FALSE
    BY <1>2, <1>3 DEF IsNumber
<1>5. stop > start + 1 /\ stop = Len(buf) + 1 /\ n.at = stop /\ n.val = Decimal(digits)
    BY <1>3, <1>4 DEF IsNumber
<1>6. /\ stop \in (start + 1)..(Len(buf) + 1)
      /\ \A j \in (start + 1)..(stop - 1) : is_digit(buf[j])
    BY <1>1, DigitsEndFacts
<1>. HIDE DEF stop
<1>7. /\ digits \in Seq(Digits) /\ Len(digits) = stop - (start + 1)
      /\ \A i \in 1..(stop - (start + 1)) : digits[i] = buf[(start + 1) + i - 1]
    BY <1>1, <1>6, DigitsAreDigits
<1>. HIDE DEF digits
<1>8. digits # <<>> /\ digits[1] # "0"
  <2>1. 1 \in 1..(stop - (start + 1)) /\ (start + 1) + 1 - 1 = start + 1
    BY <1>1, <1>5
  <2>. QED BY <1>7, <2>1
<1>9. n.val # 0
    BY <1>5, <1>7, <1>8, DecimalNotZero
<1>10. p.idx \in n.at..(Len(buf) + 1) /\ (n.val > 0 => p.idx > n.at)
    BY <1>1, <1>2, BulksWithin
<1>. HIDE DEF n, p
<1>. QED BY <1>1, <1>2, <1>5, <1>9, <1>10

\* A request within the bytes two buffers share is found in both.
LEMMA FoundAlike ==
    ASSUME NEW a, NEW d, NEW b, NEW e, NEW k, Alike(a, d, b, e, k),
           NEW length, IsFound(a, d + 1, length), length <= k,
           read_crlf_decimal(a, (d + 1) + 1).end = "crlf"
    PROVE  IsFound(b, e + 1, length)
<1>. DEFINE n == read_crlf_decimal(a, (d + 1) + 1)
            at == n.at
            val == n.val
            idx == at - d
            last == BulksFrom(a, at, val).idx
<1>1. /\ a \in Seq(STRING) /\ b \in Seq(STRING) /\ d \in Nat /\ e \in Nat /\ k \in Nat
      /\ d + k <= Len(a) /\ e + k <= Len(b) /\ Len(a) \in Nat /\ Len(b) \in Nat
    BY DEF Alike
<1>2. \A j \in 1..k : a[d + j] = b[e + j]
    BY DEF Alike
<1>3. /\ a[d + 1] = RESP_ARRAY_PREFIX /\ at \in Nat /\ val \in Nat /\ at > (d + 1) + 1
      /\ BulksFrom(a, at, val).status = "complete" /\ last \in Nat
      /\ length = last - (d + 1) /\ length \in 2..(Len(a) + 1 - (d + 1))
    BY DEF IsFound
<1>4. (d + 1) + 1 = d + 2 /\ (e + 1) + 1 = e + 2 /\ d + 1 \in Nat
    BY <1>1
<1>5. n = read_crlf_decimal(a, d + 2) /\ n.end = "crlf"
    BY <1>4
<1>6. last \in at..(Len(a) + 1)
  <2>1. at <= Len(a) + 1
    BY DEF IsFound
  <2>2. at \in 1..(Len(a) + 1)
    BY <1>1, <1>3, <2>1
  <2>. QED BY <1>1, <1>3, <2>2, BulksWithin, Zenon
<1>. HIDE DEF n, at, val, last
<1>7. 2 \in 1..k /\ last <= d + k + 1 /\ at <= d + k + 1 /\ idx \in 1..(k + 1) /\ d + idx = at
    BY <1>1, <1>3, <1>6
<1>8. read_crlf_decimal(b, e + 2) = Number("crlf", e + (at - d), val)
    BY <1>5, <1>7, NumberAlike DEF at, val
<1>. HIDE DEF idx
<1>9. BulksFrom(b, e + idx, val) = Place("complete", e + (last - d))
  <2>1. BulksFrom(a, d + idx, val).status = "complete" /\ BulksFrom(a, d + idx, val).idx = last
    BY <1>3, <1>7 DEF last
  <2>2. BulksFrom(a, d + idx, val).idx <= d + k + 1 /\ idx \in 1..(k + 1) /\ val \in Nat
    BY <1>3, <1>7, <2>1
  <2>3. BulksFrom(b, e + idx, val) =
           Place("complete", e + (BulksFrom(a, d + idx, val).idx - d))
    BY <2>1, <2>2, BulksAlike
  <2>. QED BY <2>1, <2>3, Zenon
<1>10. b[e + 1] = RESP_ARRAY_PREFIX
  <2>1. 1 \in 1..k
    BY <1>1, <1>7
  <2>. QED BY <1>2, <1>3, <2>1
<1>11. e + (at - d) = e + idx /\ e + idx \in Nat /\ e + idx > (e + 1) + 1
       /\ e + idx <= Len(b) + 1
    BY <1>1, <1>3, <1>7 DEF idx
<1>12. /\ e + (last - d) \in Nat /\ length = (e + (last - d)) - (e + 1)
       /\ length \in 2..(Len(b) + 1 - (e + 1)) /\ e + 1 < Len(b)
    BY <1>1, <1>3, <1>7
<1>. DEFINE there == read_crlf_decimal(b, (e + 1) + 1)
<1>13. there.end # "error" /\ there.at = e + idx /\ there.val = val
    BY <1>4, <1>8, <1>11 DEF Number
<1>14. /\ BulksFrom(b, there.at, there.val).status = "complete"
       /\ BulksFrom(b, there.at, there.val).idx = e + (last - d)
    BY <1>9, <1>13 DEF Place
<1>. HIDE DEF there
<1>. QED BY <1>3, <1>10, <1>11, <1>12, <1>13, <1>14, Zenon DEF IsFound, there

\* Appending to a concatenation.
AppendsToSecond(u, v, x) == Append(u \o v, x) = u \o Append(v, x)

LEMMA AppendToConcat ==
    ASSUME NEW S, NEW u \in Seq(S), NEW v \in Seq(S), NEW x \in S
    PROVE  AppendsToSecond(u, v, x)
<1>. DEFINE y == <<x>>
<1>1. y \in Seq(S)
    OBVIOUS
<1>2. u \o v \in Seq(S)
    BY ConcatProperties
<1>3. Append(u \o v, x) = (u \o v) \o y /\ Append(v, x) = v \o y
    BY <1>2, AppendIsConcat, Zenon
<1>. HIDE DEF y
<1>4. (u \o v) \o y = u \o (v \o y)
    BY <1>1, ConcatAssociative
<1>. QED BY <1>3, <1>4, Zenon DEF AppendsToSecond
-----------------------------------------------------------------------------
(* The numbers initGenerator() queues.                                     *)

\* Divisors and their multiples.
LEMMA Quotient ==
    ASSUME NEW p \in Nat, NEW d \in Nat \ {0}, p % d = 0
    PROVE  \E k \in Nat : p = d * k
<1>. DEFINE k == p \div d
            m == d * k
<1>1. k \in Nat
    OBVIOUS
<1>2. p - m = p % d
    OBVIOUS
<1>3. m \in Int
    BY <1>1
<1>4. p = m
  <2>. HIDE DEF m, k
  <2>. QED BY <1>2, <1>3
<1>. HIDE DEF k
<1>. QED BY <1>1, <1>4

LEMMA Divisor ==
    ASSUME NEW p \in Nat, NEW d \in Nat \ {0}, NEW k \in Nat, p = d * k
    PROVE  p % d = 0
OBVIOUS

\* A number that is not prime has a prime divisor no larger than its root.
LEMMA PrimeDivisor ==
    ASSUME NEW p \in Nat, p > 1, ~IsPrime(p)
    PROVE  \E d \in 2..(p - 1) : IsPrime(d) /\ p % d = 0 /\ d * d <= p
<1>. DEFINE T == {d \in 2..(p - 1) : p % d = 0}
<1>1. T \in SUBSET Nat
    OBVIOUS
<1>2. T # {}
    BY DEF IsPrime
<1>3. PICK d \in T : \A e \in T : d <= e
    BY <1>1, <1>2, LeastNumber, Zenon
<1>4. d \in 2..(p - 1) /\ p % d = 0
    OBVIOUS
<1>5. \A e \in 2..(p - 1) : p % e = 0 => d <= e
    BY <1>3
<1>. HIDE DEF T
<1>6. d \in Nat \ {0} /\ d \in Nat
    BY <1>4
<1>7. PICK k \in Nat : p = d * k
    BY <1>4, <1>6, Quotient
<1>8. k \in 2..(p - 1)
  <2>1. k # 0 /\ k # 1
    BY <1>4, <1>6, <1>7
  <2>2. k >= 2
    BY <2>1
  <2>3. d * k >= 2 * k
    BY <1>4, <1>6, <2>2
  <2>. QED BY <1>7, <2>2, <2>3
<1>9. d <= k
  <2>1. k \in Nat \ {0} /\ p = k * d
    BY <1>6, <1>7, <1>8
  <2>2. p % k = 0
    BY <1>6, <2>1, Divisor
  <2>. QED BY <1>5, <1>8, <2>2
<1>10. d * d <= p
  <2>1. d * d <= d * k
    BY <1>6, <1>9
  <2>. QED BY <1>7, <2>1
<1>11. ASSUME NEW e \in 2..(d - 1) PROVE d % e # 0
  <2>1. e \in Nat \ {0} /\ e \in 2..(p - 1) /\ e < d
    BY <1>4
  <2>2. SUFFICES ASSUME d % e = 0 PROVE FALSE
    OBVIOUS
  <2>3. PICK c \in Nat : d = e * c
    BY <1>6, <2>1, <2>2, Quotient
  <2>4. p = e * (c * k)
    BY <1>7, <2>1, <2>3
  <2>5. c * k \in Nat
    OBVIOUS
  <2>6. p % e = 0
    BY <2>1, <2>4, <2>5, Divisor
  <2>7. d <= e
    BY <1>5, <2>1, <2>6
  <2>. QED BY <1>6, <2>1, <2>7
<1>12. IsPrime(d)
    BY <1>4, <1>11 DEF IsPrime
<1>. QED BY <1>4, <1>10, <1>12

\* The sieve of the first segment, divisor by divisor.
LEMMA SieveSteps ==
    ASSUME NEW end \in Nat
    PROVE  /\ SievedUpTo(2, end, 0) = 2..(end - 1)
           /\ \A n \in 1..end :
                 SievedUpTo(2, end, n) = CrossOut(SievedUpTo(2, end, n - 1), n, 2, end)
<1>. DEFINE S == SUBSET Nat
            passes == [i \in 1..end |-> [left \in S |-> CrossOut(left, i, 2, end)]]
            x == 2..(end - 1)
<1>1. x \in S
    OBVIOUS
<1>2. \A i \in 1..end, left \in S : CrossOut(left, i, 2, end) \in S
    BY DEF CrossOut
<1>3. PassesOn(S, passes, end)
  <2>. HIDE DEF S
  <2>. QED BY <1>2 DEF PassesOn
<1>4. PassByPass(S, passes, x, end)
  <2>. HIDE DEF S, passes, x
  <2>. QED BY <1>1, <1>3, LoopSteps, Zenon
<1>5. \A n : SievedUpTo(2, end, n) = Loop(passes, x, n)
    BY Zenon DEF SievedUpTo
<1>6. \A i \in 1..end, left \in S : passes[i][left] = CrossOut(left, i, 2, end)
  <2>. HIDE DEF S
  <2>. QED OBVIOUS
<1>. HIDE DEF S, passes, x
<1>7. ASSUME NEW n \in 1..end
      PROVE  Loop(passes, x, n) = CrossOut(Loop(passes, x, n - 1), n, 2, end)
  <2>1. n - 1 \in 0..end
    OBVIOUS
  <2>2. Loop(passes, x, n) = passes[n][Loop(passes, x, n - 1)] /\ Loop(passes, x, n - 1) \in S
    BY <1>4, <2>1 DEF PassByPass
  <2>. QED BY <1>6, <2>2, Zenon
<1>. QED BY <1>4, <1>5, <1>7, Zenon DEF PassByPass, x

\* After the divisors up to n: primes are left, and of the other numbers those
\* with no prime divisor among them.
Sifted(left, end, n) ==
    /\ left \subseteq 2..(end - 1)
    /\ \A p \in 2..(end - 1) : IsPrime(p) => p \in left
    /\ \A p \in left, d \in 2..n : IsPrime(d) /\ d * d <= p => p % d # 0

LEMMA CrossOutSifts ==
    ASSUME NEW end \in Nat, NEW n \in 1..end, NEW left, Sifted(left, end, n - 1)
    PROVE  Sifted(CrossOut(left, n, 2, end), end, n)
<1>. DEFINE new == CrossOut(left, n, 2, end)
<1>1. /\ left \subseteq 2..(end - 1)
      /\ \A p \in 2..(end - 1) : IsPrime(p) => p \in left
      /\ \A p \in left, d \in 2..(n - 1) : IsPrime(d) /\ d * d <= p => p % d # 0
    BY DEF Sifted
<1>2. new \subseteq left
    BY DEF CrossOut
<1>3. ASSUME NEW p \in 2..(end - 1), IsPrime(p) PROVE p \in new
  <2>1. p \in left
    BY <1>1, <1>3
  <2>2. ASSUME n >= 2, p \in Multiples(n, end) PROVE FALSE
    <3>1. n * n <= p /\ p % n = 0
      BY <2>2 DEF Multiples
    <3>2. n * n >= 2 * n
      BY <2>2
    <3>3. n \in 2..(p - 1)
      BY <2>2, <3>1, <3>2
    <3>. QED BY <1>3, <3>1, <3>3 DEF IsPrime
  <2>. QED BY <2>1, <2>2 DEF CrossOut
<1>4. ASSUME NEW p \in new, NEW d \in 2..n, IsPrime(d), d * d <= p PROVE p % d # 0
  <2>1. p \in left /\ p \in 2..(end - 1)
    BY <1>1, <1>2
  <2>2. CASE d # n
    <3>1. d \in 2..(n - 1)
      BY <2>2
    <3>. QED BY <1>1, <1>4, <2>1, <3>1
  <2>3. CASE d = n
    <3>1. n >= 2 /\ n * n <= p
      BY <1>4, <2>3
    <3>2. n * n >= 2 * n
      BY <3>1
    <3>3. ~(n * n > end) /\ n \in 2..(end - 1)
      BY <2>1, <3>1, <3>2
    <3>4. n \in left
      BY <1>1, <1>4, <2>3, <3>3
    <3>5. p \notin Multiples(n, end)
      BY <3>1, <3>3, <3>4 DEF CrossOut
    <3>6. p \in (n * n)..(end - 1)
      BY <2>1, <3>1
    <3>. QED BY <2>3, <3>5, <3>6 DEF Multiples
  <2>. QED BY <2>2, <2>3
<1>. HIDE DEF new
<1>5. new \subseteq 2..(end - 1)
    BY <1>1, <1>2
<1>6. Sifted(new, end, n)
    BY <1>3, <1>4, <1>5 DEF Sifted
<1>. QED BY <1>6 DEF new

\* What is left of the first segment is prime.
LEMMA SievedArePrime ==
    ASSUME NEW end \in Nat, NEW p \in Sieved(2, end)
    PROVE  IsPrime(p)
<1>. DEFINE L(n) == SievedUpTo(2, end, n)
            T == {n \in Nat : n <= end => Sifted(L(n), end, n)}
<1>1. /\ L(0) = 2..(end - 1)
      /\ \A n \in 1..end : L(n) = CrossOut(L(n - 1), n, 2, end)
    BY SieveSteps
<1>. HIDE DEF L
<1>2. 0 \in T
    BY <1>1 DEF Sifted
<1>3. ASSUME NEW n \in T PROVE n + 1 \in T
  <2>1. SUFFICES ASSUME n + 1 <= end PROVE Sifted(L(n + 1), end, n + 1)
    OBVIOUS
  <2>2. n \in Nat /\ n + 1 \in 1..end /\ n <= end /\ (n + 1) - 1 = n
    BY <2>1
  <2>3. Sifted(L(n), end, (n + 1) - 1)
    BY <2>2
  <2>4. Sifted(CrossOut(L(n), n + 1, 2, end), end, n + 1)
    BY <2>2, <2>3, CrossOutSifts
  <2>5. L(n + 1) = CrossOut(L(n), n + 1, 2, end)
    BY <1>1, <2>2
  <2>. QED BY <2>4, <2>5
<1>4. T \in SUBSET Nat
    OBVIOUS
<1>5. end \in T
  <2>. HIDE DEF T
  <2>. QED BY <1>2, <1>3, <1>4, SetInduction
<1>6. Sifted(L(end), end, end) /\ p \in L(end)
    BY <1>5 DEF Sieved, L
<1>. HIDE DEF T
<1>7. p \in 2..(end - 1) /\ \A d \in 2..end : IsPrime(d) /\ d * d <= p => p % d # 0
    BY <1>6 DEF Sifted
<1>8. SUFFICES ASSUME ~IsPrime(p) PROVE FALSE
    OBVIOUS
<1>9. PICK d \in 2..(p - 1) : IsPrime(d) /\ p % d = 0 /\ d * d <= p
    BY <1>7, <1>8, PrimeDivisor
<1>10. d \in 2..end
    BY <1>7
<1>. QED BY <1>7, <1>9, <1>10

\* growthFactor() finds a factor for every number.
LEMMA GrowthType ==
    ASSUME Parameters, NEW prime
    PROVE  growthFactor(prime) \in Nat
<1>. DEFINE steps == {i \in DOMAIN GrowthSteps : prime < GrowthSteps[i].below}
            least == CHOOSE i \in steps : \A j \in steps : i <= j
<1>1. /\ LastGrowth \in Nat /\ GrowthSteps \in Seq([below : Nat, percent : Nat])
    BY Zenon DEF Parameters
<1>2. DOMAIN GrowthSteps \subseteq Nat /\ \A i \in DOMAIN GrowthSteps : GrowthSteps[i].percent \in Nat
  <2>. DEFINE R == [below : Nat, percent : Nat]
  <2>1. \A r \in R : r.percent \in Nat
    OBVIOUS
  <2>2. GrowthSteps \in Seq(R)
    BY <1>1
  <2>. HIDE DEF R
  <2>3. /\ DOMAIN GrowthSteps = 1..Len(GrowthSteps)
        /\ \A i \in DOMAIN GrowthSteps : GrowthSteps[i] \in R
    BY <2>2
  <2>. QED BY <2>1, <2>3
<1>3. CASE steps = {}
    BY <1>1, <1>3, Zenon DEF growthFactor
<1>4. CASE steps # {}
  <2>1. steps \in SUBSET Nat /\ steps \subseteq DOMAIN GrowthSteps
    BY <1>2
  <2>2. growthFactor(prime) = GrowthSteps[least].percent
    BY <1>4, Zenon DEF growthFactor
  <2>. HIDE DEF steps
  <2>3. \E i \in steps : \A j \in steps : i <= j
    BY <1>4, <2>1, LeastNumber, Zenon
  <2>4. least \in steps
    BY <2>3, Zenon
  <2>. QED BY <1>2, <2>1, <2>2, <2>4, Zenon
<1>. QED BY <1>3, <1>4

\* What is queued once the numbers below n have been looked at: numbers below
\* n, each larger than the one before it and the first than FirstStored, and
\* prime as far as the first segment reaches.
Queued(g, n) ==
    /\ g \in Generators
    /\ g.queue = <<>> => g.lastStored = FirstStored /\ g.percent = 200
    /\ \A i \in 1..Len(g.queue) :
          /\ g.queue[i] < n
          /\ g.queue[i] > (IF i = 1 THEN FirstStored ELSE g.queue[i - 1])
          /\ g.queue[i] < 2 + SEGMENT_SIZE => IsPrime(g.queue[i])

\* A number of the first segment that the sieve leaves is prime.
LEMMA FirstSegment ==
    ASSUME Parameters, NEW n \in Nat, 2 <= n, n < 2 + SEGMENT_SIZE,
           n \in Sieved(SegmentStart(n), SegmentEnd(SegmentStart(n)))
    PROVE  IsPrime(n)
<1>1. SEGMENT_SIZE \in Nat \ {0} /\ maxLimit \in Nat
    BY DEF Parameters
<1>2. (n - 2) \div SEGMENT_SIZE = 0
    BY <1>1
<1>3. SegmentStart(n) = 2
    BY <1>1, <1>2 DEF SegmentStart
<1>4. SegmentEnd(2) \in Nat
    BY <1>1 DEF SegmentEnd
<1>. QED BY <1>3, <1>4, SievedArePrime, Zenon

LEMMA LookAtQueues ==
    ASSUME Parameters, NEW n \in Nat, 2 <= n, NEW g, Queued(g, n)
    PROVE  Queued(LookAt(g, n), n + 1)
<1>. DEFINE f == LookAt(g, n)
            k == Len(g.queue)
            q == Append(g.queue, n)
<1>1. /\ g.queue \in Seq(Nat) /\ g.lastStored \in Nat /\ g.percent \in Nat /\ g \in Generators
    BY DEF Queued, Generators
<1>2. FirstStored \in Nat \ {0}
    BY DEF Parameters
<1>3. k \in Nat
    BY <1>1
<1>4. \A i \in 1..k :
          /\ g.queue[i] \in Nat /\ g.queue[i] < n
          /\ g.queue[i] > (IF i = 1 THEN FirstStored ELSE g.queue[i - 1])
          /\ g.queue[i] < 2 + SEGMENT_SIZE => IsPrime(g.queue[i])
    BY <1>1 DEF Queued
<1>5. CASE f = g
  <2>1. \A i \in 1..k : g.queue[i] < n + 1
    BY <1>4
  <2>. QED BY <1>1, <1>4, <1>5, <2>1, Zenon DEF Queued
<1>6. ASSUME n \in Sieved(SegmentStart(n), SegmentEnd(SegmentStart(n))),
             n >= (g.lastStored * g.percent) \div 100,
             f = [queue |-> q, lastStored |-> n, percent |-> growthFactor(n)]
      PROVE  Queued(f, n + 1)
  <2>1. /\ q \in Seq(Nat) /\ Len(q) = k + 1 /\ q[k + 1] = n /\ \A i \in 1..k : q[i] = g.queue[i]
    BY <1>1
  <2>2. growthFactor(n) \in Nat
    BY GrowthType
  <2>3. f.queue = q
    BY <1>6
  <2>4. f \in Generators
    <3>. DEFINE w == growthFactor(n)
    <3>1. w \in Nat
      BY <2>2
    <3>. HIDE DEF w, q
    <3>2. [queue |-> q, lastStored |-> n, percent |-> w] \in Generators
      BY <2>1, <3>1 DEF Generators
    <3>. QED BY <1>6, <3>2, Zenon DEF w
  <2>5. n < 2 + SEGMENT_SIZE => IsPrime(n)
    BY <1>6, FirstSegment
  <2>6. k = 0 => n > FirstStored
    <3>1. SUFFICES ASSUME k = 0 PROVE n > FirstStored
      OBVIOUS
    <3>2. g.queue = <<>>
      BY <1>1, <3>1
    <3>3. g.lastStored = FirstStored /\ g.percent = 200
      BY <3>2, Zenon DEF Queued
    <3>4. (FirstStored * 200) \div 100 = 2 * FirstStored
      BY <1>2
    <3>. QED BY <1>2, <1>6, <3>3, <3>4
  <2>. HIDE DEF k, q, f
  <2>7. ASSUME NEW i \in 1..(k + 1)
        PROVE  /\ q[i] < n + 1
               /\ q[i] > (IF i = 1 THEN FirstStored ELSE q[i - 1])
               /\ q[i] < 2 + SEGMENT_SIZE => IsPrime(q[i])
    <3>1. CASE i \in 1..k
      <4>1. i # 1 => i - 1 \in 1..k
        BY <1>3, <3>1
      <4>. DEFINE r == g.queue
      <4>2. \A j \in 1..k : q[j] = r[j]
        BY <2>1, Zenon
      <4>3. r[i] < n /\ r[i] > (IF i = 1 THEN FirstStored ELSE r[i - 1])
            /\ (r[i] < 2 + SEGMENT_SIZE => IsPrime(r[i])) /\ r[i] \in Nat
        BY <1>4, <3>1
      <4>. HIDE DEF r
      <4>4. r[i] < n + 1
        BY <1>2, <4>3
      <4>5. CASE i = 1
        BY <3>1, <4>2, <4>3, <4>4, <4>5
      <4>6. CASE i # 1
        BY <3>1, <4>1, <4>2, <4>3, <4>4, <4>6, Zenon
      <4>. QED BY <4>5, <4>6, Zenon
    <3>2. CASE i = k + 1 /\ k = 0
      BY <2>1, <2>5, <2>6, <3>2
    <3>3. CASE i = k + 1 /\ k # 0
      <4>1. i - 1 = k /\ k \in 1..k /\ i # 1
        BY <1>3, <3>3
      <4>2. q[i - 1] < n
        BY <1>4, <2>1, <4>1
      <4>. QED BY <2>1, <2>5, <3>3, <4>1, <4>2
    <3>. QED BY <1>3, <3>1, <3>2, <3>3
  <2>8. q # <<>>
    BY <1>3, <2>1
  <2>. QED BY <2>1, <2>3, <2>4, <2>7, <2>8, Zenon DEF Queued
<1>7. f = g \/ (/\ n \in Sieved(SegmentStart(n), SegmentEnd(SegmentStart(n)))
                /\ n >= (g.lastStored * g.percent) \div 100
                /\ f = [queue |-> q, lastStored |-> n, percent |-> growthFactor(n)])
    BY Zenon DEF LookAt
<1>. QED BY <1>5, <1>6, <1>7

\* The generator, number by number.
LEMMA GeneratedQueues ==
    ASSUME Parameters
    PROVE  Queued(GeneratedUpTo(maxLimit - 2), maxLimit)
<1>. DEFINE S == Generators
            m == maxLimit - 2
            passes == [i \in 1..m |-> [g \in S |-> LookAt(g, i + 1)]]
            x == [queue |-> <<>>, lastStored |-> FirstStored, percent |-> 200]
            G(i) == Loop(passes, x, i)
            T == {i \in Nat : i <= m => Queued(G(i), i + 2)}
<1>1. m \in Nat /\ m + 2 = maxLimit /\ FirstStored \in Nat
    BY DEF Parameters
<1>2. x \in S
    BY <1>1 DEF Generators
<1>3. \A i \in 1..m, g \in S : LookAt(g, i + 1) \in S
  <2>. SUFFICES ASSUME NEW i \in 1..m, NEW g \in S PROVE LookAt(g, i + 1) \in S
    OBVIOUS
  <2>. DEFINE n == i + 1
              q == Append(g.queue, n)
              w == growthFactor(n)
  <2>1. n \in Nat /\ w \in Nat
    BY GrowthType
  <2>2. q \in Seq(Nat)
    BY DEF Generators
  <2>3. LookAt(g, n) \in {g, [queue |-> q, lastStored |-> n, percent |-> w]}
    BY Zenon DEF LookAt
  <2>. HIDE DEF w, q, n
  <2>4. [queue |-> q, lastStored |-> n, percent |-> w] \in S
    BY <2>1, <2>2 DEF Generators
  <2>5. LookAt(g, n) \in S
    BY <2>3, <2>4, Zenon
  <2>. QED BY <2>5, Zenon DEF n
<1>4. GeneratedUpTo(m) = G(m)
    BY Zenon DEF GeneratedUpTo
<1>. HIDE DEF S, m
<1>5. PassesOn(S, passes, m)
    BY <1>3 DEF PassesOn
<1>6. \A i \in 1..m, g \in S : passes[i][g] = LookAt(g, i + 1)
    OBVIOUS
<1>7. x.queue = <<>> /\ x.lastStored = FirstStored /\ x.percent = 200
    OBVIOUS
<1>. HIDE DEF passes, x
<1>8. PassByPass(S, passes, x, m)
    BY <1>1, <1>2, <1>5, LoopSteps, Zenon
<1>9. /\ G(0) = x
      /\ \A i \in 1..m : G(i) = LookAt(G(i - 1), i + 1)
  <2>1. ASSUME NEW i \in 1..m PROVE G(i) = LookAt(G(i - 1), i + 1)
    <3>1. i - 1 \in 0..m
      BY <1>1
    <3>2. G(i) = passes[i][G(i - 1)] /\ G(i - 1) \in S
      BY <1>8, <3>1 DEF PassByPass
    <3>. QED BY <1>6, <3>2, Zenon
  <2>. QED BY <1>8, <2>1 DEF PassByPass
<1>. HIDE DEF G
<1>10. 0 \in T
  <2>1. x.queue = <<>> => \A i \in 1..Len(x.queue) : FALSE
    OBVIOUS
  <2>2. Queued(x, 2)
    BY <1>2, <1>7, <2>1, Zenon DEF Queued, S
  <2>. QED BY <1>9, <2>2
<1>11. ASSUME NEW i \in T PROVE i + 1 \in T
  <2>1. SUFFICES ASSUME i + 1 <= m PROVE Queued(G(i + 1), (i + 1) + 2)
    OBVIOUS
  <2>2. i \in Nat /\ i <= m /\ i + 1 \in 1..m /\ (i + 1) - 1 = i
    BY <1>1, <2>1
  <2>. DEFINE n == i + 2
  <2>3. n \in Nat /\ 2 <= n /\ (i + 1) + 1 = n /\ (i + 1) + 2 = n + 1
    BY <2>2
  <2>4. Queued(G(i), n)
    BY <2>2
  <2>5. G(i + 1) = LookAt(G(i), n)
    BY <1>9, <2>2, <2>3
  <2>. HIDE DEF n
  <2>. QED BY <2>3, <2>4, <2>5, LookAtQueues
<1>12. T \in SUBSET Nat
    OBVIOUS
<1>13. m \in T
  <2>. HIDE DEF T
  <2>. QED BY <1>1, <1>10, <1>11, <1>12, SetInduction
<1>14. Queued(G(m), m + 2)
    BY <1>13
<1>. QED BY <1>1, <1>4, <1>14 DEF m

\* Whatever the limit, the segment size and the factors, initGenerator() queues
\* ever larger numbers, the first larger than lastStored at the start: what the
\* store expects of the sizes it pops.
THEOREM QueueGrows ==
    ASSUME Parameters
    PROVE  /\ primeQueue \in Seq(Nat)
           /\ \A i \in 1..Len(primeQueue) :
                 primeQueue[i] > (IF i = 1 THEN FirstStored ELSE primeQueue[i - 1])
BY GeneratedQueues DEF Queued, Generators, primeQueue

\* And every number it queues from its first segment is prime.
THEOREM FirstSegmentIsPrime ==
    ASSUME Parameters, NEW i \in 1..Len(primeQueue), primeQueue[i] < 2 + SEGMENT_SIZE
    PROVE  IsPrime(primeQueue[i])
BY GeneratedQueues, Zenon DEF Queued, primeQueue
=============================================================================
