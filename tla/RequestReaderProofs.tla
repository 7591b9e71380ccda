------------------------ MODULE RequestReaderProofs ------------------------
(***************************************************************************)
(* Proofs about RequestReader, for every conversation and every way it is  *)
(* cut into pieces.  With what LoopProofs says of the parser, one pass of  *)
(* the reader's loop is shown to take one message, or to see that it is    *)
(* cut; then the whole scan, and from it the reader's invariant.           *)
(***************************************************************************)
EXTENDS RequestReader, LoopProofs

-----------------------------------------------------------------------------
\* Requests in the stream.

\* A request is found wherever a buffer holds its bytes.
LEMMA WholeRequest ==
    ASSUME NEW m \in Seq(STRING), IsRequest(m), NEW buf \in Seq(STRING), NEW d \in Nat,
           d + Len(m) <= Len(buf), \A i \in 1..Len(m) : buf[d + i] = m[i]
    PROVE  /\ m # <<>> /\ m[1] = RESP_ARRAY_PREFIX
           /\ parseRespMessageLength(buf, d + 1) = Parse("complete", Len(m))
<1>. DEFINE k == Len(m)
<1>1. k \in Nat /\ Len(buf) \in Nat
    OBVIOUS
<1>2. parseRespMessageLength(m, 1) = Parse("complete", k) /\ m[2] # "0"
    BY DEF IsRequest
<1>3. 1 \in 1..k
  <2>1. SUFFICES ASSUME k = 0 PROVE FALSE
    BY <1>1
  <2>2. 1 > Len(m)
    BY <2>1
  <2>3. parseRespMessageLength(m, 1) = Parse("error", 0)
    BY <2>2 DEF parseRespMessageLength
  <2>. QED BY <1>2, <2>3 DEF Parse
<1>4. IsFound(m, 1, k)
    BY <1>2, <1>3, ParseFacts DEF Parse
<1>5. read_crlf_decimal(m, 1 + 1).end = "crlf"
  <2>1. m[1 + 1] # "0"
    BY <1>2
  <2>. QED BY <1>3, <1>4, <2>1, HeaderWhole
<1>6. Alike(m, 0, buf, d, k)
  <2>1. \A i \in 1..k : m[0 + i] = buf[d + i]
    OBVIOUS
  <2>. QED BY <1>1, <2>1 DEF Alike
<1>7. IsFound(buf, d + 1, k)
  <2>1. IsFound(m, 0 + 1, k) /\ read_crlf_decimal(m, (0 + 1) + 1).end = "crlf" /\ k <= k
    BY <1>1, <1>4, <1>5
  <2>. HIDE DEF k
  <2>. QED BY <1>6, <2>1, FoundAlike, Zenon
<1>8. d + 1 \in 1..Len(buf)
    BY <1>1, <1>3
<1>9. parseRespMessageLength(buf, d + 1) = Parse("complete", k)
    BY <1>7, <1>8, ParseIs
<1>10. m # <<>> /\ m[1] = RESP_ARRAY_PREFIX
    BY <1>3, <1>4 DEF IsFound
<1>. QED BY <1>9, <1>10

\* Of a request that is cut short nothing is found.
LEMMA PartRequest ==
    ASSUME NEW m \in Seq(STRING), IsRequest(m), NEW buf \in Seq(STRING), NEW d \in Nat,
           d < Len(buf), Len(buf) < d + Len(m),
           \A i \in 1..(Len(buf) - d) : buf[d + i] = m[i]
    PROVE  /\ m # <<>> /\ m[1] = RESP_ARRAY_PREFIX
           /\ parseRespMessageLength(buf, d + 1).status \in {"incomplete", "error"}
<1>. DEFINE k == Len(buf) - d
            r == parseRespMessageLength(buf, d + 1)
<1>1. k \in Nat /\ Len(buf) \in Nat /\ Len(m) \in Nat /\ 1 \in 1..k /\ k < Len(m)
      /\ d + k = Len(buf) /\ d + 1 \in 1..Len(buf)
    OBVIOUS
<1>2. parseRespMessageLength(m, 1) = Parse("complete", Len(m)) /\ m[2] # "0"
    BY DEF IsRequest
<1>3. m # <<>> /\ m[1] = RESP_ARRAY_PREFIX
  <2>1. 1 \in 1..Len(m)
    BY <1>1
  <2>2. IsFound(m, 1, Len(m))
    BY <1>2, <2>1, ParseFacts DEF Parse
  <2>. QED BY <2>1, <2>2 DEF IsFound
<1>. HIDE DEF k, r
<1>4. r.status \in {"complete", "incomplete", "error"}
      /\ (r.status = "complete" => IsFound(buf, d + 1, r.length))
    BY <1>1, ParseFacts DEF r
<1>5. ASSUME r.status = "complete" PROVE FALSE
  <2>. DEFINE l == r.length
  <2>1. IsFound(buf, d + 1, l)
    BY <1>4, <1>5
  <2>2. l \in 2..(Len(buf) + 1 - (d + 1))
    BY <2>1, Zenon DEF IsFound
  <2>. HIDE DEF l
  <2>3. l \in Nat /\ l <= k /\ 2 \in 1..k /\ (d + 1) + 1 = d + 2
    BY <1>1, <2>2
  <2>4. buf[(d + 1) + 1] # "0"
    <3>1. buf[d + 2] = m[2]
      BY <2>3 DEF k
    <3>. QED BY <1>2, <2>3, <3>1
  <2>5. read_crlf_decimal(buf, (d + 1) + 1).end = "crlf"
    BY <1>1, <2>1, <2>4, HeaderWhole
  <2>6. Alike(buf, d, m, 0, k)
    <3>1. \A i \in 1..k : buf[d + i] = m[0 + i]
      BY <1>1 DEF k
    <3>. QED BY <1>1, <3>1 DEF Alike
  <2>7. IsFound(m, 0 + 1, l)
    BY <2>1, <2>3, <2>5, <2>6, FoundAlike, Zenon
  <2>8. parseRespMessageLength(m, 1) = Parse("complete", l)
    <3>1. 1 \in 1..Len(m) /\ 0 + 1 = 1
      BY <1>1
    <3>. QED BY <2>7, <3>1, ParseIs
  <2>9. l = Len(m)
    BY <1>2, <2>8 DEF Parse
  <2>. QED BY <1>1, <2>3, <2>9
<1>. QED BY <1>3, <1>4, <1>5 DEF r

-----------------------------------------------------------------------------
\* The stream of a conversation.

Conversation(ms) ==
    /\ ms \in Seq(Seq(STRING))
    /\ \A i \in 1..Len(ms) : IsCustom(ms[i]) \/ IsRequest(ms[i])

\* Where the bytes of the first n messages end.
EndOf(ms, n) == Len(WireUpTo(ms, n))

LEMMA WireFacts ==
    ASSUME NEW m \in Seq(STRING)
    PROVE  Wire(m) \in Seq(STRING) /\ Len(Wire(m)) \in Nat \ {0}
<1>. DEFINE a == Append(m, MSG_SEPARATOR)
<1>1. MSG_SEPARATOR \in STRING
    BY SeparatorAssumption, Zenon
<1>2. Len(m) \in Nat
    BY LenProperties, Zenon
<1>3. a \in Seq(STRING) /\ Len(a) = Len(m) + 1
    BY <1>1, AppendProperties, Zenon
<1>4. m # <<>> => Len(m) # 0
    OBVIOUS
<1>5. IF m # <<>> /\ m[1] = RESP_ARRAY_PREFIX THEN Wire(m) = m ELSE Wire(m) = a
    BY Zenon DEF Wire
<1>. HIDE DEF a
<1>. QED BY <1>2, <1>3, <1>4, <1>5

LEMMA WireSteps ==
    ASSUME NEW ms, Conversation(ms)
    PROVE  /\ WireUpTo(ms, 0) = <<>>
           /\ \A n \in 0..Len(ms) : WireUpTo(ms, n) \in Seq(STRING)
           /\ \A n \in 1..Len(ms) : WireUpTo(ms, n) = WireUpTo(ms, n - 1) \o Wire(ms[n])
<1>. DEFINE B == Seq(STRING)
            m == Len(ms)
            passes == [i \in DOMAIN ms |-> [bytes \in B |-> bytes \o Wire(ms[i])]]
<1>1. m \in Nat /\ DOMAIN ms = 1..m /\ \A i \in 1..m : ms[i] \in B
    BY DEF Conversation
<1>2. <<>> \in B
    OBVIOUS
<1>3. \A i \in 1..m : Wire(ms[i]) \in B
    BY <1>1, WireFacts
<1>4. \A i \in 1..m : [bytes \in B |-> bytes \o Wire(ms[i])] \in [B -> B]
    BY <1>3, ConcatProperties
<1>5. PassesOn(B, passes, m)
    BY <1>1, <1>4 DEF PassesOn
<1>6. \A i \in 1..m, bytes \in B : passes[i][bytes] = bytes \o Wire(ms[i])
    BY <1>1
<1>7. \A n : WireUpTo(ms, n) = Loop(passes, <<>>, n)
    BY DEF WireUpTo
<1>. HIDE DEF B, m, passes
<1>8. PassByPass(B, passes, <<>>, m)
    BY <1>1, <1>2, <1>5, LoopSteps, Zenon
<1>9. \A n \in 1..m : n - 1 \in 0..m
    BY <1>1
<1>10. /\ Loop(passes, <<>>, 0) = <<>>
       /\ \A n \in 0..m : Loop(passes, <<>>, n) \in B
       /\ \A n \in 1..m : Loop(passes, <<>>, n) = passes[n][Loop(passes, <<>>, n - 1)]
    BY <1>8, Zenon DEF PassByPass
<1>11. \A n \in 1..m : Loop(passes, <<>>, n) = Loop(passes, <<>>, n - 1) \o Wire(ms[n])
    BY <1>6, <1>9, <1>10, Zenon
<1>. HIDE DEF Wire
<1>. QED BY <1>7, <1>10, <1>11, Zenon DEF B, m

LEMMA KeptSteps ==
    ASSUME NEW ms, Conversation(ms)
    PROVE  /\ NonEmptyUpTo(ms, 0) = <<>>
           /\ \A n \in 0..Len(ms) : NonEmptyUpTo(ms, n) \in Seq(Seq(STRING))
           /\ \A n \in 1..Len(ms) : NonEmptyUpTo(ms, n) =
                 IF ms[n] = <<>> THEN NonEmptyUpTo(ms, n - 1)
                                 ELSE Append(NonEmptyUpTo(ms, n - 1), ms[n])
<1>. DEFINE B == Seq(Seq(STRING))
            m == Len(ms)
            Keep(i, kept) == IF ms[i] = <<>> THEN kept ELSE Append(kept, ms[i])
            passes == [i \in DOMAIN ms |-> [kept \in B |-> Keep(i, kept)]]
<1>1. m \in Nat /\ DOMAIN ms = 1..m /\ \A i \in 1..m : ms[i] \in Seq(STRING)
    BY DEF Conversation
<1>2. <<>> \in B
    OBVIOUS
<1>3. \A i \in 1..m, kept \in B : Keep(i, kept) \in B
    BY <1>1, AppendProperties, Zenon
<1>4. PassesOn(B, passes, m)
    BY <1>1, <1>3, Zenon DEF PassesOn
<1>5. \A i \in 1..m, kept \in B : passes[i][kept] = Keep(i, kept)
    BY <1>1
<1>6. \A n : NonEmptyUpTo(ms, n) = Loop(passes, <<>>, n)
    BY DEF NonEmptyUpTo
<1>. HIDE DEF B, m, passes
<1>7. PassByPass(B, passes, <<>>, m)
    BY <1>1, <1>2, <1>4, LoopSteps, Zenon
<1>8. \A n \in 1..m : n - 1 \in 0..m
    BY <1>1
<1>9. /\ Loop(passes, <<>>, 0) = <<>>
      /\ \A n \in 0..m : Loop(passes, <<>>, n) \in B
      /\ \A n \in 1..m : Loop(passes, <<>>, n) = passes[n][Loop(passes, <<>>, n - 1)]
    BY <1>7, Zenon DEF PassByPass
<1>10. \A n \in 1..m : Loop(passes, <<>>, n) = Keep(n, Loop(passes, <<>>, n - 1))
  <2>. HIDE DEF Keep
  <2>. QED BY <1>5, <1>8, <1>9
<1>. QED BY <1>6, <1>9, <1>10 DEF B, m

\* Where message n lies among the bytes of the first n.
LEMMA EndSteps ==
    ASSUME NEW ms, Conversation(ms)
    PROVE  /\ EndOf(ms, 0) = 0
           /\ \A n \in 0..Len(ms) : EndOf(ms, n) \in Nat
           /\ \A n \in 1..Len(ms) :
                 /\ EndOf(ms, n) = EndOf(ms, n - 1) + Len(Wire(ms[n]))
                 /\ EndOf(ms, n - 1) < EndOf(ms, n)
<1>1. \A n \in 0..Len(ms) : EndOf(ms, n) \in Nat
    BY WireSteps DEF EndOf
<1>2. EndOf(ms, 0) = 0
    BY WireSteps DEF EndOf
<1>3. ASSUME NEW n \in 1..Len(ms)
      PROVE  /\ EndOf(ms, n) = EndOf(ms, n - 1) + Len(Wire(ms[n]))
             /\ EndOf(ms, n - 1) < EndOf(ms, n)
  <2>1. n - 1 \in 0..Len(ms) /\ ms[n] \in Seq(STRING)
    BY DEF Conversation
  <2>2. Wire(ms[n]) \in Seq(STRING) /\ Len(Wire(ms[n])) \in Nat \ {0}
    BY <2>1, WireFacts
  <2>3. WireUpTo(ms, n - 1) \in Seq(STRING)
        /\ WireUpTo(ms, n) = WireUpTo(ms, n - 1) \o Wire(ms[n])
    BY <2>1, WireSteps
  <2>4. EndOf(ms, n) = EndOf(ms, n - 1) + Len(Wire(ms[n]))
    BY <2>2, <2>3, ConcatProperties DEF EndOf
  <2>5. EndOf(ms, n - 1) \in Nat
    BY <1>1, <2>1
  <2>. QED BY <2>2, <2>4, <2>5
<1>. QED BY <1>1, <1>2, <1>3

\* More messages leave the bytes of the earlier ones where they are.
LEMMA WirePrefix ==
    ASSUME NEW ms, Conversation(ms), NEW i \in 0..Len(ms), NEW j \in i..Len(ms)
    PROVE  /\ EndOf(ms, i) <= EndOf(ms, j) /\ (i < j => EndOf(ms, i) < EndOf(ms, j))
           /\ \A p \in 1..EndOf(ms, i) : WireUpTo(ms, j)[p] = WireUpTo(ms, i)[p]
<1>. DEFINE Ok(k) ==
                /\ EndOf(ms, i) <= EndOf(ms, k) /\ (i < k => EndOf(ms, i) < EndOf(ms, k))
                /\ \A p \in 1..EndOf(ms, i) : WireUpTo(ms, k)[p] = WireUpTo(ms, i)[p]
            T == {k \in Nat : i + k <= Len(ms) => Ok(i + k)}
<1>1. Len(ms) \in Nat /\ i \in Nat /\ j \in Nat /\ j - i \in Nat /\ i + (j - i) = j /\ j <= Len(ms)
    BY DEF Conversation
<1>2. 0 \in T
  <2>1. EndOf(ms, i) \in Nat /\ i + 0 = i
    BY EndSteps
  <2>. QED BY <2>1
<1>3. ASSUME NEW k \in T PROVE k + 1 \in T
  <2>. DEFINE n == i + (k + 1)
  <2>0. k \in Nat
    OBVIOUS
  <2>1. SUFFICES ASSUME n <= Len(ms) PROVE Ok(n)
    BY <2>0
  <2>2. n \in 1..Len(ms) /\ n - 1 = i + k /\ n - 1 \in 0..Len(ms) /\ i + k <= Len(ms)
        /\ i <= n - 1
    BY <1>1, <2>0, <2>1
  <2>3. Ok(n - 1)
    BY <2>2
  <2>. HIDE DEF n
  <2>4. /\ EndOf(ms, n - 1) < EndOf(ms, n) /\ EndOf(ms, n - 1) \in Nat
        /\ EndOf(ms, n) \in Nat /\ EndOf(ms, i) \in Nat
    <3>1. n \in 0..Len(ms)
      BY <2>2
    <3>. QED BY <2>2, <3>1, EndSteps
  <2>5. ASSUME NEW p \in 1..EndOf(ms, i)
        PROVE  WireUpTo(ms, n)[p] = WireUpTo(ms, n - 1)[p]
    <3>1. ms[n] \in Seq(STRING)
      BY <2>2 DEF Conversation
    <3>2. Wire(ms[n]) \in Seq(STRING) /\ Len(Wire(ms[n])) \in Nat
      BY <3>1, WireFacts
    <3>3. WireUpTo(ms, n - 1) \in Seq(STRING)
          /\ WireUpTo(ms, n) = WireUpTo(ms, n - 1) \o Wire(ms[n])
      BY <2>2, WireSteps
    <3>4. p \in 1..Len(WireUpTo(ms, n - 1))
      BY <2>3, <2>4 DEF EndOf
    <3>. QED BY <3>2, <3>3, <3>4, ConcatProperties
  <2>. QED BY <2>3, <2>4, <2>5
<1>4. \A k \in Nat : k \in T
  <2>1. T \in SUBSET Nat
    OBVIOUS
  <2>. HIDE DEF T
  <2>. QED BY <1>2, <1>3, <2>1, SetInduction, Zenon
<1>5. j - i \in T
    BY <1>1, <1>4
<1>. HIDE DEF Ok
<1>6. Ok(j)
    BY <1>1, <1>5
<1>. QED BY <1>6 DEF Ok

\* The bytes of a message, where the whole stream holds them.
LEMMA MessageBytes ==
    ASSUME NEW ms, Conversation(ms), NEW i \in 0..(Len(ms) - 1)
    PROVE  \A p \in 1..Len(Wire(ms[i + 1])) :
              WireUpTo(ms, Len(ms))[EndOf(ms, i) + p] = Wire(ms[i + 1])[p]
<1>. DEFINE n == i + 1
            w == Wire(ms[n])
            b == EndOf(ms, i)
            before == WireUpTo(ms, i)
<1>1. Len(ms) \in Nat /\ n \in 1..Len(ms) /\ n \in 0..Len(ms) /\ n - 1 = i
      /\ Len(ms) \in n..Len(ms) /\ i \in 0..Len(ms)
    BY DEF Conversation
<1>2. w \in Seq(STRING) /\ Len(w) \in Nat
    BY <1>1, WireFacts DEF Conversation
<1>3. before \in Seq(STRING) /\ WireUpTo(ms, n) = before \o w
    BY <1>1, WireSteps
<1>4. b \in Nat /\ b = Len(before) /\ EndOf(ms, n) = b + Len(w)
    BY <1>1, EndSteps DEF EndOf
<1>5. \A p \in 1..EndOf(ms, n) : WireUpTo(ms, Len(ms))[p] = WireUpTo(ms, n)[p]
    BY <1>1, WirePrefix
<1>. HIDE DEF n, w, b, before
<1>6. ASSUME NEW p \in 1..Len(w) PROVE WireUpTo(ms, Len(ms))[b + p] = w[p]
  <2>1. b + p \in 1..EndOf(ms, n) /\ b + p \in 1..(Len(before) + Len(w))
        /\ ~(b + p <= Len(before)) /\ (b + p) - Len(before) = p
    BY <1>2, <1>4
  <2>2. (before \o w)[b + p] = w[(b + p) - Len(before)]
    BY <1>2, <1>3, <2>1, ConcatProperties
  <2>. QED BY <1>3, <1>5, <2>1, <2>2
<1>. QED BY <1>6 DEF n, w, b

-----------------------------------------------------------------------------
\* One pass of the reader's loop takes one message, or sees that it is cut.

\* The bytes w lie in a buffer behind its first d bytes, as far as it goes.
Holds(buf, d, w) ==
    /\ buf \in Seq(STRING) /\ w \in Seq(STRING) /\ d \in Nat /\ d < Len(buf)
    /\ \A p \in 1..Len(w) : d + p <= Len(buf) => buf[d + p] = w[p]

LEMMA SeparatorIs ==
    ASSUME NEW buf \in Seq(STRING), NEW start \in 1..Len(buf), NEW i \in start..(Len(buf) + 1),
           \A j \in start..(i - 1) : buf[j] # MSG_SEPARATOR,
           i <= Len(buf) => buf[i] = MSG_SEPARATOR
    PROVE  SeparatorAt(buf, start) = i
<1>. DEFINE Stop(x) == /\ \A j \in start..(x - 1) : buf[j] # MSG_SEPARATOR
                       /\ x <= Len(buf) => buf[x] = MSG_SEPARATOR
            y == CHOOSE x \in start..(Len(buf) + 1) : Stop(x)
<1>1. y \in start..(Len(buf) + 1) /\ Stop(y)
  <2>1. \E x \in start..(Len(buf) + 1) : Stop(x)
    OBVIOUS
  <2>. HIDE DEF Stop
  <2>. QED BY <2>1, Zenon
<1>2. SeparatorAt(buf, start) = y
    BY DEF SeparatorAt
<1>. HIDE DEF y
<1>3. ~(y < i)
  <2>1. SUFFICES ASSUME y < i PROVE FALSE
    OBVIOUS
  <2>2. y \in start..(i - 1) /\ y <= Len(buf)
    BY <1>1, <2>1
  <2>. QED BY <1>1, <2>2
<1>4. ~(i < y)
  <2>1. SUFFICES ASSUME i < y PROVE FALSE
    OBVIOUS
  <2>2. i \in start..(y - 1) /\ i <= Len(buf)
    BY <1>1, <2>1
  <2>. QED BY <1>1, <2>2
<1>. QED BY <1>1, <1>2, <1>3, <1>4

\* The bytes of a message that lies in a buffer are the message.
LEMMA HeldBytes ==
    ASSUME NEW buf \in Seq(STRING), NEW d \in Nat, NEW m \in Seq(STRING),
           d + Len(m) <= Len(buf), \A p \in 1..Len(m) : buf[d + p] = m[p]
    PROVE  SubSeq(buf, d + 1, (d + 1) + Len(m) - 1) = m
<1>. DEFINE k == Len(m)
            b == SubSeq(buf, d + 1, (d + 1) + k - 1)
<1>1. k \in Nat /\ Len(buf) \in Nat
    OBVIOUS
<1>2. (d + 1) + k - 1 = d + k /\ d + 1 \in Int /\ d + k \in Int /\ d + k <= Len(buf)
    BY <1>1
<1>3. \A i \in (d + 1)..(d + k) : buf[i] \in STRING
  <2>1. \A i \in (d + 1)..(d + k) : i \in 1..Len(buf)
    BY <1>1, <1>2
  <2>. QED BY <2>1, ElementOfSeq
<1>4. /\ b \in Seq(STRING)
      /\ Len(b) = IF d + 1 <= d + k THEN (d + k) - (d + 1) + 1 ELSE 0
      /\ \A i \in 1..((d + k) - (d + 1) + 1) : b[i] = buf[(d + 1) + i - 1]
  <2>. HIDE DEF k
  <2>. QED BY <1>2, <1>3, SubSeqProperties
<1>. HIDE DEF b
<1>5. Len(b) = k
    BY <1>1, <1>4
<1>6. ASSUME NEW i \in 1..k PROVE b[i] = m[i]
  <2>1. i \in 1..((d + k) - (d + 1) + 1) /\ (d + 1) + i - 1 = d + i
    BY <1>1
  <2>2. buf[d + i] = m[i]
    OBVIOUS
  <2>. QED BY <1>4, <2>1, <2>2
<1>7. b = m
    BY <1>4, <1>5, <1>6, SeqEqual
<1>. QED BY <1>7 DEF b, k

\* The scan that has taken the message m, and one that saw that m is cut.
Took(s, m) == Scanned("more", s.start + Len(Wire(m)), IF m = <<>> THEN s.found ELSE Append(s.found, m))
Stopped(s) == {[s EXCEPT !.status = "end"], [s EXCEPT !.status = "error"]}

LEMMA RequestPass ==
    ASSUME NEW m \in Seq(STRING), IsRequest(m), NEW buf, NEW s \in Scans, NEW d \in Nat,
           s.status = "more", s.start = d + 1, Holds(buf, d, Wire(m))
    PROVE  IF d + Len(Wire(m)) <= Len(buf) THEN ScanPass(buf, s) = Took(s, m)
                                           ELSE ScanPass(buf, s) \in Stopped(s)
<1>. DEFINE k == Len(m)
            p == parseRespMessageLength(buf, d + 1)
<1>1. /\ buf \in Seq(STRING) /\ Len(buf) \in Nat /\ k \in Nat /\ d < Len(buf)
      /\ d + 1 \in 1..Len(buf)
    BY DEF Holds
<1>2. m # <<>> /\ m[1] = RESP_ARRAY_PREFIX
  <2>1. m \in Seq(STRING) /\ \A i \in 1..Len(m) : m[0 + i] = m[i]
    OBVIOUS
  <2>2. 0 + Len(m) <= Len(m)
    BY <1>1
  <2>. QED BY <2>1, <2>2, WholeRequest, Zenon
<1>3. Wire(m) = m /\ 1 \in 1..k
    BY <1>2 DEF Wire
<1>4. \A i \in 1..k : d + i <= Len(buf) => buf[d + i] = m[i]
    BY <1>3 DEF Holds
<1>5. buf[d + 1] = RESP_ARRAY_PREFIX
    BY <1>1, <1>2, <1>3, <1>4
<1>6. RESP_ARRAY_PREFIX # MSG_SEPARATOR
    BY DEF RESP_ARRAY_PREFIX, MSG_SEPARATOR
<1>7. ~(s.start > Len(buf)) /\ buf[s.start] # MSG_SEPARATOR /\ buf[s.start] = RESP_ARRAY_PREFIX
    BY <1>1, <1>5, <1>6
<1>8. CASE d + k <= Len(buf)
  <2>1. \A i \in 1..k : buf[d + i] = m[i]
    BY <1>1, <1>4, <1>8
  <2>2. p = Parse("complete", k)
    BY <1>1, <1>8, <2>1, WholeRequest
  <2>3. SubSeq(buf, d + 1, (d + 1) + k - 1) = m
    BY <1>1, <1>8, <2>1, HeldBytes
  <2>4. Found(buf, s, k) = Append(s.found, m)
    BY <2>3 DEF Found
  <2>. HIDE DEF k
  <2>5. ScanPass(buf, s) = Scanned("more", s.start + k, Found(buf, s, k))
    BY <1>7, <2>2 DEF ScanPass, Parse
  <2>. QED BY <1>2, <1>3, <1>8, <2>4, <2>5 DEF Took, k
<1>9. CASE ~(d + k <= Len(buf))
  <2>1. ASSUME NEW i \in 1..(Len(buf) - d) PROVE buf[d + i] = m[i]
    <3>1. i \in 1..k /\ d + i <= Len(buf)
      BY <1>1, <1>9
    <3>. QED BY <1>4, <3>1, Zenon
  <2>2. p.status \in {"incomplete", "error"}
    BY <1>1, <1>9, <2>1, PartRequest
  <2>3. CASE p.status = "incomplete"
    <3>1. ScanPass(buf, s) = [s EXCEPT !.status = "end"]
      BY <1>7, <2>3 DEF ScanPass
    <3>. QED BY <1>3, <1>9, <3>1 DEF Stopped
  <2>4. CASE p.status = "error"
    <3>1. ScanPass(buf, s) = [s EXCEPT !.status = "error"]
      BY <1>7, <2>4 DEF ScanPass
    <3>. QED BY <1>3, <1>9, <3>1 DEF Stopped
  <2>. QED BY <2>2, <2>3, <2>4
<1>. QED BY <1>8, <1>9

\* A sequence with one more element.
LEMMA AppendIs ==
    ASSUME NEW S, NEW s \in Seq(S), NEW a \in S
    PROVE  /\ Len(Append(s, a)) = Len(s) + 1 /\ Append(s, a)[Len(s) + 1] = a
           /\ \A i \in 1..Len(s) : Append(s, a)[i] = s[i]
BY AppendProperties

LEMMA CustomPass ==
    ASSUME NEW m \in Seq(STRING), IsCustom(m), NEW buf, NEW s \in Scans, NEW d \in Nat,
           s.status = "more", s.start = d + 1, Holds(buf, d, Wire(m))
    PROVE  IF d + Len(Wire(m)) <= Len(buf) THEN ScanPass(buf, s) = Took(s, m)
                                           ELSE ScanPass(buf, s) \in Stopped(s)
<1>. DEFINE k == Len(m)
            w == Append(m, MSG_SEPARATOR)
            pos == SeparatorAt(buf, d + 1)
<1>1. /\ buf \in Seq(STRING) /\ Len(buf) \in Nat /\ k \in Nat /\ d < Len(buf)
      /\ d + 1 \in 1..Len(buf) /\ ~(s.start > Len(buf))
    BY DEF Holds
<1>2. Wire(m) = w
    BY DEF Wire, IsCustom
<1>3. Len(w) = k + 1 /\ (\A i \in 1..k : w[i] = m[i]) /\ w[k + 1] = MSG_SEPARATOR
    BY SeparatorAssumption, AppendIs, Zenon
<1>4. \A i \in 1..k : m[i] # MSG_SEPARATOR
    BY DEF IsCustom
<1>. HIDE DEF w
<1>5. /\ \A i \in 1..k : d + i <= Len(buf) => buf[d + i] = m[i]
      /\ d + (k + 1) <= Len(buf) => buf[d + (k + 1)] = MSG_SEPARATOR
  <2>1. \A i \in 1..Len(w) : d + i <= Len(buf) => buf[d + i] = w[i]
    BY <1>2 DEF Holds
  <2>2. k + 1 \in 1..Len(w) /\ \A i \in 1..k : i \in 1..Len(w)
    BY <1>1, <1>3
  <2>. QED BY <1>3, <2>1, <2>2
<1>6. CASE m = <<>>
  <2>1. k = 0 /\ buf[s.start] = MSG_SEPARATOR
    BY <1>1, <1>5, <1>6
  <2>2. ScanPass(buf, s) = [s EXCEPT !.start = @ + 1]
    BY <1>1, <2>1 DEF ScanPass
  <2>3. [s EXCEPT !.start = @ + 1] = Scanned("more", s.start + 1, s.found)
    BY DEF Scans, Scanned
  <2>4. Took(s, m) = Scanned("more", s.start + 1, s.found)
    BY <1>2, <1>3, <1>6, <2>1 DEF Took
  <2>5. d + Len(Wire(m)) <= Len(buf)
    BY <1>1, <1>2, <1>3, <2>1
  <2>. QED BY <2>2, <2>3, <2>4, <2>5
<1>7. CASE m # <<>>
  <2>1. 1 \in 1..k
    BY <1>7
  <2>2. buf[d + 1] = m[1] /\ m[1] # MSG_SEPARATOR /\ m[1] # RESP_ARRAY_PREFIX
    BY <1>1, <1>4, <1>5, <1>7, <2>1 DEF IsCustom
  <2>3. ScanPass(buf, s) = IF pos > Len(buf) THEN [s EXCEPT !.status = "end"]
                           ELSE Scanned("more", pos + 1, Found(buf, s, pos - s.start))
    BY <1>1, <2>2 DEF ScanPass
  <2>. HIDE DEF pos, k
  <2>4. \A j \in (d + 1)..(d + k) : j <= Len(buf) => buf[j] # MSG_SEPARATOR
    <3>1. ASSUME NEW j \in (d + 1)..(d + k), j <= Len(buf) PROVE buf[j] # MSG_SEPARATOR
      <4>1. j - d \in 1..k /\ d + (j - d) = j
        BY <1>1
      <4>. QED BY <1>4, <1>5, <3>1, <4>1
    <3>. QED BY <3>1
  <2>5. CASE d + (k + 1) <= Len(buf)
    <3>1. pos = d + (k + 1)
      <4>1. d + (k + 1) \in (d + 1)..(Len(buf) + 1)
            /\ \A j \in (d + 1)..(d + (k + 1) - 1) : j \in (d + 1)..(d + k) /\ j <= Len(buf)
        BY <1>1, <2>5
      <4>2. \A j \in (d + 1)..(d + (k + 1) - 1) : buf[j] # MSG_SEPARATOR
        BY <2>4, <4>1
      <4>. QED BY <1>1, <1>5, <2>5, <4>1, <4>2, SeparatorIs DEF pos
    <3>2. ~(pos > Len(buf)) /\ pos - s.start = k /\ pos + 1 = s.start + (k + 1)
      BY <1>1, <2>5, <3>1
    <3>3. \A i \in 1..k : buf[d + i] = m[i]
      BY <1>1, <1>5, <2>5
    <3>4. SubSeq(buf, d + 1, (d + 1) + k - 1) = m
      BY <1>1, <2>5, <3>3, HeldBytes DEF k
    <3>5. Found(buf, s, k) = Append(s.found, m)
      BY <3>4 DEF Found
    <3>. QED BY <1>2, <1>3, <1>7, <2>3, <2>5, <3>2, <3>5, Zenon DEF Took
  <2>6. CASE ~(d + (k + 1) <= Len(buf))
    <3>1. pos = Len(buf) + 1
      <4>1. /\ Len(buf) + 1 \in (d + 1)..(Len(buf) + 1) /\ ~(Len(buf) + 1 <= Len(buf))
            /\ \A j \in (d + 1)..((Len(buf) + 1) - 1) : j \in (d + 1)..(d + k) /\ j <= Len(buf)
        BY <1>1, <2>6
      <4>2. \A j \in (d + 1)..((Len(buf) + 1) - 1) : buf[j] # MSG_SEPARATOR
        BY <2>4, <4>1
      <4>. QED BY <1>1, <4>1, <4>2, SeparatorIs DEF pos
    <3>2. pos > Len(buf)
      BY <1>1, <3>1
    <3>. QED BY <1>2, <1>3, <2>3, <2>6, <3>2 DEF Stopped
  <2>. QED BY <2>5, <2>6
<1>. QED BY <1>6, <1>7

LEMMA SeparatorFacts ==
    ASSUME NEW buf \in Seq(STRING), NEW start \in 1..Len(buf)
    PROVE  SeparatorAt(buf, start) \in start..(Len(buf) + 1)
<1>. DEFINE T == {i \in start..(Len(buf) + 1) : i <= Len(buf) => buf[i] = MSG_SEPARATOR}
<1>1. Len(buf) \in Nat /\ Len(buf) + 1 \in T /\ T \in SUBSET Nat
    OBVIOUS
<1>2. PICK i \in T : \A j \in T : i <= j
    BY <1>1, LeastNumber, Zenon
<1>3. ASSUME NEW j \in start..(i - 1) PROVE buf[j] # MSG_SEPARATOR
  <2>1. j \in start..(Len(buf) + 1) /\ ~(i <= j)
    BY <1>1
  <2>. QED BY <1>2, <2>1
<1>4. SeparatorAt(buf, start) = i
    BY <1>3, SeparatorIs
<1>. QED BY <1>4

\* Whatever the buffer holds, a pass takes a scan to a scan.
LEMMA ScanPassType ==
    ASSUME NEW buf \in Seq(STRING), NEW s \in Scans
    PROVE  ScanPass(buf, s) \in Scans
<1>. DEFINE start == s.start
            p == parseRespMessageLength(buf, start)
            pos == SeparatorAt(buf, start)
<1>1. Len(buf) \in Nat /\ start \in Nat \ {0} /\ s.found \in Seq(Seq(STRING))
    BY DEF Scans
<1>2. ASSUME NEW n \in Nat, start + n <= Len(buf) + 1
      PROVE  Found(buf, s, n) \in Seq(Seq(STRING))
  <2>. DEFINE last == start + n - 1
  <2>1. start \in Int /\ last \in Int /\ \A i \in start..last : i \in 1..Len(buf)
    BY <1>1, <1>2
  <2>2. \A i \in start..last : buf[i] \in STRING
    BY <2>1, ElementOfSeq
  <2>. HIDE DEF last
  <2>3. SubSeq(buf, start, last) \in Seq(STRING)
    BY <2>1, <2>2, SubSeqProperties
  <2>. QED BY <1>1, <2>3, AppendProperties DEF Found, last
<1>3. CASE start > Len(buf)
    BY <1>3 DEF ScanPass
<1>4. CASE ~(start > Len(buf))
  <2>1. start \in 1..Len(buf)
    BY <1>1, <1>4
  <2>2. CASE buf[start] = MSG_SEPARATOR
    <3>1. ScanPass(buf, s) = [s EXCEPT !.start = @ + 1]
      BY <1>4, <2>2 DEF ScanPass
    <3>. QED BY <1>1, <3>1 DEF Scans
  <2>3. CASE buf[start] # MSG_SEPARATOR /\ buf[start] = RESP_ARRAY_PREFIX
    <3>1. /\ p.status \in {"complete", "incomplete", "error"}
          /\ p.status = "complete" => IsFound(buf, start, p.length)
      BY <2>1, ParseFacts
    <3>2. CASE p.status = "complete"
      <4>. DEFINE n == p.length
      <4>1. n \in 2..(Len(buf) + 1 - start)
        BY <3>1, <3>2, Zenon DEF IsFound
      <4>2. ScanPass(buf, s) = Scanned("more", start + n, Found(buf, s, n))
        BY <1>4, <2>3, <3>2 DEF ScanPass
      <4>. HIDE DEF n, start
      <4>3. n \in Nat /\ start + n <= Len(buf) + 1 /\ start + n \in Nat \ {0}
        BY <1>1, <4>1
      <4>4. Found(buf, s, n) \in Seq(Seq(STRING))
        BY <1>2, <4>3
      <4>. QED BY <4>2, <4>3, <4>4 DEF Scanned, Scans
    <3>3. CASE p.status = "incomplete"
      <4>1. ScanPass(buf, s) = [s EXCEPT !.status = "end"]
        BY <1>4, <2>3, <3>3 DEF ScanPass
      <4>. QED BY <4>1 DEF Scans
    <3>4. CASE p.status = "error"
      <4>1. ScanPass(buf, s) = [s EXCEPT !.status = "error"]
        BY <1>4, <2>3, <3>4 DEF ScanPass
      <4>. QED BY <4>1 DEF Scans
    <3>. QED BY <3>1, <3>2, <3>3, <3>4
  <2>4. CASE buf[start] # MSG_SEPARATOR /\ buf[start] # RESP_ARRAY_PREFIX
    <3>1. ScanPass(buf, s) = IF pos > Len(buf) THEN [s EXCEPT !.status = "end"]
                             ELSE Scanned("more", pos + 1, Found(buf, s, pos - start))
      BY <1>4, <2>4 DEF ScanPass
    <3>2. pos \in start..(Len(buf) + 1)
      BY <2>1, SeparatorFacts
    <3>. HIDE DEF pos
    <3>3. CASE pos > Len(buf)
      BY <3>1, <3>3 DEF Scans
    <3>4. CASE ~(pos > Len(buf))
      <4>. DEFINE n == pos - start
                  found == Found(buf, s, n)
      <4>1. n \in Nat /\ start + n <= Len(buf) + 1 /\ pos + 1 \in Nat \ {0}
        BY <1>1, <3>2, <3>4
      <4>. HIDE DEF n
      <4>2. found \in Seq(Seq(STRING))
        BY <1>2, <4>1
      <4>3. ScanPass(buf, s) = Scanned("more", pos + 1, found)
        BY <3>1, <3>4 DEF n
      <4>. HIDE DEF found
      <4>. QED BY <4>1, <4>2, <4>3 DEF Scanned, Scans
    <3>. QED BY <3>3, <3>4
  <2>. QED BY <2>2, <2>3, <2>4
<1>. QED BY <1>3, <1>4

-----------------------------------------------------------------------------
\* The whole loop, over a piece of the stream that begins with a message.

\* The buffer holds the bytes of the stream behind the first j messages, as
\* far as byte t.
Window(ms, j, t, buf) ==
    /\ Conversation(ms) /\ j \in 0..Len(ms) /\ t \in Nat
    /\ EndOf(ms, j) <= t /\ t <= EndOf(ms, Len(ms))
    /\ buf \in Seq(STRING) /\ Len(buf) = t - EndOf(ms, j)
    /\ \A p \in 1..Len(buf) : buf[p] = WireUpTo(ms, Len(ms))[EndOf(ms, j) + p]

\* A scan of it has taken the messages up to i.
AtMessage(ms, j, t, s, i) ==
    /\ s \in Scans /\ i \in j..Len(ms) /\ EndOf(ms, i) <= t
    /\ s.start = EndOf(ms, i) - EndOf(ms, j) + 1
    /\ NonEmptyUpTo(ms, i) = NonEmptyUpTo(ms, j) \o s.found

\* No more than i messages lie within the first t bytes.
NoMoreThan(ms, t, i) == i < Len(ms) => t < EndOf(ms, i + 1)

LEMMA WindowHolds ==
    ASSUME NEW ms, NEW j, NEW t, NEW buf, Window(ms, j, t, buf),
           NEW i \in j..Len(ms), EndOf(ms, i) < t
    PROVE  /\ i < Len(ms) /\ i + 1 \in 1..Len(ms)
           /\ ms[i + 1] \in Seq(STRING) /\ (IsCustom(ms[i + 1]) \/ IsRequest(ms[i + 1]))
           /\ EndOf(ms, i) - EndOf(ms, j) \in Nat
           /\ EndOf(ms, i + 1) = EndOf(ms, i) + Len(Wire(ms[i + 1]))
           /\ Len(Wire(ms[i + 1])) \in Nat \ {0}
           /\ Holds(buf, EndOf(ms, i) - EndOf(ms, j), Wire(ms[i + 1]))
<1>. DEFINE w == Wire(ms[i + 1])
            d == EndOf(ms, i) - EndOf(ms, j)
<1>1. /\ Conversation(ms) /\ Len(ms) \in Nat /\ j \in 0..Len(ms) /\ t \in Nat
      /\ buf \in Seq(STRING) /\ Len(buf) \in Nat /\ Len(buf) = t - EndOf(ms, j)
      /\ t <= EndOf(ms, Len(ms))
    BY DEF Window, Conversation
<1>2. i \in 0..Len(ms) /\ i \in Nat
    BY <1>1
<1>3. EndOf(ms, i) \in Nat /\ EndOf(ms, j) \in Nat /\ EndOf(ms, Len(ms)) \in Nat
  <2>1. Len(ms) \in 0..Len(ms)
    BY <1>1
  <2>. QED BY <1>1, <1>2, <2>1, EndSteps
<1>4. i < Len(ms) /\ i + 1 \in 1..Len(ms) /\ i \in 0..(Len(ms) - 1) /\ (i + 1) - 1 = i
  <2>1. i # Len(ms)
    BY <1>1, <1>3
  <2>. QED BY <1>1, <1>2, <2>1
<1>5. ms[i + 1] \in Seq(STRING) /\ (IsCustom(ms[i + 1]) \/ IsRequest(ms[i + 1]))
    BY <1>1, <1>4 DEF Conversation
<1>6. w \in Seq(STRING) /\ Len(w) \in Nat \ {0}
    BY <1>5, WireFacts
<1>7. EndOf(ms, i + 1) = EndOf(ms, i) + Len(w)
    BY <1>1, <1>4, EndSteps
<1>8. EndOf(ms, j) <= EndOf(ms, i)
    BY <1>1, <1>2, WirePrefix
<1>9. d \in Nat /\ d < Len(buf)
    BY <1>1, <1>3, <1>8
<1>10. \A p \in 1..Len(w) : WireUpTo(ms, Len(ms))[EndOf(ms, i) + p] = w[p]
    BY <1>1, <1>4, MessageBytes
<1>. HIDE DEF w
<1>11. ASSUME NEW p \in 1..Len(w), d + p <= Len(buf) PROVE buf[d + p] = w[p]
  <2>1. d + p \in 1..Len(buf) /\ EndOf(ms, j) + (d + p) = EndOf(ms, i) + p
    BY <1>1, <1>3, <1>6, <1>9, <1>11
  <2>. HIDE DEF d
  <2>2. buf[d + p] = WireUpTo(ms, Len(ms))[EndOf(ms, j) + (d + p)]
    BY <2>1 DEF Window
  <2>. QED BY <1>10, <2>1, <2>2
<1>12. Holds(buf, d, w)
  <2>. HIDE DEF d
  <2>. QED BY <1>1, <1>6, <1>9, <1>11 DEF Holds
<1>. QED BY <1>4, <1>5, <1>6, <1>7, <1>9, <1>12 DEF w

\* One pass.
LEMMA PassAtMessage ==
    ASSUME NEW ms, NEW j, NEW t, NEW buf, Window(ms, j, t, buf),
           NEW s, NEW i, AtMessage(ms, j, t, s, i), s.status = "more", s.start <= Len(buf)
    PROVE  LET r == ScanPass(buf, s)
           IN  \/ AtMessage(ms, j, t, r, i + 1) /\ r.status = "more" /\ r.start > s.start
               \/ AtMessage(ms, j, t, r, i) /\ r.status # "more" /\ NoMoreThan(ms, t, i)
<1>. DEFINE m == ms[i + 1]
            w == Wire(m)
            b == EndOf(ms, i)
            c == EndOf(ms, j)
            d == b - c
            r == ScanPass(buf, s)
<1>0. /\ Conversation(ms) /\ j \in 0..Len(ms) /\ t \in Nat
      /\ buf \in Seq(STRING) /\ Len(buf) = t - c
    BY Zenon DEF Window
<1>1. /\ Conversation(ms) /\ Len(ms) \in Nat /\ j \in 0..Len(ms) /\ t \in Nat
      /\ Len(buf) \in Nat /\ Len(buf) = t - c
  <2>1. Len(ms) \in Nat
    BY <1>0 DEF Conversation
  <2>2. Len(buf) \in Nat
    BY <1>0
  <2>. QED BY <1>0, <2>1, <2>2, Zenon
<1>2. /\ s \in Scans /\ i \in j..Len(ms) /\ b <= t /\ s.start = b - c + 1
      /\ NonEmptyUpTo(ms, i) = NonEmptyUpTo(ms, j) \o s.found
    BY DEF AtMessage
<1>3. b \in Nat /\ c \in Nat /\ i \in 0..Len(ms)
    BY <1>1, <1>2, EndSteps
<1>4. b < t
    BY <1>1, <1>2, <1>3
<1>5. /\ i < Len(ms) /\ i + 1 \in 1..Len(ms)
      /\ m \in Seq(STRING) /\ (IsCustom(m) \/ IsRequest(m))
      /\ d \in Nat /\ EndOf(ms, i + 1) = b + Len(w) /\ Len(w) \in Nat \ {0}
      /\ Holds(buf, d, w)
    BY <1>2, <1>4, WindowHolds
<1>6. s.start = d + 1
    BY <1>2
<1>7. IF d + Len(w) <= Len(buf) THEN r = Took(s, m) ELSE r \in Stopped(s)
  <2>. HIDE DEF d, m
  <2>. QED BY <1>2, <1>5, <1>6, RequestPass, CustomPass
<1>. HIDE DEF r
<1>8. CASE d + Len(w) <= Len(buf)
  <2>1. r = Scanned("more", s.start + Len(w), IF m = <<>> THEN s.found ELSE Append(s.found, m))
    BY <1>7, <1>8 DEF Took
  <2>2. s.found \in Seq(Seq(STRING)) /\ s.start \in Nat
    BY <1>2 DEF Scans
  <2>4. r.status = "more" /\ r.start = s.start + Len(w)
        /\ r.found = IF m = <<>> THEN s.found ELSE Append(s.found, m)
    BY <2>1 DEF Scanned
  <2>5. r \in Scans
    BY <1>2, ScanPassType DEF r, Window
  <2>6. r.start > s.start /\ EndOf(ms, i + 1) <= t /\ r.start = EndOf(ms, i + 1) - c + 1
        /\ i + 1 \in j..Len(ms)
    <3>. DEFINE l == Len(w)
                first == s.start
                e == EndOf(ms, i + 1)
    <3>1. /\ l \in Nat \ {0} /\ first \in Nat /\ r.start = first + l /\ first = b - c + 1
          /\ d + l <= Len(buf) /\ e = b + l
      BY <1>2, <1>5, <1>8, <2>2, <2>4
    <3>. HIDE DEF l, first, b, c, e
    <3>2. r.start > first /\ e <= t /\ r.start = e - c + 1 /\ i + 1 \in j..Len(ms)
      BY <1>1, <1>2, <1>3, <1>5, <3>1
    <3>. QED BY <3>2, Zenon DEF first, c, e
  <2>7. NonEmptyUpTo(ms, i + 1) = NonEmptyUpTo(ms, j) \o r.found
    <3>. DEFINE k == NonEmptyUpTo(ms, j)
    <3>1. k \in Seq(Seq(STRING))
      BY <1>1, KeptSteps
    <3>2. (i + 1) - 1 = i
      BY <1>3
    <3>3. NonEmptyUpTo(ms, i + 1) = IF m = <<>> THEN NonEmptyUpTo(ms, i)
                                    ELSE Append(NonEmptyUpTo(ms, i), m)
      BY <1>1, <1>5, <3>2, KeptSteps, Zenon
    <3>4. Append(k \o s.found, m) = k \o Append(s.found, m)
      <4>. DEFINE f == s.found
                  S == Seq(STRING)
      <4>1. m \in S /\ f \in Seq(S) /\ k \in Seq(S)
        BY <1>5, <2>2, <3>1
      <4>. HIDE DEF k, m, f, S
      <4>2. AppendsToSecond(k, f, m)
        BY <4>1, AppendToConcat, Zenon
      <4>. QED BY <4>2 DEF AppendsToSecond, f
    <3>. QED BY <1>2, <2>4, <3>3, <3>4, Zenon
  <2>8. AtMessage(ms, j, t, r, i + 1)
    BY <2>5, <2>6, <2>7 DEF AtMessage
  <2>. QED BY <2>4, <2>6, <2>8 DEF r
<1>9. CASE ~(d + Len(w) <= Len(buf))
  <2>1. r \in Stopped(s)
    BY <1>7, <1>9
  <2>2. r \in Scans /\ r.status # "more" /\ r.start = s.start /\ r.found = s.found
    BY <1>2, <2>1 DEF Stopped, Scans
  <2>3. NoMoreThan(ms, t, i)
    BY <1>1, <1>3, <1>5, <1>9 DEF NoMoreThan
  <2>4. AtMessage(ms, j, t, r, i)
    BY <1>2, <2>2 DEF AtMessage
  <2>. QED BY <2>2, <2>3, <2>4 DEF r
<1>. QED BY <1>8, <1>9

\* The scan ends before the first message that the buffer does not hold
\* whole, and has found all the others that are not empty.
LEMMA ScanIs ==
    ASSUME NEW ms, NEW j, NEW t, NEW buf, Window(ms, j, t, buf)
    PROVE  \E i \in j..Len(ms) : AtMessage(ms, j, t, Scan(buf), i) /\ NoMoreThan(ms, t, i)
<1>. DEFINE pass == Scanning(buf)
            x == Scanned("more", 1, <<>>)
            After(n) == Repeat(pass, x, n)
            Fine(s, n) ==
                \E i \in j..Len(ms) :
                    /\ AtMessage(ms, j, t, s, i)
                    /\ s.status # "more" => NoMoreThan(ms, t, i)
                    /\ s.status = "more" => s.start > n \/ s.start > Len(buf)
            T == {n \in Nat : Fine(After(n), n)}
<1>1. /\ Conversation(ms) /\ Len(ms) \in Nat /\ j \in 0..Len(ms) /\ t \in Nat
      /\ buf \in Seq(STRING) /\ Len(buf) \in Nat /\ Len(buf) = t - EndOf(ms, j)
      /\ EndOf(ms, j) <= t
    BY DEF Window, Conversation
<1>2. EndOf(ms, j) \in Nat /\ NonEmptyUpTo(ms, j) \in Seq(Seq(STRING))
    BY <1>1, EndSteps, KeptSteps
<1>3. x \in Scans /\ x.start = 1 /\ x.found = <<>> /\ x.status = "more"
    BY DEF Scanned, Scans
<1>4. ASSUME NEW s \in Scans PROVE ScanPass(buf, s) \in Scans
    BY <1>1, ScanPassType
<1>5. PassOn(Scans, pass)
    BY <1>4 DEF PassOn, Scanning
<1>6. \A s \in Scans : pass[s] = IF s.status = "more" THEN ScanPass(buf, s) ELSE s
    BY DEF Scanning
<1>7. Scan(buf) = After(Len(buf))
    BY DEF Scan
<1>. HIDE DEF pass, x
<1>8. Repeated(Scans, pass, x)
    BY <1>3, <1>5, RepeatSteps, Zenon
<1>9. /\ After(0) = x
      /\ \A n \in Nat : After(n) \in Scans
      /\ \A n \in Nat : After(n + 1) = pass[After(n)]
    BY <1>8 DEF Repeated
<1>. HIDE DEF After
<1>10. 0 \in T
  <2>1. NonEmptyUpTo(ms, j) = NonEmptyUpTo(ms, j) \o <<>>
    BY <1>2, ConcatEmptySeq
  <2>2. AtMessage(ms, j, t, x, j)
    BY <1>1, <1>2, <1>3, <2>1 DEF AtMessage
  <2>3. j \in j..Len(ms) /\ 1 > 0
    BY <1>1
  <2>4. Fine(x, 0)
    BY <1>3, <2>2, <2>3
  <2>. QED BY <1>9, <2>4
<1>11. ASSUME NEW n \in T PROVE n + 1 \in T
  <2>. DEFINE s == After(n)
              r == After(n + 1)
  <2>1. n \in Nat /\ n + 1 \in Nat /\ s \in Scans /\ r = pass[s] /\ Fine(s, n)
    BY <1>9
  <2>2. PICK i \in j..Len(ms) :
              /\ AtMessage(ms, j, t, s, i)
              /\ s.status # "more" => NoMoreThan(ms, t, i)
              /\ s.status = "more" => s.start > n \/ s.start > Len(buf)
    BY <2>1
  <2>. HIDE DEF s, r
  <2>3. CASE s.status # "more"
    <3>1. r = s
      BY <1>6, <2>1, <2>3
    <3>2. Fine(r, n + 1)
      BY <2>2, <2>3, <3>1
    <3>. QED BY <2>1, <3>2 DEF r
  <2>4. CASE s.status = "more" /\ s.start > Len(buf)
    <3>1. ScanPass(buf, s) = s
      BY <2>4 DEF ScanPass
    <3>2. r = s
      BY <1>6, <2>1, <2>4, <3>1
    <3>3. Fine(r, n + 1)
      BY <2>2, <2>4, <3>2
    <3>. QED BY <2>1, <3>3 DEF r
  <2>5. CASE s.status = "more" /\ ~(s.start > Len(buf))
    <3>. DEFINE first == s.start
                next == r.start
    <3>1. first \in Nat /\ first > n /\ first <= Len(buf)
      BY <1>1, <2>1, <2>2, <2>5 DEF Scans
    <3>2. r = ScanPass(buf, s)
      BY <1>6, <2>1, <2>5
    <3>3. \/ AtMessage(ms, j, t, r, i + 1) /\ r.status = "more" /\ next > first
          \/ AtMessage(ms, j, t, r, i) /\ r.status # "more" /\ NoMoreThan(ms, t, i)
      BY <2>2, <2>5, <3>1, <3>2, PassAtMessage
    <3>4. CASE AtMessage(ms, j, t, r, i + 1) /\ r.status = "more" /\ next > first
      <4>1. i + 1 \in j..Len(ms) /\ next \in Nat
        BY <3>4 DEF AtMessage, Scans
      <4>. HIDE DEF first, next
      <4>2. next > n + 1
        BY <2>1, <3>1, <3>4, <4>1
      <4>3. Fine(r, n + 1)
        BY <3>4, <4>1, <4>2 DEF next
      <4>. QED BY <2>1, <4>3 DEF r
    <3>5. CASE AtMessage(ms, j, t, r, i) /\ r.status # "more" /\ NoMoreThan(ms, t, i)
      <4>1. Fine(r, n + 1)
        BY <2>2, <3>5
      <4>. QED BY <2>1, <4>1 DEF r
    <3>. QED BY <3>3, <3>4, <3>5
  <2>. QED BY <2>3, <2>4, <2>5
<1>12. Len(buf) \in T
  <2>1. T \in SUBSET Nat
    OBVIOUS
  <2>. HIDE DEF T
  <2>. QED BY <1>1, <1>10, <1>11, <2>1, SetInduction, Zenon
<1>13. PICK i \in j..Len(ms) :
              /\ AtMessage(ms, j, t, Scan(buf), i)
              /\ Scan(buf).status # "more" => NoMoreThan(ms, t, i)
              /\ Scan(buf).status = "more" => Scan(buf).start > Len(buf)
    BY <1>7, <1>12
<1>14. ASSUME Scan(buf).start > Len(buf) PROVE NoMoreThan(ms, t, i)
  <2>1. SUFFICES ASSUME i < Len(ms) PROVE t < EndOf(ms, i + 1)
    BY DEF NoMoreThan
  <2>2. i \in 0..Len(ms) /\ i + 1 \in 1..Len(ms) /\ i + 1 \in 0..Len(ms) /\ (i + 1) - 1 = i
    BY <1>1, <2>1
  <2>3. /\ EndOf(ms, i) \in Nat /\ EndOf(ms, i + 1) \in Nat
        /\ EndOf(ms, (i + 1) - 1) < EndOf(ms, i + 1)
    BY <1>1, <2>2, EndSteps
  <2>4. Scan(buf).start = EndOf(ms, i) - EndOf(ms, j) + 1 /\ EndOf(ms, i) <= t
    BY <1>13 DEF AtMessage
  <2>. QED BY <1>1, <1>2, <1>14, <2>2, <2>3, <2>4
<1>. QED BY <1>13, <1>14

-----------------------------------------------------------------------------
\* The reader.

Outcomes == {"awaiting", "success", "failure", "closed", "undefined"}

\* The buffer holds the stream from the end of message j on, as far as it
\* was read, and the requests run are the messages before.
Held(j) ==
    /\ Window(sent, j, taken, readBuffer) /\ requests = NonEmptyUpTo(sent, j)
    /\ outcome \in {"awaiting", "success"} => NoMoreThan(sent, taken, j)

(* The inductive invariant: an open connection's buffer begins with a      *)
(* message, nothing waits to be erased, and a read that did not fail has   *)
(* left no whole message behind.  (Separators that a read found alone are  *)
(* counted in bytesToErase and stay in the buffer; from then on this ends.)*)
ReaderInv ==
    /\ Conversation(sent) /\ outcome \in Outcomes
    /\ arrived \in Nat /\ taken \in Nat /\ taken <= arrived /\ arrived <= Len(Stream)
    /\ ~skipped /\ outcome # "closed" =>
          /\ outcome # "undefined" /\ bytesToErase = 0
          /\ \E j \in 0..Len(sent) : Held(j)

LEMMA ReaderInit == Init => ReaderInv
<1>. SUFFICES ASSUME Init PROVE ReaderInv
    OBVIOUS
<1>1. PICK n \in 1..MaxMessages : sent \in [1..n -> Messages]
    BY DEF Init
<1>2. n \in Nat
    BY BoundsAssumption
<1>3. \A m \in Messages : m \in Seq(STRING) /\ (IsCustom(m) \/ IsRequest(m))
    BY MessagesAssumption
<1>4. sent \in Seq(Messages) /\ Len(sent) = n /\ \A i \in 1..n : sent[i] \in Messages
    BY <1>1, <1>2
<1>5. Conversation(sent)
  <2>1. sent \in Seq(Seq(STRING))
    BY <1>3, <1>4, SeqMonotonic
  <2>. QED BY <1>3, <1>4, <2>1 DEF Conversation
<1>6. arrived = 0 /\ taken = 0 /\ readBuffer = <<>> /\ bytesToErase = 0 /\ requests = <<>>
      /\ outcome = "awaiting"
    BY DEF Init
<1>7. /\ EndOf(sent, 0) = 0 /\ EndOf(sent, Len(sent)) \in Nat /\ NonEmptyUpTo(sent, 0) = <<>>
      /\ 0 \in 0..Len(sent)
  <2>1. 0 \in 0..Len(sent) /\ Len(sent) \in 0..Len(sent)
    BY <1>2, <1>4
  <2>. QED BY <1>5, <2>1, EndSteps, KeptSteps
<1>8. Window(sent, 0, taken, readBuffer)
    BY <1>5, <1>6, <1>7 DEF Window
<1>9. NoMoreThan(sent, taken, 0)
  <2>1. SUFFICES ASSUME 0 < Len(sent) PROVE 0 < EndOf(sent, 0 + 1)
    BY <1>6 DEF NoMoreThan
  <2>2. 1 \in 1..Len(sent) /\ 0 + 1 = 1 /\ 1 - 1 = 0
    BY <1>2, <1>4, <2>1
  <2>. QED BY <1>5, <1>7, <2>2, EndSteps
<1>10. Held(0)
    BY <1>6, <1>7, <1>8, <1>9 DEF Held
<1>11. Len(Stream) = EndOf(sent, Len(sent))
    BY DEF Stream, EndOf
<1>. QED BY <1>5, <1>6, <1>7, <1>10, <1>11 DEF ReaderInv, Outcomes

\* Reading n more bytes moves the end of the window.
LEMMA GrownWindow ==
    ASSUME NEW j, Window(sent, j, taken, readBuffer), NEW n \in Nat,
           taken + n <= Len(Stream)
    PROVE  Window(sent, j, taken + n, Grown(n))
<1>. DEFINE all == Stream
            piece == SubSeq(all, taken + 1, taken + n)
            buf == readBuffer \o piece
            c == EndOf(sent, j)
            old == Len(readBuffer)
<1>1. /\ Conversation(sent) /\ j \in 0..Len(sent) /\ taken \in Nat
      /\ c <= taken /\ readBuffer \in Seq(STRING) /\ old = taken - c
      /\ \A p \in 1..old : readBuffer[p] = all[c + p]
    BY DEF Window, Stream
<1>2. all \in Seq(STRING) /\ EndOf(sent, Len(sent)) = Len(all) /\ Len(all) \in Nat
  <2>1. Len(sent) \in 0..Len(sent)
    BY <1>1 DEF Conversation
  <2>. QED BY <1>1, <2>1, WireSteps DEF Stream, EndOf
<1>3. c \in Nat
    BY <1>1, EndSteps
<1>4. Grown(n) = buf
    BY DEF Grown
<1>. HIDE DEF all, c
<1>5. /\ piece \in Seq(STRING) /\ Len(piece) = n
      /\ \A i \in 1..n : piece[i] = all[taken + i]
  <2>1. \A i \in (taken + 1)..(taken + n) : all[i] \in STRING
    <3>1. \A i \in (taken + 1)..(taken + n) : i \in 1..Len(all)
      BY <1>1, <1>2 DEF all
    <3>. QED BY <1>2, <3>1, ElementOfSeq
  <2>2. taken + 1 \in Int /\ taken + n \in Int
    BY <1>1
  <2>3. /\ piece \in Seq(STRING)
        /\ Len(piece) = IF taken + 1 <= taken + n THEN (taken + n) - (taken + 1) + 1 ELSE 0
        /\ \A i \in 1..((taken + n) - (taken + 1) + 1) : piece[i] = all[(taken + 1) + i - 1]
    BY <2>1, <2>2, SubSeqProperties
  <2>. HIDE DEF piece
  <2>4. (taken + n) - (taken + 1) + 1 = n /\ (n # 0 => taken + 1 <= taken + n)
        /\ \A i \in 1..n : (taken + 1) + i - 1 = taken + i
    BY <1>1
  <2>. QED BY <1>1, <2>3, <2>4, Zenon
<1>. HIDE DEF piece
<1>6. /\ buf \in Seq(STRING) /\ Len(buf) = old + n
      /\ \A i \in 1..(old + n) : buf[i] = IF i <= old THEN readBuffer[i] ELSE piece[i - old]
    BY <1>1, <1>5, ConcatProperties, Zenon
<1>. HIDE DEF buf
<1>7. old \in Nat
    BY <1>1
<1>. HIDE DEF old
<1>8. ASSUME NEW p \in 1..(old + n) PROVE buf[p] = all[c + p]
  <2>1. CASE p <= old
    BY <1>1, <1>6, <1>7, <2>1
  <2>2. CASE ~(p <= old)
    <3>1. p - old \in 1..n /\ taken + (p - old) = c + p
      BY <1>1, <1>3, <1>7, <2>2
    <3>. QED BY <1>5, <1>6, <2>2, <3>1
  <2>. QED BY <2>1, <2>2
<1>9. Len(buf) = (taken + n) - c /\ c <= taken + n /\ taken + n \in Nat
    BY <1>1, <1>3, <1>6, <1>7
<1>. QED BY <1>1, <1>2, <1>4, <1>6, <1>8, <1>9 DEF Window, Stream, all, c

\* Erasing what a scan has taken moves its beginning.
LEMMA ErasedWindow ==
    ASSUME NEW ms, NEW j, NEW t, NEW buf, Window(ms, j, t, buf),
           NEW s, NEW i, AtMessage(ms, j, t, s, i)
    PROVE  /\ s.start - 1 \in 0..Len(buf)
           /\ Window(ms, i, t, SubSeq(buf, (s.start - 1) + 1, Len(buf)))
<1>. DEFINE b == EndOf(ms, i)
            c == EndOf(ms, j)
            d == b - c
            all == WireUpTo(ms, Len(ms))
            rest == SubSeq(buf, d + 1, Len(buf))
<1>1. /\ Conversation(ms) /\ Len(ms) \in Nat /\ j \in 0..Len(ms) /\ t \in Nat
      /\ buf \in Seq(STRING) /\ Len(buf) \in Nat /\ Len(buf) = t - c
      /\ t <= EndOf(ms, Len(ms)) /\ \A p \in 1..Len(buf) : buf[p] = all[c + p]
    BY DEF Window, Conversation
<1>2. i \in j..Len(ms) /\ b <= t /\ s.start = b - c + 1
    BY DEF AtMessage
<1>3. i \in 0..Len(ms) /\ b \in Nat /\ c \in Nat /\ c <= b
  <2>1. i \in 0..Len(ms)
    BY <1>1, <1>2
  <2>. QED BY <1>1, <1>2, <2>1, EndSteps, WirePrefix
<1>. HIDE DEF b, c, all
<1>4. d \in 0..Len(buf) /\ s.start - 1 = d
    BY <1>1, <1>2, <1>3
<1>. HIDE DEF d
<1>5. /\ rest \in Seq(STRING) /\ Len(rest) = Len(buf) - d
      /\ \A p \in 1..(Len(buf) - d) : rest[p] = buf[d + p]
  <2>1. \A p \in (d + 1)..Len(buf) : buf[p] \in STRING
    <3>1. \A p \in (d + 1)..Len(buf) : p \in 1..Len(buf)
      BY <1>1, <1>4
    <3>. QED BY <1>1, <3>1, ElementOfSeq
  <2>2. d + 1 \in Int /\ Len(buf) \in Int
    BY <1>1, <1>4
  <2>3. /\ rest \in Seq(STRING)
        /\ Len(rest) = IF d + 1 <= Len(buf) THEN Len(buf) - (d + 1) + 1 ELSE 0
        /\ \A p \in 1..(Len(buf) - (d + 1) + 1) : rest[p] = buf[(d + 1) + p - 1]
    BY <2>1, <2>2, SubSeqProperties
  <2>. HIDE DEF rest
  <2>4. Len(buf) - (d + 1) + 1 = Len(buf) - d /\ (~(d + 1 <= Len(buf)) => Len(buf) - d = 0)
        /\ \A p \in 1..(Len(buf) - d) : (d + 1) + p - 1 = d + p
    BY <1>1, <1>4
  <2>. QED BY <2>3, <2>4
<1>. HIDE DEF rest
<1>6. Len(rest) = t - b
    BY <1>1, <1>3, <1>4, <1>5 DEF d
<1>7. ASSUME NEW p \in 1..Len(rest) PROVE rest[p] = all[b + p]
  <2>1. p \in 1..(Len(buf) - d) /\ d + p \in 1..Len(buf) /\ c + (d + p) = b + p
    BY <1>1, <1>3, <1>4, <1>5 DEF d
  <2>. QED BY <1>1, <1>5, <2>1
<1>8. Window(ms, i, t, rest)
    BY <1>1, <1>2, <1>3, <1>5, <1>6, <1>7, Zenon DEF Window, b, all
<1>. QED BY <1>4, <1>8 DEF rest

\* A read takes no more than has arrived.
LEMMA ReadableFacts ==
    ASSUME ReaderInv
    PROVE  Readable \in Nat /\ taken + Readable <= arrived /\ arrived <= Len(Stream)
           /\ Len(Stream) \in Nat
<1>1. arrived \in Nat /\ taken \in Nat /\ taken <= arrived /\ arrived <= Len(Stream)
    BY DEF ReaderInv
<1>2. Len(Stream) \in Nat
  <2>1. Conversation(sent) /\ Len(sent) \in 0..Len(sent)
    BY DEF ReaderInv, Conversation
  <2>. QED BY <2>1, EndSteps DEF EndOf, Stream
<1>. HIDE DEF Stream
<1>. QED BY <1>1, <1>2, BoundsAssumption DEF Readable

LEMMA ReaderStep == ReaderInv /\ [Next]_vars => ReaderInv'
<1>. SUFFICES ASSUME ReaderInv, [Next]_vars PROVE ReaderInv'
    OBVIOUS
<1>1. /\ Conversation(sent) /\ outcome \in Outcomes
      /\ arrived \in Nat /\ taken \in Nat /\ taken <= arrived /\ arrived <= Len(Stream)
    BY DEF ReaderInv
<1>2. ~skipped /\ outcome # "closed" =>
          /\ outcome # "undefined" /\ bytesToErase = 0
          /\ \E j \in 0..Len(sent) : Held(j)
    BY DEF ReaderInv
<1>3. Readable \in Nat /\ taken + Readable <= arrived /\ Len(Stream) \in Nat
    BY ReadableFacts
<1>4. ASSUME sent' = sent PROVE Stream' = Stream
    BY <1>4 DEF Stream
<1>5. CASE Arrive
  <2>1. sent' = sent /\ taken' = taken /\ readBuffer' = readBuffer /\ requests' = requests
        /\ outcome' = outcome /\ skipped' = skipped /\ bytesToErase' = bytesToErase
    BY <1>5 DEF Arrive
  <2>2. arrived' \in Nat /\ taken <= arrived' /\ arrived' <= Len(Stream)
    <3>1. PICK n \in (arrived + 1)..Len(Stream) : arrived' = n
      BY <1>5 DEF Arrive
    <3>. HIDE DEF Stream
    <3>. QED BY <1>1, <1>3, <3>1
  <2>3. ASSUME NEW j \in 0..Len(sent), Held(j) PROVE Held(j)'
    BY <2>1, <2>3 DEF Held
  <2>4. Stream' = Stream
    BY <1>4, <2>1
  <2>. HIDE DEF Held, Stream
  <2>. QED BY <1>1, <1>2, <2>1, <2>2, <2>3, <2>4 DEF ReaderInv
<1>6. CASE ReadRequest
  <2>. DEFINE n == Readable
              buf == Grown(n)
              s == Scan(buf)
  <2>1. /\ outcome \notin Final /\ taken' = taken + n /\ sent' = sent /\ arrived' = arrived
        /\ skipped' = (skipped \/ (s.found = <<>> /\ s.start > 1))
        /\ \/ s.status = "error" /\ Leave("closed")
           \/ s.status # "error" /\ s.found # <<>> /\ Process(buf, s)
           \/ /\ s.status # "error" /\ s.found = <<>>
              /\ outcome' = "awaiting" /\ readBuffer' = buf
              /\ bytesToErase' = bytesToErase + s.start - 1 /\ requests' = requests
    BY <1>6 DEF ReadRequest
  <2>. HIDE DEF n, buf, s
  <2>2. Stream' = Stream /\ taken' \in Nat /\ taken' <= arrived'
    BY <1>1, <1>3, <1>4, <2>1 DEF n
  <2>3. outcome' \in Outcomes
    BY <2>1 DEF Leave, Process, Outcomes
  <2>4. ASSUME ~skipped', outcome' # "closed"
        PROVE  outcome' # "undefined" /\ bytesToErase' = 0 /\ \E i \in 0..Len(sent') : Held(i)'
    <3>1. ~skipped /\ outcome # "closed" /\ ~(s.found = <<>> /\ s.start > 1)
      BY <2>1, <2>4, Zenon DEF Final
    <3>2. PICK j \in 0..Len(sent) : Held(j)
      BY <1>2, <3>1
    <3>3. bytesToErase = 0
      BY <1>2, <3>1
    <3>4. Window(sent, j, taken, readBuffer) /\ requests = NonEmptyUpTo(sent, j)
      BY <3>2 DEF Held
    <3>5. taken + n <= Len(Stream) /\ n \in Nat
      BY <1>1, <1>3 DEF n
    <3>6. Window(sent, j, taken + n, buf)
      BY <3>4, <3>5, GrownWindow DEF buf
    <3>7. PICK i \in j..Len(sent) : /\ AtMessage(sent, j, taken + n, s, i)
                                    /\ NoMoreThan(sent, taken + n, i)
      BY <3>6, ScanIs DEF s
    <3>. DEFINE rest == SubSeq(buf, (s.start - 1) + 1, Len(buf))
    <3>8. s.start - 1 \in 0..Len(buf) /\ Window(sent, i, taken + n, rest)
      BY <3>6, <3>7, ErasedWindow
    <3>9. s.start \in Nat \ {0} /\ NonEmptyUpTo(sent, i) = requests \o s.found
      BY <3>4, <3>7 DEF AtMessage, Scans
    <3>10. i \in 0..Len(sent) /\ Len(sent) \in Nat
      BY <1>1 DEF Conversation
    <3>11. CASE s.found # <<>>
      <4>1. Process(buf, s)
        BY <2>1, <2>4, <3>11 DEF Leave
      <4>2. bytesToErase + s.start - 1 = s.start - 1 /\ ~(s.start - 1 > Len(buf))
        BY <3>3, <3>8, <3>9
      <4>3. outcome' = "success" /\ bytesToErase' = 0 /\ readBuffer' = rest
            /\ requests' = requests \o s.found
        BY <4>1, <4>2 DEF Process
      <4>. HIDE DEF rest
      <4>4. Held(i)'
        BY <2>1, <3>7, <3>8, <3>9, <4>3 DEF Held
      <4>. QED BY <2>1, <3>10, <4>3, <4>4
    <3>12. CASE s.found = <<>>
      <4>1. s.start = 1
        BY <3>1, <3>9, <3>12
      <4>2. outcome' = "awaiting" /\ readBuffer' = buf /\ requests' = requests
            /\ bytesToErase' = 0
        BY <2>1, <2>4, <3>3, <3>12, <4>1 DEF Leave
      <4>3. buf = rest
        <5>1. buf \in Seq(STRING) /\ (s.start - 1) + 1 = 1
          BY <3>6, <4>1 DEF Window
        <5>. QED BY <5>1, SubSeqFull
      <4>4. requests \o s.found = requests
        <5>1. requests \in Seq(Seq(STRING))
          BY <1>1, <3>4, KeptSteps
        <5>. QED BY <3>12, <5>1, ConcatEmptySeq
      <4>. HIDE DEF rest
      <4>5. Held(i)'
        BY <2>1, <3>7, <3>8, <3>9, <4>2, <4>3, <4>4 DEF Held
      <4>. QED BY <2>1, <3>10, <4>2, <4>5
    <3>. QED BY <3>11, <3>12
  <2>. HIDE DEF Held, Stream
  <2>. QED BY <1>1, <2>1, <2>2, <2>3, <2>4 DEF ReaderInv
<1>7. CASE ReadFails
  <2>1. PICK n \in 0..Readable : taken' = taken + n /\ readBuffer' = Grown(n)
    BY <1>7 DEF ReadFails
  <2>2. /\ outcome \notin Final /\ outcome' = "failure" /\ sent' = sent /\ arrived' = arrived
        /\ bytesToErase' = bytesToErase /\ requests' = requests /\ skipped' = skipped
    BY <1>7 DEF ReadFails
  <2>3. n \in Nat /\ taken + n <= arrived /\ taken + n <= Len(Stream)
    BY <1>1, <1>3
  <2>4. Stream' = Stream
    BY <1>4, <2>2
  <2>5. ASSUME NEW j \in 0..Len(sent), Held(j) PROVE Held(j)'
    <3>1. Window(sent, j, taken + n, Grown(n))
      BY <2>3, <2>5, GrownWindow DEF Held
    <3>2. requests = NonEmptyUpTo(sent, j)
      BY <2>5 DEF Held
    <3>. QED BY <2>1, <2>2, <3>1, <3>2 DEF Held
  <2>6. outcome # "closed" /\ outcome' # "closed" /\ outcome' # "undefined"
        /\ outcome' \in Outcomes
    BY <2>2 DEF Final, Outcomes
  <2>7. taken' \in Nat /\ taken' <= arrived'
    BY <1>1, <2>1, <2>2, <2>3
  <2>. HIDE DEF Held, Stream
  <2>. QED BY <1>1, <1>2, <2>2, <2>4, <2>5, <2>6, <2>7 DEF ReaderInv
<1>8. CASE PeerCloses
  <2>1. /\ outcome' = "closed" /\ sent' = sent /\ arrived' = arrived /\ taken' = arrived
    BY <1>8 DEF PeerCloses, Leave
  <2>2. Stream' = Stream
    BY <1>4, <2>1
  <2>. HIDE DEF Stream
  <2>. QED BY <1>1, <2>1, <2>2 DEF ReaderInv, Outcomes
<1>9. CASE UNCHANGED vars
  <2>1. sent' = sent /\ arrived' = arrived /\ taken' = taken /\ readBuffer' = readBuffer
        /\ bytesToErase' = bytesToErase /\ requests' = requests /\ outcome' = outcome
        /\ skipped' = skipped
    BY <1>9 DEF vars
  <2>2. Stream' = Stream
    BY <1>4, <2>1
  <2>3. ASSUME NEW j \in 0..Len(sent), Held(j) PROVE Held(j)'
    BY <2>1, <2>3 DEF Held
  <2>. HIDE DEF Held, Stream
  <2>. QED BY <1>1, <1>2, <2>1, <2>2, <2>3 DEF ReaderInv
<1>. QED BY <1>5, <1>6, <1>7, <1>8, <1>9 DEF Next

(* Whatever messages a client sends, in pieces of whatever size, a read    *)
(* that did not fail leaves a buffer that begins with the first message    *)
(* not read whole, and has run all the messages before it.                 *)
THEOREM ReaderInvariant == Spec => []ReaderInv
BY ReaderInit, ReaderStep, PTL DEF Spec

-----------------------------------------------------------------------------
\* No more and no fewer than i messages lie within the first t bytes.
LEMMA MessagesWithin ==
    ASSUME NEW ms, Conversation(ms), NEW t \in Nat,
           NEW i \in 0..Len(ms), EndOf(ms, i) <= t, NoMoreThan(ms, t, i),
           NEW k \in 0..Len(ms), EndOf(ms, k) <= t, NoMoreThan(ms, t, k)
    PROVE  i = k
<1>1. Len(ms) \in Nat
    BY DEF Conversation
<1>2. ASSUME NEW x \in 0..Len(ms), NoMoreThan(ms, t, x),
             NEW y \in 0..Len(ms), EndOf(ms, y) <= t, x < y
      PROVE  FALSE
  <2>1. x + 1 \in 0..Len(ms) /\ y \in (x + 1)..Len(ms) /\ x < Len(ms)
    BY <1>1, <1>2
  <2>2. EndOf(ms, x + 1) <= EndOf(ms, y)
    BY <2>1, WirePrefix
  <2>3. EndOf(ms, x + 1) \in Nat /\ EndOf(ms, y) \in Nat
    BY <2>1, EndSteps
  <2>4. t < EndOf(ms, x + 1)
    BY <1>2, <2>1 DEF NoMoreThan
  <2>. QED BY <1>2, <2>2, <2>3, <2>4
<1>3. ~(i < k) /\ ~(k < i)
    BY <1>2
<1>. QED BY <1>1, <1>3

LEMMA ReaderInvPieces == ReaderInv => PiecesAreInvisible
<1>. DEFINE read == SubSeq(Stream, 1, taken)
            s == Scan(readBuffer)
            z == Scan(read)
<1>. SUFFICES ASSUME ReaderInv, ~skipped, outcome # "closed"
              PROVE  /\ outcome # "undefined"
                     /\ requests \o s.found = z.found
                     /\ Rest(readBuffer) = Rest(read)
    BY DEF PiecesAreInvisible
<1>1. /\ Conversation(sent) /\ taken \in Nat /\ taken <= Len(Stream) /\ Len(Stream) \in Nat
      /\ outcome # "undefined" /\ Len(sent) \in Nat
  <2>1. arrived \in Nat /\ taken \in Nat /\ taken <= arrived /\ arrived <= Len(Stream)
    BY DEF ReaderInv
  <2>2. Len(Stream) \in Nat
    BY ReadableFacts
  <2>3. taken <= Len(Stream)
    <3>. HIDE DEF Stream
    <3>. QED BY <2>1, <2>2
  <2>. QED BY <2>1, <2>2, <2>3 DEF ReaderInv, Conversation
<1>2. PICK j \in 0..Len(sent) : Held(j)
    BY DEF ReaderInv
<1>3. Window(sent, j, taken, readBuffer) /\ requests = NonEmptyUpTo(sent, j)
    BY <1>2 DEF Held
<1>4. Stream \in Seq(STRING) /\ Stream = WireUpTo(sent, Len(sent))
      /\ EndOf(sent, Len(sent)) = Len(Stream) /\ EndOf(sent, 0) = 0 /\ 0 \in 0..Len(sent)
  <2>1. Len(sent) \in 0..Len(sent) /\ 0 \in 0..Len(sent)
    BY <1>1
  <2>. QED BY <1>1, <2>1, WireSteps, EndSteps DEF Stream, EndOf
<1>5. Window(sent, 0, taken, read)
  <2>. DEFINE all == Stream
  <2>1. all \in Seq(STRING) /\ taken \in 0..Len(all)
    BY <1>1, <1>4
  <2>. HIDE DEF all
  <2>2. \A i \in 1..taken : all[i] \in STRING
    <3>1. \A i \in 1..taken : i \in 1..Len(all)
      BY <1>1, <2>1
    <3>. QED BY <2>1, <3>1, ElementOfSeq
  <2>3. LET r == SubSeq(all, 1, taken)
        IN  /\ r \in Seq(STRING) /\ Len(r) = IF 1 <= taken THEN taken - 1 + 1 ELSE 0
            /\ \A i \in 1..(taken - 1 + 1) : r[i] = all[1 + i - 1]
    <3>1. 1 \in Int /\ taken \in Int
      BY <1>1
    <3>. QED BY <2>2, <3>1, SubSeqProperties
  <2>4. read = SubSeq(all, 1, taken)
    BY DEF all
  <2>. HIDE DEF read
  <2>5. taken - 1 + 1 = taken /\ (~(1 <= taken) => taken = 0)
        /\ \A i \in 1..taken : 1 + i - 1 = i /\ 0 + i = i
    BY <1>1
  <2>6. read \in Seq(STRING) /\ Len(read) = taken /\ \A i \in 1..taken : read[i] = all[0 + i]
    BY <2>3, <2>4, <2>5
  <2>7. taken = taken - 0 /\ 0 <= taken
    BY <1>1
  <2>. QED BY <1>1, <1>4, <2>6, <2>7 DEF Window, all
<1>. HIDE DEF s, z, read
<1>6. PICK i \in j..Len(sent) : AtMessage(sent, j, taken, s, i) /\ NoMoreThan(sent, taken, i)
    BY <1>3, ScanIs DEF s
<1>7. PICK k \in 0..Len(sent) : AtMessage(sent, 0, taken, z, k) /\ NoMoreThan(sent, taken, k)
    BY <1>5, ScanIs DEF z
<1>8. i = k
  <2>1. i \in 0..Len(sent) /\ EndOf(sent, i) <= taken /\ EndOf(sent, k) <= taken
    BY <1>1, <1>6, <1>7 DEF AtMessage
  <2>. QED BY <1>1, <1>6, <1>7, <2>1, MessagesWithin
<1>9. requests \o s.found = z.found
  <2>1. NonEmptyUpTo(sent, i) = requests \o s.found
    BY <1>3, <1>6 DEF AtMessage
  <2>2. NonEmptyUpTo(sent, k) = <<>> \o z.found /\ z.found \in Seq(Seq(STRING))
    BY <1>1, <1>7, KeptSteps, Zenon DEF AtMessage, Scans
  <2>3. <<>> \o z.found = z.found
    BY <2>2, ConcatEmptySeq
  <2>. QED BY <1>8, <2>1, <2>2, <2>3, SMTT(30)
<1>10. Rest(readBuffer) = Rest(read)
  <2>. DEFINE u == SubSeq(readBuffer, (s.start - 1) + 1, Len(readBuffer))
              v == SubSeq(read, (z.start - 1) + 1, Len(read))
  <2>1. Window(sent, i, taken, u) /\ Window(sent, i, taken, v)
    BY <1>3, <1>5, <1>6, <1>7, <1>8, ErasedWindow
  <2>2. (s.start - 1) + 1 = s.start /\ (z.start - 1) + 1 = z.start
    BY <1>6, <1>7 DEF AtMessage, Scans
  <2>3. Rest(readBuffer) = u /\ Rest(read) = v
    BY <2>2, Zenon DEF Rest, s, z
  <2>. HIDE DEF u, v
  <2>4. u \in Seq(STRING) /\ v \in Seq(STRING) /\ Len(u) = Len(v)
        /\ \A p \in 1..Len(u) : u[p] = v[p]
    BY <2>1 DEF Window
  <2>5. u = v
    BY <2>4, SeqEqual
  <2>. QED BY <2>3, <2>5
<1>. QED BY <1>1, <1>9, <1>10

LEMMA ReaderInvNothingLeft == ReaderInv => NothingLeftBehind
<1>. SUFFICES ASSUME ReaderInv, ~skipped, taken = Len(Stream),
                     outcome \notin Final \union {"failure"}
              PROVE  requests = NonEmptyUpTo(sent, Len(sent))
    BY DEF NothingLeftBehind
<1>1. outcome \in {"awaiting", "success"}
    BY DEF ReaderInv, Outcomes, Final
<1>2. PICK j \in 0..Len(sent) : Held(j)
    BY DEF ReaderInv, Final
<1>3. /\ Window(sent, j, taken, readBuffer) /\ requests = NonEmptyUpTo(sent, j)
      /\ NoMoreThan(sent, taken, j)
    BY <1>1, <1>2 DEF Held
<1>4. Conversation(sent) /\ taken \in Nat /\ EndOf(sent, j) <= taken
    BY <1>3 DEF Window
<1>5. Len(sent) \in Nat /\ Len(sent) \in 0..Len(sent) /\ taken = EndOf(sent, Len(sent))
      /\ EndOf(sent, Len(sent)) <= taken /\ NoMoreThan(sent, taken, Len(sent))
  <2>1. Len(sent) \in Nat
    BY <1>4 DEF Conversation
  <2>2. taken = EndOf(sent, Len(sent))
    BY DEF Stream, EndOf
  <2>3. NoMoreThan(sent, taken, Len(sent))
    BY <2>1 DEF NoMoreThan
  <2>. QED BY <1>4, <2>1, <2>2, <2>3
<1>6. j = Len(sent)
    BY <1>3, <1>4, <1>5, MessagesWithin
<1>. QED BY <1>3, <1>6

(* For any messages, cut into pieces of any size by TCP and by the read    *)
(* limit, with reads that fail in between: what readRequestAsync() and the *)
(* erase in handleRequests() have run and still hold is what one scan of   *)
(* all the bytes read would give.                                          *)
THEOREM PiecesStayInvisible == Spec => []PiecesAreInvisible
BY ReaderInvariant, ReaderInvPieces, PTL

(* Once the last byte of a conversation of any length was read by reads    *)
(* that did not fail, every request in it was run, in the order sent.      *)
THEOREM NothingStaysBehind == Spec => []NothingLeftBehind
BY ReaderInvariant, ReaderInvNothingLeft, PTL
=============================================================================
