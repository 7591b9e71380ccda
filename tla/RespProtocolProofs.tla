------------------------- MODULE RespProtocolProofs -------------------------
(***************************************************************************)
(* Proofs about the parsers of RespProtocol, for every buffer, the requests*)
(* that RespInputs gives them, the compressor and the writers of replies.  *)
(***************************************************************************)
EXTENDS RespInputs, LoopProofs

-----------------------------------------------------------------------------
\* parseRespCommand() takes the bulk strings that parseRespMessageLength()
\* skips.

\* The argument that a bulk string at idx holds.
ArgAt(buf, idx) ==
    LET len == read_crlf_decimal(buf, idx + 1)
    IN  SubSeq(buf, len.at, (len.at + len.val) - 1)

LEMMA ArgType ==
    ASSUME NEW buf \in Seq(STRING), NEW idx \in Nat, NEW next, IsBulk(buf, idx, next)
    PROVE  ArgAt(buf, idx) \in Seq(STRING)
<1>. DEFINE len == read_crlf_decimal(buf, idx + 1)
            at == len.at
            val == len.val
<1>1. at \in Nat /\ val \in Nat /\ at > idx + 3 /\ at + val + 2 <= Len(buf) + 1
    BY DEF IsBulk
<1>2. Len(buf) \in Nat
    OBVIOUS
<1>. HIDE DEF len, at, val
<1>3. at \in Int /\ (at + val) - 1 \in Int /\ \A i \in at..((at + val) - 1) : i \in 1..Len(buf)
    BY <1>1, <1>2
<1>4. \A i \in at..((at + val) - 1) : buf[i] \in STRING
    BY <1>3, ElementOfSeq
<1>5. SubSeq(buf, at, (at + val) - 1) \in Seq(STRING)
    BY <1>3, <1>4, SubSeqProperties
<1>. QED BY <1>5 DEF ArgAt, len, at, val

LEMMA TakeIs ==
    ASSUME NEW buf \in Seq(STRING), NEW t \in Takens, t.ok,
           NEW next \in Nat, IsBulk(buf, t.idx, next)
    PROVE  TakeBulk(buf)[t] = Taken(TRUE, next, Append(t.args, ArgAt(buf, t.idx)))
<1>. DEFINE len == read_crlf_decimal(buf, t.idx + 1)
            end == len.at + len.val
<1>1. t.idx \in Nat /\ Len(buf) \in Nat
    BY DEF Takens
<1>2. /\ t.idx <= Len(buf) /\ buf[t.idx] = RESP_BULK_PREFIX /\ len.end = "crlf"
      /\ end \in Nat /\ next = end + 2 /\ next <= Len(buf) + 1 /\ CrLfAt(buf, end)
    BY DEF IsBulk
<1>3. TakeBulk(buf)[t] =
        IF \/ ~t.ok
           \/ t.idx > Len(buf) \/ buf[t.idx] # RESP_BULK_PREFIX
           \/ len.end # "crlf" \/ end + 1 > Len(buf) \/ ~CrLfAt(buf, end)
        THEN [t EXCEPT !.ok = FALSE]
        ELSE Taken(TRUE, end + 2, Append(t.args, SubSeq(buf, len.at, end - 1)))
    BY Zenon DEF TakeBulk
<1>4. SubSeq(buf, len.at, end - 1) = ArgAt(buf, t.idx)
    BY DEF ArgAt
<1>. HIDE DEF len, end
<1>5. ~(t.idx > Len(buf)) /\ ~(end + 1 > Len(buf))
    BY <1>1, <1>2
<1>. QED BY <1>2, <1>3, <1>4, <1>5, Zenon

LEMMA TakeType ==
    ASSUME NEW buf \in Seq(STRING), NEW t \in Takens
    PROVE  TakeBulk(buf)[t] \in Takens
<1>. DEFINE len == read_crlf_decimal(buf, t.idx + 1)
            end == len.at + len.val
            Bad == \/ ~t.ok
                   \/ t.idx > Len(buf) \/ buf[t.idx] # RESP_BULK_PREFIX
                   \/ len.end # "crlf" \/ end + 1 > Len(buf) \/ ~CrLfAt(buf, end)
<1>1. TakeBulk(buf)[t] =
        IF Bad THEN [t EXCEPT !.ok = FALSE]
        ELSE Taken(TRUE, end + 2, Append(t.args, SubSeq(buf, len.at, end - 1)))
    BY DEF TakeBulk
<1>2. t.idx \in Nat /\ Len(buf) \in Nat /\ t.args \in Seq(Seq(STRING)) /\ t.ok \in BOOLEAN
    BY DEF Takens
<1>3. CASE Bad
  <2>1. TakeBulk(buf)[t] = [t EXCEPT !.ok = FALSE]
    BY <1>1, <1>3, Zenon
  <2>. QED BY <2>1, Zenon DEF Takens
<1>4. CASE ~Bad
  <2>1. BulkAt(buf, t.idx) = Place("complete", end + 2)
    <3>1. /\ ~(t.idx > Len(buf)) /\ buf[t.idx] = RESP_BULK_PREFIX /\ len.end # "error"
          /\ ~(end + 1 > Len(buf)) /\ CrLfAt(buf, end)
      BY <1>4
    <3>2. BulkAt(buf, t.idx) =
            IF t.idx > Len(buf) THEN Place("incomplete", t.idx)
            ELSE IF buf[t.idx] # RESP_BULK_PREFIX \/ len.end = "error" THEN Place("error", t.idx)
            ELSE IF end + 1 > Len(buf) THEN Place("incomplete", t.idx)
            ELSE IF ~CrLfAt(buf, end) THEN Place("error", t.idx)
            ELSE Place("complete", end + 2)
      BY DEF BulkAt
    <3>. HIDE DEF len, end
    <3>. QED BY <3>1, <3>2
  <2>2. IsBulk(buf, t.idx, end + 2) /\ BulkAt(buf, t.idx) \in Places
    <3>1. BulkAt(buf, t.idx).status = "complete" /\ BulkAt(buf, t.idx).idx = end + 2
      BY <2>1 DEF Place
    <3>. HIDE DEF end, len
    <3>. QED BY <1>2, <3>1, BulkFacts
  <2>3. end + 2 \in Nat
    <3>. DEFINE next == end + 2
    <3>. HIDE DEF end, len, next
    <3>1. BulkAt(buf, t.idx) = Place("complete", next)
      BY <2>1 DEF next
    <3>2. next \in Nat
      BY <2>2, <3>1 DEF Place, Places
    <3>. QED BY <3>2 DEF next
  <2>4. t.ok
    BY <1>4
  <2>. DEFINE arg == ArgAt(buf, t.idx)
              next == end + 2
  <2>. HIDE DEF Bad, len, end
  <2>5. TakeBulk(buf)[t] = Taken(TRUE, next, Append(t.args, arg))
    BY <2>2, <2>3, <2>4, TakeIs, Zenon
  <2>6. arg \in Seq(STRING)
    BY <1>2, <2>2, ArgType
  <2>. HIDE DEF arg, next
  <2>7. Append(t.args, arg) \in Seq(Seq(STRING))
    BY <1>2, <2>6, AppendProperties
  <2>. QED BY <2>3, <2>5, <2>7 DEF Taken, Takens, next
<1>. QED BY <1>3, <1>4

\* What parseRespCommand() has after n bulk strings from idx on.
TakesFrom(buf, idx, n) == Repeat(TakeBulk(buf), Taken(TRUE, idx, <<>>), n)

LEMMA TakesSteps ==
    ASSUME NEW buf \in Seq(STRING), NEW idx \in Nat
    PROVE  /\ TakesFrom(buf, idx, 0) = Taken(TRUE, idx, <<>>)
           /\ \A n \in Nat : TakesFrom(buf, idx, n) \in Takens
           /\ \A n \in Nat : TakesFrom(buf, idx, n + 1) = TakeBulk(buf)[TakesFrom(buf, idx, n)]
<1>. DEFINE pass == TakeBulk(buf)
            x == Taken(TRUE, idx, <<>>)
<1>1. x \in Takens
    BY DEF Taken, Takens
<1>2. DOMAIN pass = Takens /\ pass = [t \in Takens |-> pass[t]]
    BY DEF TakeBulk
<1>3. \A t \in Takens : pass[t] \in Takens
    BY TakeType
<1>. HIDE DEF pass, x
<1>4. PassOn(Takens, pass)
    BY <1>2, <1>3 DEF PassOn
<1>5. Repeated(Takens, pass, x)
    BY <1>1, <1>4, RepeatSteps, Zenon
<1>. QED BY <1>5, Zenon DEF Repeated, TakesFrom, pass, x

LEMMA TakesAre ==
    ASSUME NEW buf \in Seq(STRING), NEW idx \in 1..(Len(buf) + 1), NEW n \in Nat,
           BulksFrom(buf, idx, n).status = "complete"
    PROVE  LET t == TakesFrom(buf, idx, n)
           IN  t.ok /\ t.idx = BulksFrom(buf, idx, n).idx /\ Len(t.args) = n
<1>. DEFINE B(k) == BulksFrom(buf, idx, k)
            A(k) == TakesFrom(buf, idx, k)
            Ok(k) == A(k).ok /\ A(k).idx = B(k).idx /\ Len(A(k).args) = k
            T == {k \in Nat : B(k).status = "complete" => Ok(k)}
<1>1. idx \in Nat
    OBVIOUS
<1>2. /\ B(0) = Place("complete", idx) /\ \A k \in Nat : B(k) \in Places
      /\ \A k \in Nat : B(k + 1) = IF B(k).status = "complete"
                                   THEN BulkAt(buf, B(k).idx) ELSE B(k)
    BY <1>1, BulksSteps, Zenon
<1>3. /\ A(0) = Taken(TRUE, idx, <<>>) /\ \A k \in Nat : A(k) \in Takens
      /\ \A k \in Nat : A(k + 1) = TakeBulk(buf)[A(k)]
    BY <1>1, TakesSteps, Zenon
<1>. HIDE DEF A, B
<1>4. 0 \in T
  <2>1. B(0) = Place("complete", idx) /\ A(0) = Taken(TRUE, idx, <<>>)
    BY <1>2, <1>3, Zenon
  <2>2. B(0).idx = idx /\ A(0).ok /\ A(0).idx = idx /\ A(0).args = <<>>
    BY <2>1 DEF Place, Taken
  <2>3. Len(A(0).args) = 0
    BY <2>2
  <2>. QED BY <2>2, <2>3
<1>5. ASSUME NEW k \in T PROVE k + 1 \in T
  <2>. DEFINE b == B(k)
              c == B(k + 1)
              t == A(k)
              u == A(k + 1)
  <2>1. k \in Nat /\ k + 1 \in Nat
    OBVIOUS
  <2>2. /\ b \in Places /\ c \in Places /\ t \in Takens /\ u = TakeBulk(buf)[t]
        /\ c = IF b.status = "complete" THEN BulkAt(buf, b.idx) ELSE b
        /\ b.status = "complete" => t.ok /\ t.idx = b.idx /\ Len(t.args) = k
    BY <1>2, <1>3, <2>1, Zenon
  <2>. HIDE DEF b, c, t, u
  <2>3. SUFFICES ASSUME c.status = "complete"
                 PROVE  u.ok /\ u.idx = c.idx /\ Len(u.args) = k + 1
    BY <2>1 DEF c, u
  <2>4. b.status = "complete" /\ c = BulkAt(buf, b.idx)
    BY <2>2, <2>3
  <2>5. t.ok /\ t.idx = b.idx /\ Len(t.args) = k /\ b.idx \in Nat /\ c.idx \in Nat
        /\ t.args \in Seq(Seq(STRING))
    BY <2>2, <2>4 DEF Places, Takens
  <2>6. IsBulk(buf, t.idx, c.idx)
    BY <2>3, <2>4, <2>5, BulkFacts
  <2>. DEFINE arg == ArgAt(buf, t.idx)
  <2>7. u = Taken(TRUE, c.idx, Append(t.args, arg))
    BY <2>2, <2>5, <2>6, TakeIs, Zenon
  <2>8. arg \in Seq(STRING)
    BY <2>5, <2>6, ArgType
  <2>. HIDE DEF arg
  <2>9. Len(Append(t.args, arg)) = k + 1
    BY <2>5, <2>8, AppendProperties, ZenonT(30)
  <2>. QED BY <2>7, <2>9 DEF Taken
<1>6. \A k \in Nat : k \in T
  <2>1. T \in SUBSET Nat
    OBVIOUS
  <2>. HIDE DEF T
  <2>. QED BY <1>4, <1>5, <2>1, SetInduction, Zenon
<1>7. n \in T
    BY <1>6
<1>. QED BY <1>7 DEF A, B

\* On what is found to be a whole request the two parsers agree.
LEMMA FoundIsTaken ==
    ASSUME NEW buf \in Seq(STRING), 1 <= Len(buf), NEW length, IsFound(buf, 1, length)
    PROVE  (parseRespCommand(SubSeq(buf, 1, length)) # NoCommand)
              <=> (read_crlf_decimal(buf, 2).val \in 1..3)
<1>. DEFINE sub == SubSeq(buf, 1, length)
            n == read_crlf_decimal(buf, 2)
            at == n.at
            val == n.val
            last == BulksFrom(buf, at, val).idx
<1>1. Len(buf) \in Nat /\ 2 \in 1..(Len(buf) + 1) /\ 1 + 1 = 2
    OBVIOUS
<1>2. /\ n.end # "error" /\ at \in Nat /\ val \in Nat /\ at > 2 /\ at <= Len(buf) + 1
      /\ BulksFrom(buf, at, val).status = "complete" /\ last \in Nat /\ length = last - 1
      /\ length \in 2..(Len(buf) + 1 - 1) /\ buf[1] = RESP_ARRAY_PREFIX
  <2>1. n = read_crlf_decimal(buf, 1 + 1)
    BY <1>1
  <2>. HIDE DEF n
  <2>2. at > 1 + 1
    BY <2>1, Zenon DEF IsFound
  <2>3. /\ n.end # "error" /\ at \in Nat /\ val \in Nat /\ at <= Len(buf) + 1
        /\ BulksFrom(buf, at, val).status = "complete" /\ last \in Nat /\ length = last - 1
        /\ length \in 2..(Len(buf) + 1 - 1) /\ buf[1] = RESP_ARRAY_PREFIX
    BY <2>1, Zenon DEF IsFound
  <2>. QED BY <1>1, <2>2, <2>3
<1>3. last \in at..(Len(buf) + 1) /\ (val > 0 => last > at)
  <2>1. at \in 1..(Len(buf) + 1)
    BY <1>1, <1>2
  <2>. QED BY <1>2, <2>1, BulksWithin
<1>4. IsNumber(buf, 2, n)
    BY <1>1, NumberFacts
<1>5. CASE n.end = "cut"
  <2>1. at = Len(buf) + 1
    BY <1>4, <1>5 DEF IsNumber
  <2>2. val = 0 /\ length = Len(buf)
    BY <1>1, <1>2, <1>3, <2>1
  <2>3. sub = buf
    BY <2>2, SubSeqFull
  <2>4. parseRespCommand(buf) = NoCommand
    BY <1>5, Zenon DEF parseRespCommand
  <2>5. ~(val \in 1..3)
    BY <2>2
  <2>. QED BY <2>3, <2>4, <2>5, Zenon
<1>6. CASE n.end = "crlf"
  <2>1. length \in Nat /\ 2 \in 1..length /\ 1 \in 1..length /\ length <= Len(buf)
        /\ at <= length + 1
    BY <1>1, <1>2, <1>3
  <2>2. sub \in Seq(STRING) /\ Len(sub) = length /\ \A i \in 1..length : sub[i] = buf[i]
    <3>1. \A i \in 1..length : buf[i] \in STRING
      <4>1. \A i \in 1..length : i \in 1..Len(buf)
        BY <1>1, <2>1
      <4>. QED BY <4>1, ElementOfSeq
    <3>2. 1 \in Int /\ length \in Int
      BY <2>1
    <3>3. /\ sub \in Seq(STRING) /\ Len(sub) = IF 1 <= length THEN length - 1 + 1 ELSE 0
          /\ \A i \in 1..(length - 1 + 1) : sub[i] = buf[1 + i - 1]
      BY <3>1, <3>2, SubSeqProperties
    <3>. HIDE DEF sub
    <3>4. 1 <= length /\ length - 1 + 1 = length /\ \A i \in 1..length : 1 + i - 1 = i
      BY <2>1
    <3>. QED BY <3>3, <3>4
  <2>. HIDE DEF sub
  <2>3. Alike(buf, 0, sub, 0, length)
    <3>1. \A i \in 1..length : buf[0 + i] = sub[0 + i]
      BY <2>1, <2>2
    <3>. QED BY <1>1, <2>1, <2>2, <3>1 DEF Alike
  <2>4. IsFound(sub, 1, length)
    <3>1. IsFound(buf, 0 + 1, length) /\ read_crlf_decimal(buf, (0 + 1) + 1).end = "crlf"
          /\ length <= length
      BY <1>1, <1>6, <2>1
    <3>2. IsFound(sub, 0 + 1, length)
      BY <2>3, <3>1, FoundAlike, Zenon
    <3>. QED BY <3>2
  <2>5. read_crlf_decimal(sub, 2) = Number("crlf", at, val)
    <3>1. read_crlf_decimal(buf, 0 + 2) = n /\ n.end = "crlf" /\ n.at <= 0 + length + 1
      BY <1>6, <2>1
    <3>2. read_crlf_decimal(sub, 0 + 2) =
             Number("crlf", 0 + (read_crlf_decimal(buf, 0 + 2).at - 0),
                    read_crlf_decimal(buf, 0 + 2).val)
      BY <2>1, <2>3, <3>1, NumberAlike
    <3>3. 0 + (at - 0) = at /\ 0 + 2 = 2
      BY <1>2
    <3>. QED BY <3>1, <3>2, <3>3
  <2>. DEFINE m == read_crlf_decimal(sub, 2)
              t == TakesFrom(sub, at, val)
  <2>6. m.end = "crlf" /\ m.at = at /\ m.val = val
    BY <2>5 DEF Number
  <2>7. BulksFrom(sub, at, val).status = "complete"
    <3>1. m = read_crlf_decimal(sub, 1 + 1)
      BY <1>1
    <3>. HIDE DEF m
    <3>2. BulksFrom(sub, m.at, m.val).status = "complete"
      BY <2>4, <3>1, Zenon DEF IsFound
    <3>. QED BY <2>6, <3>2
  <2>8. at \in 1..(Len(sub) + 1)
    BY <1>2, <2>1, <2>2
  <2>9. t.ok /\ Len(t.args) = val
    BY <1>2, <2>2, <2>7, <2>8, TakesAre
  <2>10. sub # <<>> /\ sub[1] = RESP_ARRAY_PREFIX
    BY <1>2, <2>1, <2>2
  <2>11. parseRespCommand(sub) = IF val < 1 \/ val > 3 THEN NoCommand ELSE t.args
    <3>1. parseRespCommand(sub) =
             LET r == TakesFrom(sub, m.at, m.val)
             IN  IF \/ sub = <<>> \/ sub[1] # RESP_ARRAY_PREFIX
                    \/ m.end # "crlf" \/ m.val < 1 \/ m.val > 3 \/ ~r.ok
                 THEN NoCommand ELSE r.args
      BY Zenon DEF parseRespCommand, TakesFrom
    <3>. HIDE DEF m
    <3>. QED BY <2>6, <2>9, <2>10, <3>1
  <2>12. val \in 1..3 => t.args # NoCommand
    <3>1. Len(NoCommand) = 0
      BY DEF NoCommand
    <3>. QED BY <1>2, <2>9, <3>1
  <2>. HIDE DEF t, n, val
  <2>13. (parseRespCommand(sub) # NoCommand) <=> (val \in 1..3)
    BY <1>2, <2>11, <2>12
  <2>. QED BY <2>13 DEF val, n, sub
<1>. QED BY <1>2, <1>4, <1>5, <1>6 DEF IsNumber

(* Whatever bytes a buffer holds: a request that parseRespMessageLength()  *)
(* finds at its beginning ends within it, and parseRespCommand() accepts   *)
(* that request exactly when it has one to three elements.                 *)
THEOREM ParsersAgreeOnEveryBuffer ==
    ASSUME NEW buf \in Seq(STRING), parseRespMessageLength(buf, 1).status = "complete"
    PROVE  LET length == parseRespMessageLength(buf, 1).length
           IN  /\ length \in 2..Len(buf)
               /\ (parseRespCommand(SubSeq(buf, 1, length)) # NoCommand)
                     <=> (read_crlf_decimal(buf, 2).val \in 1..3)
<1>1. Len(buf) \in Nat
    OBVIOUS
<1>2. 1 \in 1..Len(buf)
  <2>1. SUFFICES ASSUME 1 > Len(buf) PROVE FALSE
    BY <1>1
  <2>2. parseRespMessageLength(buf, 1) = Parse("error", 0)
    BY <2>1 DEF parseRespMessageLength
  <2>. QED BY <2>2 DEF Parse
<1>. DEFINE length == parseRespMessageLength(buf, 1).length
<1>3. IsFound(buf, 1, length)
    BY <1>2, ParseFacts
<1>. HIDE DEF length
<1>4. length \in 2..Len(buf)
  <2>1. length \in 2..(Len(buf) + 1 - 1)
    BY <1>3, Zenon DEF IsFound
  <2>. QED BY <1>1, <2>1
<1>5. (parseRespCommand(SubSeq(buf, 1, length)) # NoCommand)
         <=> (read_crlf_decimal(buf, 2).val \in 1..3)
    BY <1>2, <1>3, FoundIsTaken
<1>. QED BY <1>4, <1>5 DEF length

-----------------------------------------------------------------------------
(* What u64_to_ascii() writes, read_crlf_decimal() reads back.             *)

LEMMA DecimalAppend ==
    ASSUME NEW digits \in Seq(Digits), NEW d \in Digits
    PROVE  Decimal(Append(digits, d)) = Decimal(digits) * 10 + Digit[d]
<1>. DEFINE longer == Append(digits, d)
            k == Len(digits)
<1>1. longer \in Seq(Digits) /\ Len(longer) = k + 1 /\ longer[k + 1] = d
      /\ (\A i \in 1..k : longer[i] = digits[i]) /\ k \in Nat
    BY AppendProperties
<1>. HIDE DEF longer
<1>2. PICK value \in [0..k -> Nat] :
              /\ value[0] = 0
              /\ \A i \in 1..k : value[i] = value[i - 1] * 10 + Digit[digits[i]]
              /\ Decimal(digits) = value[k]
    BY DecimalSteps
<1>3. PICK other \in [0..Len(longer) -> Nat] :
              /\ other[0] = 0
              /\ \A i \in 1..Len(longer) : other[i] = other[i - 1] * 10 + Digit[longer[i]]
              /\ Decimal(longer) = other[Len(longer)]
    BY <1>1, DecimalSteps, Zenon
<1>. DEFINE T == {i \in Nat : i <= k => other[i] = value[i]}
<1>4. 0 \in T
    BY <1>2, <1>3
<1>5. ASSUME NEW i \in T PROVE i + 1 \in T
  <2>1. SUFFICES ASSUME i + 1 <= k PROVE other[i + 1] = value[i + 1]
    OBVIOUS
  <2>2. i \in Nat /\ i + 1 \in 1..k /\ i + 1 \in 1..Len(longer) /\ (i + 1) - 1 = i
    BY <1>1, <2>1
  <2>3. other[i] = value[i]
    BY <1>1, <2>1, <2>2
  <2>4. other[i + 1] = other[i] * 10 + Digit[longer[i + 1]]
    BY <1>3, <2>2
  <2>5. value[i + 1] = value[i] * 10 + Digit[digits[i + 1]]
    BY <1>2, <2>2
  <2>6. longer[i + 1] = digits[i + 1]
    BY <1>1, <2>2
  <2>. QED BY <2>3, <2>4, <2>5, <2>6
<1>6. T \in SUBSET Nat
    OBVIOUS
<1>7. k \in T
  <2>. HIDE DEF T
  <2>. QED BY <1>1, <1>4, <1>5, <1>6, SetInduction, Zenon
<1>8. other[k] = value[k]
    BY <1>1, <1>7
<1>9. other[k + 1] = other[k] * 10 + Digit[longer[k + 1]]
  <2>1. k + 1 \in 1..Len(longer) /\ (k + 1) - 1 = k
    BY <1>1
  <2>. QED BY <1>3, <2>1
<1>. QED BY <1>1, <1>2, <1>3, <1>8, <1>9 DEF longer

LEMMA DecimalOne ==
    ASSUME NEW d \in Digits
    PROVE  Decimal(<<d>>) = Digit[d]
<1>1. <<d>> \in Seq(Digits) /\ Len(<<d>>) = 1 /\ <<d>>[1] = d
    OBVIOUS
<1>2. PICK value \in [0..1 -> Nat] :
              /\ value[0] = 0
              /\ \A i \in 1..1 : value[i] = value[i - 1] * 10 + Digit[<<d>>[i]]
              /\ Decimal(<<d>>) = value[1]
    BY <1>1, DecimalSteps, Zenon
<1>3. value[1] = value[0] * 10 + Digit[d]
    BY <1>1, <1>2
<1>4. Digit[d] \in Nat
    BY DigitType
<1>. QED BY <1>2, <1>3, <1>4

\* One step of u64_to_ascii(), from the digits of smaller numbers.
Ascii(f, w) ==
    LET r == DigitBytes[(w % 10) + 1]
    IN  IF w < 10 THEN <<r>> ELSE Append(f[w \div 10], r)

LEMMA AsciiExists ==
    ASSUME NEW v \in Nat
    PROVE  \E f : f = [w \in 0..v |-> Ascii(f, w)]
<1>. DEFINE T == {n \in Nat : \E f : f = [w \in 0..n |-> Ascii(f, w)]}
<1>1. 0 \in T
  <2>. DEFINE f == [w \in 0..0 |-> Ascii(<<>>, w)]
  <2>1. \A w \in 0..0 : Ascii(<<>>, w) = Ascii(f, w)
    BY DEF Ascii
  <2>2. f = [w \in 0..0 |-> Ascii(f, w)]
    BY <2>1
  <2>. QED BY <2>2
<1>2. ASSUME NEW n \in T PROVE n + 1 \in T
  <2>1. n \in Nat /\ n + 1 \in Nat
    OBVIOUS
  <2>2. PICK f : f = [w \in 0..n |-> Ascii(f, w)]
    OBVIOUS
  <2>. DEFINE g == [w \in 0..(n + 1) |-> Ascii(f, w)]
  <2>3. \A w \in 0..n : g[w] = f[w]
    <3>1. \A w \in 0..n : w \in 0..(n + 1)
      BY <2>1
    <3>. QED BY <2>2, <3>1, Zenon
  <2>4. ASSUME NEW w \in 0..(n + 1) PROVE Ascii(f, w) = Ascii(g, w)
    <3>1. CASE w < 10
      BY <3>1 DEF Ascii
    <3>2. CASE ~(w < 10)
      <4>1. w \div 10 \in 0..n
        BY <2>1, <3>2
      <4>2. g[w \div 10] = f[w \div 10]
        BY <2>3, <4>1, Zenon
      <4>. HIDE DEF g
      <4>. QED BY <4>2 DEF Ascii
    <3>. QED BY <3>1, <3>2
  <2>5. g = [w \in 0..(n + 1) |-> Ascii(g, w)]
    <3>1. g = [w \in 0..(n + 1) |-> Ascii(f, w)]
      OBVIOUS
    <3>. HIDE DEF g
    <3>. QED BY <2>4, <3>1, Zenon
  <2>. QED BY <2>1, <2>5, Zenon
<1>3. T \in SUBSET Nat
    OBVIOUS
<1>4. v \in T
  <2>. HIDE DEF T
  <2>. QED BY <1>1, <1>2, <1>3, SetInduction, Zenon
<1>. QED BY <1>4

\* The digits of v: they stand for v, and only those of 0 begin with 0.
IsAscii(digits, v) ==
    /\ digits \in Seq(Digits) /\ Len(digits) >= 1
    /\ Decimal(digits) = v
    /\ v > 0 => digits[1] # "0"

LEMMA AsciiIs ==
    ASSUME NEW v \in Nat
    PROVE  IsAscii(u64_to_ascii(v), v)
<1>. DEFINE f == CHOOSE g : g = [w \in 0..v |-> Ascii(g, w)]
<1>1. u64_to_ascii(v) = f[v]
    BY Zenon DEF u64_to_ascii, Ascii
<1>2. f = [w \in 0..v |-> Ascii(f, w)]
    BY AsciiExists, Zenon
<1>. HIDE DEF f
<1>3. \A w \in 0..v : f[w] = Ascii(f, w)
    BY <1>2, Zenon
<1>. DEFINE T == {n \in Nat : \A w \in 0..n : w <= v => IsAscii(f[w], w)}
<1>4. ASSUME NEW w \in 0..v, w < 10 PROVE IsAscii(f[w], w)
  <2>. DEFINE r == DigitBytes[(w % 10) + 1]
  <2>1. w % 10 = w /\ (w % 10) + 1 \in 1..10
    BY <1>4
  <2>2. r \in Digits /\ Digit[r] = w
    BY <2>1, DigitValues
  <2>3. f[w] = <<r>>
    BY <1>3, <1>4, Zenon DEF Ascii
  <2>. HIDE DEF r
  <2>4. Decimal(<<r>>) = w
    BY <2>2, DecimalOne
  <2>5. w > 0 => r # "0"
    <3>1. DigitBytes[1] = "0" /\ Digit[DigitBytes[1]] = 1 - 1
      BY DigitValues DEF DigitBytes
    <3>. QED BY <2>2, <3>1
  <2>. QED BY <2>2, <2>3, <2>4, <2>5 DEF IsAscii
<1>5. 0 \in T
  <2>1. 0 \in 0..v /\ 0 < 10
    OBVIOUS
  <2>2. IsAscii(f[0], 0)
    BY <1>4, <2>1
  <2>. QED BY <2>2
<1>6. ASSUME NEW n \in T PROVE n + 1 \in T
  <2>1. n \in Nat /\ n + 1 \in Nat /\ \A w \in 0..n : w <= v => IsAscii(f[w], w)
    OBVIOUS
  <2>2. SUFFICES ASSUME n + 1 <= v PROVE IsAscii(f[n + 1], n + 1)
    <3>1. ASSUME NEW w \in 0..(n + 1), w <= v PROVE IsAscii(f[w], w)
      <4>1. w \in 0..n \/ w = n + 1
        BY <2>1
      <4>. QED BY <2>1, <2>2, <3>1, <4>1
    <3>. QED BY <2>1, <3>1
  <2>. DEFINE w == n + 1
              r == DigitBytes[(w % 10) + 1]
              q == w \div 10
  <2>3. w \in 0..v
    BY <2>1, <2>2
  <2>4. CASE w < 10
    BY <1>4, <2>3, <2>4
  <2>5. CASE ~(w < 10)
    <3>1. q \in 0..n /\ q > 0 /\ w = q * 10 + (w % 10) /\ (w % 10) + 1 \in 1..10 /\ w % 10 \in Nat
      BY <2>1, <2>5
    <3>2. r \in Digits /\ Digit[r] = w % 10
      <4>1. (w % 10) + 1 - 1 = w % 10
        BY <3>1
      <4>. QED BY <3>1, <4>1, DigitValues
    <3>3. IsAscii(f[q], q)
      <4>1. q <= v
        BY <2>1, <2>2, <3>1
      <4>. QED BY <2>1, <3>1, <4>1
    <3>4. f[w] = Append(f[q], r)
      BY <1>3, <2>3, <2>5, Zenon DEF Ascii
    <3>. HIDE DEF q, r, w
    <3>5. Decimal(Append(f[q], r)) = Decimal(f[q]) * 10 + Digit[r]
      BY <3>2, <3>3, DecimalAppend DEF IsAscii
    <3>6. Decimal(f[w]) = w
      BY <3>1, <3>2, <3>3, <3>4, <3>5 DEF IsAscii
    <3>7. /\ Append(f[q], r) \in Seq(Digits) /\ Len(Append(f[q], r)) = Len(f[q]) + 1
          /\ Append(f[q], r)[1] = f[q][1] /\ Len(f[q]) \in Nat
      BY <3>2, <3>3, AppendProperties DEF IsAscii
    <3>8. IsAscii(f[w], w)
      BY <3>1, <3>3, <3>4, <3>6, <3>7 DEF IsAscii
    <3>. QED BY <3>8 DEF w
  <2>. QED BY <2>4, <2>5
<1>7. T \in SUBSET Nat
    OBVIOUS
<1>8. v \in T
  <2>. HIDE DEF T
  <2>. QED BY <1>5, <1>6, <1>7, SetInduction, Zenon
<1>9. v \in 0..v /\ v <= v
    OBVIOUS
<1>. QED BY <1>1, <1>8, <1>9

-----------------------------------------------------------------------------
(* Where the pieces of a request lie in a buffer that begins with it, or   *)
(* that is cut off within it.                                              *)

\* After its first d bytes buf holds s, as far as it goes.
Laid(s, d, buf) ==
    /\ s \in Seq(STRING) /\ d \in Nat /\ buf \in Seq(STRING)
    /\ \A i \in 1..Len(s) : d + i <= Len(buf) => buf[d + i] = s[i]

LEMMA LaidPieces ==
    ASSUME NEW s \in Seq(STRING), NEW t \in Seq(STRING), NEW d \in Nat, NEW buf,
           Laid(s \o t, d, buf)
    PROVE  Laid(s, d, buf) /\ Laid(t, d + Len(s), buf)
<1>. DEFINE st == s \o t
<1>1. /\ st \in Seq(STRING) /\ Len(st) = Len(s) + Len(t) /\ Len(s) \in Nat /\ Len(t) \in Nat
      /\ \A i \in 1..Len(s) : st[i] = s[i]
      /\ \A i \in 1..Len(t) : st[Len(s) + i] = t[i]
  <2>1. Len(s) \in Nat /\ Len(t) \in Nat
    OBVIOUS
  <2>2. /\ st \in Seq(STRING) /\ Len(st) = Len(s) + Len(t)
        /\ \A i \in 1..(Len(s) + Len(t)) : st[i] = IF i <= Len(s) THEN s[i] ELSE t[i - Len(s)]
    BY ConcatProperties
  <2>. HIDE DEF st
  <2>3. ASSUME NEW i \in 1..Len(s) PROVE st[i] = s[i]
    <3>1. i \in 1..(Len(s) + Len(t)) /\ i <= Len(s)
      BY <2>1
    <3>. QED BY <2>2, <3>1
  <2>4. ASSUME NEW i \in 1..Len(t) PROVE st[Len(s) + i] = t[i]
    <3>1. Len(s) + i \in 1..(Len(s) + Len(t)) /\ ~(Len(s) + i <= Len(s)) /\ (Len(s) + i) - Len(s) = i
      BY <2>1
    <3>. QED BY <2>2, <3>1
  <2>. QED BY <2>1, <2>2, <2>3, <2>4
<1>2. buf \in Seq(STRING) /\ Len(buf) \in Nat
      /\ \A i \in 1..Len(st) : d + i <= Len(buf) => buf[d + i] = st[i]
    BY DEF Laid
<1>. HIDE DEF st
<1>3. ASSUME NEW i \in 1..Len(s), d + i <= Len(buf) PROVE buf[d + i] = s[i]
  <2>1. i \in 1..Len(st)
    BY <1>1
  <2>. QED BY <1>1, <1>2, <1>3, <2>1
<1>4. ASSUME NEW i \in 1..Len(t), (d + Len(s)) + i <= Len(buf) PROVE buf[(d + Len(s)) + i] = t[i]
  <2>1. Len(s) + i \in 1..Len(st) /\ d + (Len(s) + i) = (d + Len(s)) + i
    BY <1>1
  <2>2. buf[d + (Len(s) + i)] = st[Len(s) + i]
    BY <1>2, <1>4, <2>1
  <2>. QED BY <1>1, <2>1, <2>2
<1>5. d + Len(s) \in Nat
    BY <1>1
<1>. QED BY <1>2, <1>3, <1>4, <1>5 DEF Laid

LEMMA OneOf ==
    ASSUME NEW S, NEW a \in S
    PROVE  <<a>> \in Seq(S) /\ Len(<<a>>) = 1 /\ <<a>>[1] = a
OBVIOUS

LEMMA TwoOf ==
    ASSUME NEW S, NEW a \in S, NEW b \in S
    PROVE  <<a, b>> \in Seq(S) /\ Len(<<a, b>>) = 2 /\ <<a, b>>[1] = a /\ <<a, b>>[2] = b
OBVIOUS

LEMMA AppendedTo ==
    ASSUME NEW S, NEW s \in Seq(S), NEW a \in S
    PROVE  /\ Append(s, a) \in Seq(S) /\ Len(Append(s, a)) = Len(s) + 1
           /\ \A i \in 1..Len(s) : Append(s, a)[i] = s[i]
OBVIOUS

LEMMA SeqWithin ==
    ASSUME NEW S, NEW T, S \subseteq T, NEW s \in Seq(S)
    PROVE  s \in Seq(T)
OBVIOUS

LEMMA ByteTypes ==
    /\ Digits \subseteq STRING
    /\ RESP_ARRAY_PREFIX \in STRING /\ RESP_BULK_PREFIX \in STRING
    /\ CrLf \in Seq(STRING) /\ Len(CrLf) = 2 /\ CrLf[1] = RESP_CR /\ CrLf[2] = RESP_LF
<1>1. Digits \subseteq STRING /\ RESP_ARRAY_PREFIX \in STRING /\ RESP_BULK_PREFIX \in STRING
      /\ RESP_CR \in STRING /\ RESP_LF \in STRING
    BY BytesAssumption, Zenon
<1>2. CrLf \in Seq(STRING) /\ Len(CrLf) = 2 /\ CrLf[1] = RESP_CR /\ CrLf[2] = RESP_LF
    BY <1>1, TwoOf, Zenon DEF CrLf
<1>. QED BY <1>1, <1>2, Zenon

\* Digits of v as bytes.
LEMMA AsciiType ==
    ASSUME NEW v \in Nat
    PROVE  /\ u64_to_ascii(v) \in Seq(STRING) /\ Len(u64_to_ascii(v)) \in Nat \ {0}
           /\ \A i \in 1..Len(u64_to_ascii(v)) : is_digit(u64_to_ascii(v)[i])
<1>. DEFINE u == u64_to_ascii(v)
<1>1. u \in Seq(Digits) /\ Len(u) >= 1
    BY AsciiIs DEF IsAscii
<1>. HIDE DEF u
<1>2. \A i \in 1..Len(u) : u[i] \in Digits
    BY <1>1, ElementOfSeq
<1>3. u \in Seq(STRING)
    BY <1>1, ByteTypes, SeqWithin, Zenon
<1>4. \A i \in 1..Len(u) : is_digit(u[i])
    BY <1>2 DEF is_digit
<1>. QED BY <1>1, <1>3, <1>4 DEF u

\* The pieces of a header, and of a bulk string.
HeaderLaid(prefix, v, d, buf) ==
    LET u == u64_to_ascii(v)
    IN  /\ d < Len(buf) => buf[d + 1] = prefix
        /\ Laid(u, d + 1, buf)
        /\ Laid(CrLf, d + 1 + Len(u), buf)

LEMMA HeaderPieces ==
    ASSUME NEW prefix \in STRING, NEW v \in Nat
    PROVE  /\ Header(prefix, v) \in Seq(STRING)
           /\ Len(Header(prefix, v)) = Len(u64_to_ascii(v)) + 3
           /\ \A d, buf : Laid(Header(prefix, v), d, buf) => HeaderLaid(prefix, v, d, buf)
<1>. DEFINE u == u64_to_ascii(v)
            p == <<prefix>>
            pu == p \o u
            h == pu \o CrLf
<1>1. u \in Seq(STRING) /\ Len(u) \in Nat
    BY AsciiType
<1>. HIDE DEF u
<1>2. p \in Seq(STRING) /\ Len(p) = 1 /\ p[1] = prefix
    BY OneOf, Zenon
<1>. HIDE DEF p
<1>3. pu \in Seq(STRING) /\ Len(pu) = 1 + Len(u)
    BY <1>1, <1>2, ConcatProperties, ZenonT(30)
<1>. HIDE DEF pu
<1>4. h \in Seq(STRING) /\ Len(h) = 1 + Len(u) + 2
  <2>1. h \in Seq(STRING) /\ Len(h) = Len(pu) + Len(CrLf)
    BY <1>3, ByteTypes, ConcatProperties, Zenon
  <2>. QED BY <1>3, <2>1, ByteTypes, Zenon
<1>. HIDE DEF h
<1>5. Header(prefix, v) = h
    BY DEF Header, h, pu, p, u
<1>6. ASSUME NEW d, NEW buf, Laid(h, d, buf) PROVE HeaderLaid(prefix, v, d, buf)
  <2>1. d \in Nat /\ buf \in Seq(STRING) /\ Len(buf) \in Nat
    BY <1>6 DEF Laid
  <2>2. Laid(pu, d, buf) /\ Laid(CrLf, d + Len(pu), buf)
    BY <1>3, <1>6, <2>1, ByteTypes, LaidPieces DEF h
  <2>3. Laid(p, d, buf) /\ Laid(u, d + Len(p), buf)
    BY <1>1, <1>2, <2>1, <2>2, LaidPieces, Zenon DEF pu
  <2>4. d + Len(pu) = d + 1 + Len(u) /\ d + Len(p) = d + 1
    BY <1>1, <1>2, <1>3, <2>1
  <2>5. d < Len(buf) => buf[d + 1] = prefix
    <3>1. 1 \in 1..Len(p) /\ (d < Len(buf) => d + 1 <= Len(buf))
      BY <1>2, <2>1
    <3>. QED BY <1>2, <2>3, <3>1, Zenon DEF Laid
  <2>. QED BY <2>2, <2>3, <2>4, <2>5, Zenon DEF HeaderLaid, u
<1>7. 1 + Len(u) + 2 = Len(u) + 3
    BY <1>1
<1>. QED BY <1>4, <1>5, <1>6, <1>7, Zenon DEF u

BulkLaid(arg, d, buf) ==
    LET body == d + (Len(u64_to_ascii(Len(arg))) + 3)
    IN  /\ HeaderLaid(RESP_BULK_PREFIX, Len(arg), d, buf)
        /\ Laid(arg, body, buf)
        /\ Laid(CrLf, body + Len(arg), buf)

LEMMA BulkPieces ==
    ASSUME NEW arg \in Seq(STRING)
    PROVE  /\ Bulk(arg) \in Seq(STRING)
           /\ Len(Bulk(arg)) = Len(u64_to_ascii(Len(arg))) + 3 + Len(arg) + 2
           /\ \A d, buf : Laid(Bulk(arg), d, buf) => BulkLaid(arg, d, buf)
<1>. DEFINE v == Len(arg)
            u == u64_to_ascii(v)
            h == Header(RESP_BULK_PREFIX, v)
            ha == h \o arg
            b == ha \o CrLf
<1>1. v \in Nat
    OBVIOUS
<1>2. Len(u) \in Nat
    BY <1>1, AsciiType
<1>3. h \in Seq(STRING) /\ Len(h) = Len(u) + 3
      /\ \A d, buf : Laid(h, d, buf) => HeaderLaid(RESP_BULK_PREFIX, v, d, buf)
    BY <1>1, ByteTypes, HeaderPieces, Zenon
<1>. HIDE DEF h
<1>4. ha \in Seq(STRING) /\ Len(ha) = Len(h) + v
    BY <1>3, ConcatProperties, Zenon
<1>. HIDE DEF ha
<1>5. b \in Seq(STRING) /\ Len(b) = Len(ha) + 2
  <2>1. b \in Seq(STRING) /\ Len(b) = Len(ha) + Len(CrLf)
    BY <1>4, ByteTypes, ConcatProperties, Zenon
  <2>. QED BY <2>1, ByteTypes, Zenon
<1>. HIDE DEF b
<1>6. Bulk(arg) = b
    BY DEF Bulk, b, ha, h
<1>7. ASSUME NEW d, NEW buf, Laid(b, d, buf) PROVE BulkLaid(arg, d, buf)
  <2>1. d \in Nat
    BY <1>7 DEF Laid
  <2>2. Laid(ha, d, buf) /\ Laid(CrLf, d + Len(ha), buf)
    BY <1>4, <1>7, <2>1, ByteTypes, LaidPieces, SMTT(30) DEF b
  <2>3. Laid(h, d, buf) /\ Laid(arg, d + Len(h), buf)
    BY <1>3, <2>1, <2>2, LaidPieces DEF ha
  <2>. HIDE DEF u, v
  <2>4. d + Len(ha) = d + (Len(u) + 3) + v /\ d + Len(h) = d + (Len(u) + 3)
    BY <1>1, <1>2, <1>3, <1>4, <2>1
  <2>5. HeaderLaid(RESP_BULK_PREFIX, v, d, buf)
    BY <1>3, <2>3
  <2>. QED BY <2>2, <2>3, <2>4, <2>5 DEF BulkLaid, u, v
<1>. HIDE DEF u, v
<1>8. Len(b) = Len(u) + 3 + v + 2
    BY <1>1, <1>2, <1>3, <1>4, <1>5
<1>. QED BY <1>5, <1>6, <1>7, <1>8 DEF u, v

\* A header that is there as a whole is read as the number it was made of.
LEMMA HeaderRead ==
    ASSUME NEW buf \in Seq(STRING), NEW d \in Nat, NEW v \in Nat, NEW prefix,
           HeaderLaid(prefix, v, d, buf), d + (Len(u64_to_ascii(v)) + 3) <= Len(buf)
    PROVE  /\ buf[d + 1] = prefix
           /\ read_crlf_decimal(buf, d + 2) = Number("crlf", d + (Len(u64_to_ascii(v)) + 3) + 1, v)
<1>. DEFINE u == u64_to_ascii(v)
            k == Len(u)
            idx == d + 2
            stop == d + (k + 2)
<1>1. k \in Nat \ {0} /\ u \in Seq(STRING) /\ (\A i \in 1..k : is_digit(u[i]))
    BY AsciiType
<1>2. u \in Seq(Digits) /\ Decimal(u) = v
    BY AsciiIs DEF IsAscii
<1>3. /\ d < Len(buf) => buf[d + 1] = prefix
      /\ \A i \in 1..k : (d + 1) + i <= Len(buf) => buf[(d + 1) + i] = u[i]
      /\ \A i \in 1..Len(CrLf) : (d + 1 + k) + i <= Len(buf) => buf[(d + 1 + k) + i] = CrLf[i]
    BY DEF HeaderLaid, Laid
<1>4. d + (k + 3) <= Len(buf) /\ Len(buf) \in Nat
    OBVIOUS
<1>. HIDE DEF u, k
<1>5. /\ idx \in 1..(Len(buf) + 1) /\ stop \in idx..(Len(buf) + 1) /\ stop > idx
      /\ stop < Len(buf) /\ stop + 1 <= Len(buf) /\ d < Len(buf) /\ stop \in Nat /\ idx \in Nat
    BY <1>1, <1>4
<1>6. ASSUME NEW j \in idx..(stop - 1)
      PROVE  is_digit(buf[j]) /\ buf[j] = u[j - (d + 1)] /\ j - (d + 1) \in 1..k
  <2>1. j - (d + 1) \in 1..k /\ (d + 1) + (j - (d + 1)) = j /\ j <= Len(buf)
    BY <1>1, <1>4
  <2>2. buf[j] = u[j - (d + 1)]
    BY <1>3, <2>1
  <2>. QED BY <1>1, <2>1, <2>2
<1>7. CrLfAt(buf, stop)
  <2>1. 1 \in 1..Len(CrLf) /\ 2 \in 1..Len(CrLf)
        /\ (d + 1 + k) + 1 = stop /\ (d + 1 + k) + 2 = stop + 1
    BY <1>1, ByteTypes
  <2>2. buf[stop] = CrLf[1] /\ buf[stop + 1] = CrLf[2]
    BY <1>3, <1>5, <2>1
  <2>. QED BY <1>5, <2>2, ByteTypes DEF CrLfAt
<1>. DEFINE here == SubSeq(buf, idx, stop - 1)
<1>8. here = u
  <2>1. here \in Seq(Digits) /\ Len(here) = stop - idx
        /\ \A i \in 1..(stop - idx) : here[i] = buf[idx + i - 1]
    <3>1. \A j \in idx..(stop - 1) : is_digit(buf[j])
      BY <1>6
    <3>. QED BY <1>5, <3>1, DigitsAreDigits, Zenon
  <2>2. stop - idx = k
    BY <1>1
  <2>. HIDE DEF here
  <2>3. ASSUME NEW i \in 1..k PROVE here[i] = u[i]
    <3>1. idx + i - 1 \in idx..(stop - 1) /\ (idx + i - 1) - (d + 1) = i /\ i \in 1..(stop - idx)
      BY <1>1
    <3>2. buf[idx + i - 1] = u[(idx + i - 1) - (d + 1)]
      BY <1>6, <3>1
    <3>. QED BY <2>1, <3>1, <3>2
  <2>. QED BY <1>2, <2>1, <2>2, <2>3, SeqEqual DEF k
<1>9. read_crlf_decimal(buf, idx) = Number("crlf", stop + 2, Decimal(here))
  <2>1. \A j \in idx..(stop - 1) : is_digit(buf[j])
    BY <1>6
  <2>. QED BY <1>5, <1>7, <2>1, NumberIs
<1>10. stop + 2 = d + (k + 3) + 1
    BY <1>1
<1>. QED BY <1>2, <1>3, <1>5, <1>8, <1>9, <1>10, Zenon DEF u, k

\* A header that the buffer ends in: an error right after the prefix and
\* between CR and LF, a shorter number everywhere else.
LEMMA HeaderCut ==
    ASSUME NEW buf \in Seq(STRING), NEW d \in Nat, NEW v \in Nat, NEW prefix,
           HeaderLaid(prefix, v, d, buf),
           d < Len(buf), Len(buf) < d + (Len(u64_to_ascii(v)) + 3)
    PROVE  LET n == read_crlf_decimal(buf, d + 2)
           IN  /\ buf[d + 1] = prefix
               /\ IF Len(buf) \in {d + 1, d + Len(u64_to_ascii(v)) + 2}
                  THEN n.end = "error"
                  ELSE /\ n.end = "cut" /\ n.at = Len(buf) + 1 /\ n.val \in Nat
                       /\ v > 0 => n.val > 0
<1>. DEFINE u == u64_to_ascii(v)
            k == Len(u)
            idx == d + 2
            n == read_crlf_decimal(buf, idx)
            full == d + (k + 2)
<1>1. k \in Nat \ {0} /\ u \in Seq(STRING) /\ (\A i \in 1..k : is_digit(u[i]))
    BY AsciiType
<1>2. v > 0 => u[1] # "0"
    BY AsciiIs DEF IsAscii
<1>3. /\ d < Len(buf) => buf[d + 1] = prefix
      /\ \A i \in 1..k : (d + 1) + i <= Len(buf) => buf[(d + 1) + i] = u[i]
      /\ \A i \in 1..Len(CrLf) : (d + 1 + k) + i <= Len(buf) => buf[(d + 1 + k) + i] = CrLf[i]
    BY DEF HeaderLaid, Laid
<1>4. d < Len(buf) /\ Len(buf) < d + (k + 3) /\ Len(buf) \in Nat
    OBVIOUS
<1>. HIDE DEF u, k
<1>5. /\ idx \in 1..(Len(buf) + 1) /\ full \in Nat /\ idx \in Nat /\ full > idx
      /\ Len(buf) <= full
    BY <1>1, <1>4
<1>6. ASSUME NEW j \in idx..(full - 1), j <= Len(buf)
      PROVE  is_digit(buf[j]) /\ buf[j] = u[j - (d + 1)]
  <2>1. j - (d + 1) \in 1..k /\ (d + 1) + (j - (d + 1)) = j
    BY <1>1, <1>4
  <2>2. buf[j] = u[j - (d + 1)]
    BY <1>3, <1>6, <2>1
  <2>. QED BY <1>1, <2>1, <2>2
<1>7. CASE Len(buf) = full
  <2>1. ~is_digit(buf[full])
    <3>1. 1 \in 1..Len(CrLf) /\ (d + 1 + k) + 1 = full
      BY <1>1, ByteTypes
    <3>2. buf[full] = CrLf[1]
      BY <1>3, <1>7, <3>1
    <3>. QED BY <3>2, ByteTypes, NotDigits DEF RESP_CR
  <2>2. DigitsEnd(buf, idx) = full
    <3>1. full \in idx..(Len(buf) + 1)
      BY <1>5, <1>7
    <3>2. \A j \in idx..(full - 1) : is_digit(buf[j])
      <4>1. \A j \in idx..(full - 1) : j <= Len(buf)
        BY <1>5, <1>7
      <4>. QED BY <1>6, <4>1
    <3>. QED BY <1>5, <2>1, <3>1, <3>2, DigitsEndIs
  <2>3. n = Number("error", full, 0)
    <3>1. ~CrLfAt(buf, full)
      BY <1>5, <1>7 DEF CrLfAt
    <3>2. ~(full = idx) /\ ~(full > Len(buf))
      BY <1>5, <1>7
    <3>. QED BY <2>2, <3>1, <3>2, Zenon DEF read_crlf_decimal
  <2>4. n.end = "error"
    BY <2>3 DEF Number
  <2>5. full = d + k + 2
    BY <1>1
  <2>. HIDE DEF n, full
  <2>. QED BY <1>3, <1>4, <1>7, <2>4, <2>5 DEF n, k, u
<1>8. CASE Len(buf) < full
  <2>. DEFINE stop == Len(buf) + 1
              here == SubSeq(buf, idx, stop - 1)
  <2>1. stop \in idx..(Len(buf) + 1) /\ stop \in Nat /\ ~(stop <= Len(buf)) /\ stop > Len(buf)
    BY <1>4, <1>5
  <2>2. \A j \in idx..(stop - 1) : is_digit(buf[j]) /\ buf[j] = u[j - (d + 1)]
    <3>1. \A j \in idx..(stop - 1) : j \in idx..(full - 1) /\ j <= Len(buf)
      BY <1>4, <1>5, <1>8
    <3>. QED BY <1>6, <3>1
  <2>3. DigitsEnd(buf, idx) = stop
    BY <1>5, <2>1, <2>2, DigitsEndIs
  <2>. HIDE DEF stop
  <2>4. n = IF stop = idx THEN Number("error", stop, 0) ELSE Number("cut", stop, Decimal(here))
    BY <2>1, <2>3, Zenon DEF read_crlf_decimal
  <2>5. here \in Seq(Digits) /\ Len(here) = stop - idx
        /\ \A i \in 1..(stop - idx) : here[i] = buf[idx + i - 1]
    BY <1>5, <2>1, <2>2, DigitsAreDigits
  <2>. HIDE DEF here
  <2>6. full = d + k + 2 /\ ~(Len(buf) = d + k + 2)
    BY <1>1, <1>4, <1>8
  <2>7. CASE Len(buf) = d + 1
    <3>1. stop = idx
      BY <2>7 DEF stop
    <3>2. n.end = "error"
      BY <2>4, <3>1 DEF Number
    <3>. HIDE DEF n
    <3>. QED BY <1>3, <1>4, <2>7, <3>2 DEF n
  <2>8. CASE ~(Len(buf) = d + 1)
    <3>1. stop > idx
      BY <1>4, <2>8 DEF stop
    <3>2. Decimal(here) \in Nat
      BY <2>5, DecimalType
    <3>3. v > 0 => Decimal(here) > 0
      <4>1. SUFFICES ASSUME v > 0 PROVE Decimal(here) > 0
        OBVIOUS
      <4>2. 1 \in 1..(stop - idx) /\ idx + 1 - 1 = idx /\ idx \in idx..(stop - 1) /\ idx - (d + 1) = 1
            /\ Len(here) > 0
        BY <1>5, <2>1, <2>5, <3>1
      <4>3. here[1] = u[1]
        BY <2>2, <2>5, <4>2
      <4>4. here # <<>>
        BY <2>5, <4>2
      <4>5. Decimal(here) # 0
        BY <1>2, <2>5, <4>1, <4>3, <4>4, DecimalNotZero
      <4>. QED BY <3>2, <4>5
    <3>4. n.end = "cut" /\ n.at = stop /\ n.val = Decimal(here)
      <4>1. n = Number("cut", stop, Decimal(here))
        BY <1>5, <2>1, <2>4, <3>1
      <4>. HIDE DEF n
      <4>. QED BY <4>1 DEF Number
    <3>. HIDE DEF n
    <3>5. n.end = "cut" /\ n.at = Len(buf) + 1 /\ n.val \in Nat /\ (v > 0 => n.val > 0)
      BY <3>2, <3>3, <3>4 DEF stop
    <3>. QED BY <1>3, <1>4, <2>6, <2>8, <3>5 DEF n, k, u
  <2>. QED BY <2>7, <2>8
<1>. QED BY <1>5, <1>7, <1>8

\* The length of a request as far as the end of argument n.
Edge(args, n) == Len(EncodeUpTo(args, n))

LEMMA EncodeSteps ==
    ASSUME NEW args \in Seq(Seq(STRING))
    PROVE  /\ EncodeUpTo(args, 0) = Header(RESP_ARRAY_PREFIX, Len(args))
           /\ \A n \in 0..Len(args) : EncodeUpTo(args, n) \in Seq(STRING)
           /\ \A n \in 1..Len(args) :
                 EncodeUpTo(args, n) = EncodeUpTo(args, n - 1) \o Bulk(args[n])
<1>. DEFINE S == Seq(STRING)
            m == Len(args)
            passes == [i \in DOMAIN args |-> [bytes \in S |-> bytes \o Bulk(args[i])]]
            x == Header(RESP_ARRAY_PREFIX, m)
<1>1. m \in Nat /\ DOMAIN args = 1..m
    OBVIOUS
<1>2. x \in S
    BY <1>1, ByteTypes, HeaderPieces, Zenon
<1>3. \A i \in 1..m : Bulk(args[i]) \in S
    BY BulkPieces, ElementOfSeq
<1>4. \A i \in 1..m, bytes \in S : bytes \o Bulk(args[i]) \in S
    BY <1>3, ConcatProperties
<1>. HIDE DEF S, m
<1>5. PassesOn(S, passes, m)
    BY <1>1, <1>4 DEF PassesOn
<1>6. PassByPass(S, passes, x, m)
    BY <1>1, <1>2, <1>5, LoopSteps
<1>7. \A n : EncodeUpTo(args, n) = Loop(passes, x, n)
    BY DEF EncodeUpTo, S, m
<1>8. \A i \in 1..m, bytes \in S : passes[i][bytes] = bytes \o Bulk(args[i])
    BY <1>1
<1>. HIDE DEF passes, x
<1>9. ASSUME NEW n \in 1..m
      PROVE  Loop(passes, x, n) = Loop(passes, x, n - 1) \o Bulk(args[n])
  <2>1. n - 1 \in 0..m
    BY <1>1
  <2>2. Loop(passes, x, n) = passes[n][Loop(passes, x, n - 1)] /\ Loop(passes, x, n - 1) \in S
    BY <1>6, <2>1 DEF PassByPass
  <2>. QED BY <1>8, <2>2, Zenon
<1>. QED BY <1>6, <1>7, <1>9, Zenon DEF PassByPass, x, m, S

LEMMA EdgeSteps ==
    ASSUME NEW args \in Seq(Seq(STRING))
    PROVE  /\ Edge(args, 0) = Len(u64_to_ascii(Len(args))) + 3
           /\ \A n \in 0..Len(args) : Edge(args, n) \in Nat
           /\ \A n \in 1..Len(args) :
                 /\ args[n] \in Seq(STRING) /\ Len(u64_to_ascii(Len(args[n]))) \in Nat \ {0}
                 /\ Edge(args, n) = Edge(args, n - 1)
                                       + (Len(u64_to_ascii(Len(args[n]))) + 3 + Len(args[n]) + 2)
<1>. DEFINE m == Len(args)
<1>1. m \in Nat
    OBVIOUS
<1>2. Edge(args, 0) = Len(u64_to_ascii(m)) + 3
    BY <1>1, EncodeSteps, ByteTypes, HeaderPieces, Zenon DEF Edge
<1>3. \A n \in 0..m : Edge(args, n) \in Nat
    BY EncodeSteps DEF Edge
<1>4. ASSUME NEW n \in 1..m
      PROVE  /\ args[n] \in Seq(STRING) /\ Len(u64_to_ascii(Len(args[n]))) \in Nat \ {0}
             /\ Edge(args, n) = Edge(args, n - 1)
                                   + (Len(u64_to_ascii(Len(args[n]))) + 3 + Len(args[n]) + 2)
  <2>1. args[n] \in Seq(STRING)
    BY ElementOfSeq
  <2>2. Len(args[n]) \in Nat
    BY <2>1
  <2>3. Len(u64_to_ascii(Len(args[n]))) \in Nat \ {0}
    BY <2>2, AsciiType, Zenon
  <2>. DEFINE e == EncodeUpTo(args, n - 1)
              b == Bulk(args[n])
  <2>4. n - 1 \in 0..m
    BY <1>1
  <2>5. e \in Seq(STRING) /\ EncodeUpTo(args, n) = e \o b
    BY <2>4, EncodeSteps
  <2>6. b \in Seq(STRING) /\ Len(b) = Len(u64_to_ascii(Len(args[n]))) + 3 + Len(args[n]) + 2
    BY <2>1, BulkPieces, Zenon
  <2>. HIDE DEF b
  <2>7. Len(e \o b) = Len(e) + Len(b)
    BY <2>5, <2>6, ConcatProperties, Zenon
  <2>. QED BY <2>1, <2>3, <2>5, <2>6, <2>7, Zenon DEF Edge
<1>. QED BY <1>2, <1>3, <1>4, Zenon

\* The arguments of a request lie one behind the other.
LEMMA EdgeOrder ==
    ASSUME NEW args \in Seq(Seq(STRING)), NEW i \in 0..Len(args), NEW j \in i..Len(args)
    PROVE  Edge(args, i) <= Edge(args, j)
<1>. DEFINE m == Len(args)
            T == {n \in Nat : i + n <= m => Edge(args, i) <= Edge(args, i + n)}
<1>1. m \in Nat /\ i \in Nat /\ i <= m /\ Edge(args, i) \in Nat
  <2>1. m \in Nat /\ i \in Nat /\ i <= m
    OBVIOUS
  <2>. QED BY <2>1, EdgeSteps, Zenon
<1>2. 0 \in T
    BY <1>1
<1>3. ASSUME NEW n \in T PROVE n + 1 \in T
  <2>1. n \in Nat /\ n + 1 \in Nat
    OBVIOUS
  <2>2. SUFFICES ASSUME i + (n + 1) <= m PROVE Edge(args, i) <= Edge(args, i + (n + 1))
    BY <2>1
  <2>. DEFINE k == i + (n + 1)
              d == Edge(args, i + n)
              a == Len(u64_to_ascii(Len(args[k])))
              b == Len(args[k])
  <2>3. k \in 1..m /\ k - 1 = i + n /\ i + n \in 0..m /\ i + n <= m
    BY <1>1, <2>1, <2>2
  <2>. HIDE DEF k
  <2>4. d \in Nat /\ a \in Nat /\ args[k] \in Seq(STRING) /\ Edge(args, k) = d + (a + 3 + b + 2)
    BY <2>3, EdgeSteps, Zenon
  <2>5. b \in Nat
    BY <2>4
  <2>6. Edge(args, i) <= d
    BY <2>3
  <2>. HIDE DEF a, b, d
  <2>7. Edge(args, i) <= Edge(args, k)
    BY <1>1, <2>4, <2>5, <2>6
  <2>. QED BY <2>7 DEF k
<1>4. T \in SUBSET Nat
    OBVIOUS
<1>5. j - i \in T
  <2>1. j - i \in Nat
    BY <1>1
  <2>. HIDE DEF T
  <2>. QED BY <1>2, <1>3, <1>4, <2>1, SetInduction, Zenon
<1>6. i + (j - i) = j /\ j <= m
    BY <1>1
<1>. QED BY <1>5, <1>6

\* The header of a request and its arguments, where they lie in a buffer.
LEMMA EncodeLaid ==
    ASSUME NEW args \in Seq(Seq(STRING)), NEW buf, Laid(Encode(args), 0, buf)
    PROVE  /\ HeaderLaid(RESP_ARRAY_PREFIX, Len(args), 0, buf)
           /\ \A n \in 1..Len(args) : BulkLaid(args[n], Edge(args, n - 1), buf)
<1>. DEFINE m == Len(args)
            E(n) == EncodeUpTo(args, n)
            T == {j \in Nat : j <= m => Laid(E(m - j), 0, buf)}
<1>1. m \in Nat
    OBVIOUS
<1>2. ASSUME NEW n \in 1..m, Laid(E(n), 0, buf)
      PROVE  Laid(E(n - 1), 0, buf) /\ BulkLaid(args[n], Edge(args, n - 1), buf)
  <2>1. n - 1 \in 0..m /\ args[n] \in Seq(STRING)
    BY <1>1, ElementOfSeq
  <2>2. E(n - 1) \in Seq(STRING) /\ E(n) = E(n - 1) \o Bulk(args[n])
    BY <2>1, EncodeSteps
  <2>3. Bulk(args[n]) \in Seq(STRING)
    BY <2>1, BulkPieces
  <2>4. Laid(E(n - 1), 0, buf) /\ Laid(Bulk(args[n]), 0 + Len(E(n - 1)), buf)
    <3>. DEFINE e == E(n - 1)
                b == Bulk(args[n])
    <3>1. Laid(e \o b, 0, buf)
      BY <1>2, <2>2
    <3>. HIDE DEF e, b
    <3>2. e \in Seq(STRING) /\ b \in Seq(STRING)
      BY <2>2, <2>3 DEF e, b
    <3>3. Laid(e, 0, buf) /\ Laid(b, 0 + Len(e), buf)
      BY <3>1, <3>2, LaidPieces
    <3>. QED BY <3>3 DEF e, b
  <2>5. 0 + Len(E(n - 1)) = Edge(args, n - 1)
    BY <2>2 DEF Edge
  <2>. QED BY <2>1, <2>4, <2>5, BulkPieces
<1>3. 0 \in T
  <2>1. m - 0 = m
    BY <1>1
  <2>2. Laid(E(m - 0), 0, buf)
    BY <2>1 DEF Encode
  <2>. QED BY <2>2
<1>4. ASSUME NEW j \in T PROVE j + 1 \in T
  <2>1. j \in Nat /\ j + 1 \in Nat
    OBVIOUS
  <2>2. SUFFICES ASSUME j + 1 <= m PROVE Laid(E(m - (j + 1)), 0, buf)
    BY <2>1
  <2>3. m - j \in 1..m /\ (m - j) - 1 = m - (j + 1) /\ j <= m
    BY <1>1, <2>1, <2>2
  <2>4. Laid(E(m - j), 0, buf)
    BY <2>3
  <2>5. Laid(E((m - j) - 1), 0, buf)
    BY <1>2, <2>3, <2>4
  <2>. QED BY <2>3, <2>5
<1>5. T \in SUBSET Nat
    OBVIOUS
<1>6. \A j \in Nat : j \in T
  <2>. HIDE DEF T
  <2>. QED BY <1>3, <1>4, <1>5, SetInduction, Zenon
<1>7. ASSUME NEW n \in 0..m PROVE Laid(E(n), 0, buf)
  <2>1. m - n \in Nat /\ m - n <= m /\ m - (m - n) = n
    BY <1>1
  <2>2. Laid(E(m - (m - n)), 0, buf)
    BY <1>6, <2>1
  <2>. QED BY <2>1, <2>2
<1>8. HeaderLaid(RESP_ARRAY_PREFIX, m, 0, buf)
  <2>1. 0 \in 0..m
    BY <1>1
  <2>2. Laid(Header(RESP_ARRAY_PREFIX, m), 0, buf)
    BY <1>7, <2>1, EncodeSteps
  <2>. QED BY <1>1, <2>2, ByteTypes, HeaderPieces, Zenon
<1>9. ASSUME NEW n \in 1..m PROVE BulkLaid(args[n], Edge(args, n - 1), buf)
  <2>1. n \in 0..m
    BY <1>1
  <2>. QED BY <1>2, <1>7, <2>1
<1>. QED BY <1>8, <1>9

\* A bulk string that is there as a whole is skipped, and its bytes taken.
LEMMA BulkRead ==
    ASSUME NEW buf \in Seq(STRING), NEW d \in Nat, NEW arg \in Seq(STRING), BulkLaid(arg, d, buf),
           NEW next, next = d + (Len(u64_to_ascii(Len(arg))) + 3 + Len(arg) + 2) + 1,
           next <= Len(buf) + 1
    PROVE  IsBulk(buf, d + 1, next) /\ ArgAt(buf, d + 1) = arg
<1>. DEFINE v == Len(arg)
            k == Len(u64_to_ascii(v))
            body == d + (k + 3)
            at == body + 1
            len == read_crlf_decimal(buf, (d + 1) + 1)
<1>1. v \in Nat /\ Len(buf) \in Nat
    OBVIOUS
<1>2. k \in Nat \ {0}
    BY <1>1, AsciiType
<1>3. /\ HeaderLaid(RESP_BULK_PREFIX, v, d, buf)
      /\ \A i \in 1..v : body + i <= Len(buf) => buf[body + i] = arg[i]
      /\ \A i \in 1..Len(CrLf) : (body + v) + i <= Len(buf) => buf[(body + v) + i] = CrLf[i]
    BY DEF BulkLaid, Laid
<1>4. next = d + (k + 3 + v + 2) + 1 /\ next <= Len(buf) + 1
    OBVIOUS
<1>5. d + (k + 3) <= Len(buf)
  <2>. HIDE DEF v, k
  <2>. QED BY <1>1, <1>2, <1>4
<1>6. buf[d + 1] = RESP_BULK_PREFIX /\ len.end = "crlf" /\ len.at = at /\ len.val = v
  <2>1. buf[d + 1] = RESP_BULK_PREFIX /\ read_crlf_decimal(buf, d + 2) = Number("crlf", body + 1, v)
    BY <1>1, <1>3, <1>5, HeaderRead
  <2>2. (d + 1) + 1 = d + 2
    OBVIOUS
  <2>3. len = Number("crlf", at, v)
    BY <2>1, <2>2
  <2>. HIDE DEF len
  <2>. QED BY <2>1, <2>3 DEF Number
<1>. HIDE DEF v, k, len
<1>7. /\ body \in Nat /\ at \in Nat /\ at > (d + 1) + 3 /\ next = at + v + 2 /\ next \in Nat
      /\ d + 1 <= Len(buf) /\ at + v < Len(buf) /\ at + v + 1 <= Len(buf)
      /\ (body + v) + 1 = at + v /\ (body + v) + 2 = at + v + 1
    BY <1>1, <1>2, <1>4
<1>8. CrLfAt(buf, at + v)
  <2>1. 1 \in 1..Len(CrLf) /\ 2 \in 1..Len(CrLf)
    BY ByteTypes
  <2>2. buf[at + v] = CrLf[1] /\ buf[at + v + 1] = CrLf[2]
    <3>1. (body + v) + 1 <= Len(buf) /\ (body + v) + 2 <= Len(buf)
      BY <1>1, <1>7
    <3>2. buf[(body + v) + 1] = CrLf[1] /\ buf[(body + v) + 2] = CrLf[2]
      BY <1>3, <2>1, <3>1
    <3>. HIDE DEF at, body
    <3>. QED BY <1>7, <3>2
  <2>. QED BY <1>7, <2>2, ByteTypes DEF CrLfAt
<1>9. IsBulk(buf, d + 1, next)
    BY <1>1, <1>4, <1>6, <1>7, <1>8, Zenon DEF IsBulk, len
<1>. DEFINE here == SubSeq(buf, at, (at + v) - 1)
<1>10. ArgAt(buf, d + 1) = here
    BY <1>6, Zenon DEF ArgAt, len
<1>11. here = arg
  <2>1. at \in Int /\ (at + v) - 1 \in Int /\ \A i \in at..((at + v) - 1) : i \in 1..Len(buf)
    <3>. HIDE DEF at
    <3>1. at \in Nat /\ at >= 1 /\ (at + v) - 1 <= Len(buf)
      BY <1>1, <1>7
    <3>. QED BY <1>1, <3>1
  <2>2. \A i \in at..((at + v) - 1) : buf[i] \in STRING
    BY <2>1, ElementOfSeq
  <2>. DEFINE last == (at + v) - 1
  <2>3. last \in Int /\ \A i \in at..last : buf[i] \in STRING
    BY <2>1, <2>2
  <2>4. here = SubSeq(buf, at, last)
    OBVIOUS
  <2>. HIDE DEF last, here, at
  <2>5. /\ here \in Seq(STRING)
        /\ Len(here) = IF at <= last THEN last - at + 1 ELSE 0
        /\ \A i \in 1..(last - at + 1) : here[i] = buf[at + i - 1]
    BY <2>1, <2>3, <2>4, SubSeqProperties
  <2>6. last - at + 1 = v /\ (at <= last <=> v > 0)
    BY <1>1, <1>7 DEF last
  <2>7. Len(here) = v
    BY <1>1, <2>5, <2>6
  <2>8. ASSUME NEW i \in 1..v PROVE here[i] = arg[i]
    <3>1. at + i - 1 = body + i /\ body + i <= Len(buf)
      BY <1>1, <1>7, SMTT(30) DEF at
    <3>2. here[i] = buf[at + i - 1]
      BY <2>5, <2>6
    <3>. HIDE DEF body
    <3>. QED BY <1>3, <3>1, <3>2
  <2>. QED BY <2>5, <2>7, <2>8, SeqEqual DEF v
<1>. QED BY <1>9, <1>10, <1>11, Zenon

\* A bulk string that the buffer ends in is waited for, unless its header
\* is torn.
LEMMA BulkCut ==
    ASSUME NEW buf \in Seq(STRING), NEW d \in Nat, NEW arg \in Seq(STRING), BulkLaid(arg, d, buf),
           d <= Len(buf), Len(buf) < d + (Len(u64_to_ascii(Len(arg))) + 3 + Len(arg) + 2)
    PROVE  BulkAt(buf, d + 1).status =
              IF Len(buf) \in {d + 1, d + Len(u64_to_ascii(Len(arg))) + 2}
              THEN "error" ELSE "incomplete"
<1>. DEFINE v == Len(arg)
            k == Len(u64_to_ascii(v))
            idx == d + 1
            len == read_crlf_decimal(buf, idx + 1)
            end == len.at + len.val
            torn == Len(buf) \in {d + 1, d + k + 2}
<1>1. v \in Nat /\ Len(buf) \in Nat
    OBVIOUS
<1>2. k \in Nat \ {0}
    BY <1>1, AsciiType
<1>3. HeaderLaid(RESP_BULK_PREFIX, v, d, buf)
    BY DEF BulkLaid
<1>4. d <= Len(buf) /\ Len(buf) < d + (k + 3 + v + 2)
    OBVIOUS
<1>5. BulkAt(buf, idx) =
        IF idx > Len(buf) THEN Place("incomplete", idx)
        ELSE IF buf[idx] # RESP_BULK_PREFIX \/ len.end = "error" THEN Place("error", idx)
        ELSE IF end + 1 > Len(buf) THEN Place("incomplete", idx)
        ELSE IF ~CrLfAt(buf, end) THEN Place("error", idx)
        ELSE Place("complete", end + 2)
    BY DEF BulkAt
<1>6. /\ Place("incomplete", idx).status = "incomplete"
      /\ Place("error", idx).status = "error"
    BY DEF Place
<1>7. idx + 1 = d + 2
    OBVIOUS
<1>8. CASE d = Len(buf)
  <2>. HIDE DEF v, k, len, end
  <2>1. idx > Len(buf) /\ ~torn
    BY <1>1, <1>2, <1>8
  <2>2. BulkAt(buf, idx) = Place("incomplete", idx)
    BY <1>5, <2>1
  <2>3. BulkAt(buf, idx).status = "incomplete"
    BY <1>6, <2>2
  <2>. QED BY <2>1, <2>3 DEF k, v
<1>9. CASE d < Len(buf) /\ Len(buf) < d + (k + 3)
  <2>1. /\ buf[idx] = RESP_BULK_PREFIX
        /\ IF torn THEN len.end = "error"
           ELSE len.end = "cut" /\ len.at = Len(buf) + 1 /\ len.val \in Nat
    <3>. DEFINE n == read_crlf_decimal(buf, d + 2)
    <3>1. /\ buf[d + 1] = RESP_BULK_PREFIX
          /\ IF torn THEN n.end = "error"
             ELSE n.end = "cut" /\ n.at = Len(buf) + 1 /\ n.val \in Nat
      BY <1>1, <1>3, <1>9, HeaderCut
    <3>2. len = n
      BY <1>7
    <3>. HIDE DEF len, n
    <3>. QED BY <3>1, <3>2
  <2>. HIDE DEF v, k, len
  <2>2. ~(idx > Len(buf))
    BY <1>1, <1>9
  <2>3. CASE torn
    <3>1. BulkAt(buf, idx) = Place("error", idx)
      BY <1>5, <2>1, <2>2, <2>3
    <3>2. BulkAt(buf, idx).status = "error"
      BY <1>6, <3>1
    <3>. QED BY <2>3, <3>2 DEF k, v
  <2>4. CASE ~torn
    <3>1. len.end = "cut" /\ len.at = Len(buf) + 1 /\ len.val \in Nat
      BY <2>1, <2>4
    <3>2. end + 1 > Len(buf) /\ ~(len.end = "error")
      BY <1>1, <3>1
    <3>3. BulkAt(buf, idx) = Place("incomplete", idx)
      BY <1>5, <2>1, <2>2, <3>2
    <3>4. BulkAt(buf, idx).status = "incomplete"
      BY <1>6, <3>3
    <3>. QED BY <2>4, <3>4 DEF k, v
  <2>. QED BY <2>3, <2>4
<1>10. CASE d + (k + 3) <= Len(buf)
  <2>1. buf[idx] = RESP_BULK_PREFIX /\ len = Number("crlf", d + (k + 3) + 1, v)
    <3>1. buf[d + 1] = RESP_BULK_PREFIX
          /\ read_crlf_decimal(buf, d + 2) = Number("crlf", d + (k + 3) + 1, v)
      BY <1>1, <1>3, <1>10, HeaderRead
    <3>. QED BY <1>7, <3>1
  <2>. HIDE DEF v, k, len
  <2>2. len.end = "crlf" /\ len.at = d + (k + 3) + 1 /\ len.val = v
    BY <2>1 DEF Number
  <2>3. ~(idx > Len(buf)) /\ end + 1 > Len(buf) /\ ~torn
    BY <1>1, <1>2, <1>4, <1>10, <2>2
  <2>4. BulkAt(buf, idx) = Place("incomplete", idx)
    BY <1>5, <2>1, <2>2, <2>3
  <2>5. BulkAt(buf, idx).status = "incomplete"
    BY <1>6, <2>4
  <2>. QED BY <2>3, <2>5 DEF k, v
<1>11. d = Len(buf) \/ (d < Len(buf) /\ Len(buf) < d + (k + 3)) \/ d + (k + 3) <= Len(buf)
  <2>. HIDE DEF v, k
  <2>. QED BY <1>1, <1>2, <1>4
<1>. QED BY <1>8, <1>9, <1>10, <1>11

\* The first n arguments of a request, as both parsers go through them.
ReadUpTo(args, buf, n) ==
    LET from == Edge(args, 0) + 1
        t == TakesFrom(buf, from, n)
    IN  /\ BulksFrom(buf, from, n) = Place("complete", Edge(args, n) + 1)
        /\ t.ok /\ t.idx = Edge(args, n) + 1
        /\ Len(t.args) = n /\ \A i \in 1..n : t.args[i] = args[i]

LEMMA RequestRead ==
    ASSUME NEW args \in Seq(Seq(STRING)), NEW buf \in Seq(STRING), Laid(Encode(args), 0, buf),
           NEW n \in 0..Len(args), Edge(args, n) <= Len(buf)
    PROVE  ReadUpTo(args, buf, n)
<1>. DEFINE m == Len(args)
            from == Edge(args, 0) + 1
            B(k) == BulksFrom(buf, from, k)
            A(k) == TakesFrom(buf, from, k)
            T == {k \in Nat : k <= m /\ Edge(args, k) <= Len(buf) => ReadUpTo(args, buf, k)}
<1>1. m \in Nat /\ Len(buf) \in Nat
    OBVIOUS
<1>2. from \in Nat
  <2>1. 0 \in 0..m
    BY <1>1
  <2>2. Edge(args, 0) \in Nat
    BY <2>1, EdgeSteps, Zenon
  <2>. QED BY <2>2
<1>3. /\ B(0) = Place("complete", from)
      /\ \A k \in Nat : B(k + 1) = IF B(k).status = "complete"
                                   THEN BulkAt(buf, B(k).idx) ELSE B(k)
    BY <1>2, BulksSteps, Zenon
<1>4. /\ A(0) = Taken(TRUE, from, <<>>) /\ \A k \in Nat : A(k) \in Takens
      /\ \A k \in Nat : A(k + 1) = TakeBulk(buf)[A(k)]
    BY <1>2, TakesSteps, Zenon
<1>5. 0 \in T
  <2>. HIDE DEF A, B, from
  <2>1. A(0).ok /\ A(0).idx = from /\ A(0).args = <<>>
    BY <1>4 DEF Taken
  <2>2. Len(<<>>) = 0 /\ 1..0 = {}
    OBVIOUS
  <2>3. Len(A(0).args) = 0 /\ \A i \in 1..0 : A(0).args[i] = args[i]
    BY <2>1, <2>2
  <2>4. ReadUpTo(args, buf, 0)
    BY <1>3, <2>1, <2>3, Zenon DEF ReadUpTo, A, B, from
  <2>. QED BY <2>4
<1>6. ASSUME NEW k \in T PROVE k + 1 \in T
  <2>1. k \in Nat /\ k + 1 \in Nat
    OBVIOUS
  <2>2. SUFFICES ASSUME k + 1 <= m, Edge(args, k + 1) <= Len(buf)
                 PROVE  ReadUpTo(args, buf, k + 1)
    BY <2>1
  <2>. DEFINE arg == args[k + 1]
              d == Edge(args, k)
              next == Edge(args, k + 1) + 1
  <2>3. k + 1 \in 1..m /\ (k + 1) - 1 = k /\ k \in 0..m /\ k <= m
    BY <1>1, <2>1, <2>2
  <2>4. /\ arg \in Seq(STRING) /\ d \in Nat /\ Len(u64_to_ascii(Len(arg))) \in Nat
        /\ Edge(args, k + 1) = d + (Len(u64_to_ascii(Len(arg))) + 3 + Len(arg) + 2)
    BY <2>3, EdgeSteps, Zenon
  <2>5. BulkLaid(arg, d, buf)
    BY <2>3, EncodeLaid
  <2>. HIDE DEF arg, d
  <2>6. d <= Len(buf) /\ next \in Nat /\ next <= Len(buf) + 1 /\ Len(arg) \in Nat
        /\ next = d + (Len(u64_to_ascii(Len(arg))) + 3 + Len(arg) + 2) + 1
    <3>. DEFINE a == Len(u64_to_ascii(Len(arg)))
                b == Len(arg)
                e == Edge(args, k + 1)
    <3>1. a \in Nat /\ b \in Nat /\ e = d + (a + 3 + b + 2) /\ e <= Len(buf) /\ next = e + 1
      BY <2>2, <2>4
    <3>. HIDE DEF a, b, e, next
    <3>2. d <= Len(buf) /\ next \in Nat /\ next <= Len(buf) + 1 /\ next = d + (a + 3 + b + 2) + 1
      BY <1>1, <2>4, <3>1
    <3>. QED BY <3>1, <3>2 DEF a, b
  <2>7. ReadUpTo(args, buf, k)
    BY <2>3, <2>6 DEF d
  <2>8. /\ B(k) = Place("complete", d + 1) /\ A(k).ok /\ A(k).idx = d + 1
        /\ Len(A(k).args) = k /\ \A i \in 1..k : A(k).args[i] = args[i]
    BY <2>7 DEF ReadUpTo, d
  <2>9. IsBulk(buf, d + 1, next) /\ ArgAt(buf, d + 1) = arg
    <3>. HIDE DEF next
    <3>. QED BY <2>4, <2>5, <2>6, BulkRead
  <2>. HIDE DEF next
  <2>10. B(k + 1) = Place("complete", next)
    <3>1. BulkAt(buf, d + 1) = Place("complete", next)
      BY <2>4, <2>9, BulkIs
    <3>2. B(k).status = "complete" /\ B(k).idx = d + 1
      BY <2>8 DEF Place
    <3>. HIDE DEF B
    <3>. QED BY <1>3, <2>1, <3>1, <3>2, Zenon
  <2>. HIDE DEF A, B
  <2>11. A(k) \in Takens /\ A(k).args \in Seq(Seq(STRING))
    BY <1>4, <2>1, Zenon DEF Takens
  <2>12. A(k + 1) = Taken(TRUE, next, Append(A(k).args, arg))
    <3>1. TakeBulk(buf)[A(k)] = Taken(TRUE, next, Append(A(k).args, ArgAt(buf, A(k).idx)))
      BY <2>6, <2>8, <2>9, <2>11, TakeIs, Zenon
    <3>. QED BY <1>4, <2>1, <2>8, <2>9, <3>1, Zenon
  <2>13. A(k + 1).ok /\ A(k + 1).idx = next /\ A(k + 1).args = Append(A(k).args, arg)
    BY <2>12 DEF Taken
  <2>. DEFINE w == Append(A(k).args, arg)
  <2>14. Len(w) = k + 1 /\ \A i \in 1..(k + 1) : w[i] = args[i]
    <3>1. /\ Len(w) = Len(A(k).args) + 1 /\ w[Len(A(k).args) + 1] = arg
          /\ \A i \in 1..Len(A(k).args) : w[i] = A(k).args[i]
      BY <2>4, <2>11, AppendProperties
    <3>. HIDE DEF w
    <3>2. Len(w) = k + 1 /\ w[k + 1] = args[k + 1] /\ \A i \in 1..k : w[i] = args[i]
      BY <2>8, <3>1 DEF arg
    <3>3. \A i \in 1..(k + 1) : i \in 1..k \/ i = k + 1
      BY <2>1
    <3>. QED BY <3>2, <3>3, Zenon
  <2>. HIDE DEF w
  <2>15. Len(A(k + 1).args) = k + 1 /\ \A i \in 1..(k + 1) : A(k + 1).args[i] = args[i]
    BY <2>13, <2>14, Zenon DEF w
  <2>. QED BY <2>10, <2>13, <2>15 DEF ReadUpTo, A, B, next
<1>7. T \in SUBSET Nat
    OBVIOUS
<1>8. n \in T
  <2>. HIDE DEF T
  <2>1. n \in Nat
    BY <1>1
  <2>. QED BY <1>5, <1>6, <1>7, <2>1, SetInduction, Zenon
<1>9. n <= m
    BY <1>1
<1>. QED BY <1>8, <1>9

\* The beginning of a buffer, up to the end of what is laid out there.
LEMMA LaidWithin ==
    ASSUME NEW s, NEW buf \in Seq(STRING), Laid(s, 0, buf), Len(s) <= Len(buf)
    PROVE  LET sub == SubSeq(buf, 1, Len(s))
           IN  sub \in Seq(STRING) /\ Len(sub) = Len(s) /\ Laid(s, 0, sub)
<1>. DEFINE k == Len(s)
            sub == SubSeq(buf, 1, k)
<1>1. s \in Seq(STRING) /\ k \in Nat /\ Len(buf) \in Nat /\ k <= Len(buf)
    BY DEF Laid
<1>. HIDE DEF k
<1>2. 1 \in Int /\ k \in Int /\ \A i \in 1..k : i \in 1..Len(buf)
    BY <1>1
<1>3. \A i \in 1..k : buf[i] \in STRING
    BY <1>2, ElementOfSeq
<1>4. /\ sub \in Seq(STRING)
      /\ Len(sub) = IF 1 <= k THEN k - 1 + 1 ELSE 0
      /\ \A i \in 1..(k - 1 + 1) : sub[i] = buf[1 + i - 1]
    BY <1>2, <1>3, SubSeqProperties
<1>. HIDE DEF sub
<1>5. k - 1 + 1 = k /\ (1 <= k \/ k = 0) /\ \A i \in 1..k : 1 + i - 1 = i
    BY <1>1
<1>6. Len(sub) = k /\ \A i \in 1..k : sub[i] = buf[i]
    BY <1>4, <1>5
<1>7. ASSUME NEW i \in 1..k PROVE sub[0 + i] = s[i]
  <2>1. 0 + i = i /\ 0 + i <= Len(buf) /\ i \in 1..Len(s)
    BY <1>1 DEF k
  <2>2. buf[0 + i] = s[i]
    BY <2>1 DEF Laid
  <2>. QED BY <1>6, <2>1, <2>2
<1>8. Laid(s, 0, sub)
    BY <1>1, <1>4, <1>7 DEF Laid, k
<1>. QED BY <1>4, <1>6, <1>8 DEF k, sub

\* A request that is there as a whole, as both parsers read it.
LEMMA RequestRoundTrip ==
    ASSUME NEW args \in Seq(Seq(STRING)), NEW buf \in Seq(STRING), Laid(Encode(args), 0, buf),
           Len(Encode(args)) <= Len(buf)
    PROVE  /\ parseRespMessageLength(buf, 1) = Parse("complete", Len(Encode(args)))
           /\ parseRespCommand(buf) = IF Len(args) \in 1..3 THEN args ELSE NoCommand
<1>. DEFINE m == Len(args)
            k == Len(u64_to_ascii(m))
            from == Edge(args, 0) + 1
            last == Edge(args, m)
            n == read_crlf_decimal(buf, 1 + 1)
<1>1. m \in Nat /\ Len(buf) \in Nat
    OBVIOUS
<1>2. k \in Nat \ {0}
    BY <1>1, AsciiType
<1>3. Edge(args, 0) = k + 3 /\ last \in Nat /\ last = Len(Encode(args)) /\ last <= Len(buf)
  <2>1. m \in 0..m
    BY <1>1
  <2>2. last = Len(Encode(args))
    BY DEF Encode, Edge
  <2>. QED BY <2>1, <2>2, EdgeSteps, Zenon
<1>4. ReadUpTo(args, buf, m)
  <2>1. m \in 0..Len(args)
    BY <1>1
  <2>. QED BY <1>3, <2>1, RequestRead
<1>. DEFINE t == TakesFrom(buf, from, m)
<1>5. /\ BulksFrom(buf, from, m) = Place("complete", last + 1)
      /\ t.ok /\ Len(t.args) = m /\ \A i \in 1..m : t.args[i] = args[i]
    BY <1>4 DEF ReadUpTo
<1>6. from \in Nat /\ k + 3 <= Len(buf)
  <2>1. from \in Nat
    BY <1>2, <1>3
  <2>2. BulksFrom(buf, from, m).status = "complete" /\ BulksFrom(buf, from, m).idx = last + 1
    BY <1>5 DEF Place
  <2>3. last + 1 >= from
    <3>1. Edge(args, 0) <= last
      <4>1. 0 \in 0..m /\ m \in 0..m
        BY <1>1
      <4>. QED BY <4>1, EdgeOrder
    <3>. HIDE DEF last, k
    <3>. QED BY <1>2, <1>3, <3>1
  <2>. HIDE DEF last, k
  <2>. QED BY <1>1, <1>2, <1>3, <2>1, <2>3
<1>7. buf[1] = RESP_ARRAY_PREFIX /\ n.end = "crlf" /\ n.at = from /\ n.val = m
  <2>1. HeaderLaid(RESP_ARRAY_PREFIX, m, 0, buf)
    BY EncodeLaid
  <2>2. 0 + (k + 3) <= Len(buf)
    <3>. HIDE DEF k
    <3>. QED BY <1>2, <1>6
  <2>3. buf[0 + 1] = RESP_ARRAY_PREFIX
        /\ read_crlf_decimal(buf, 0 + 2) = Number("crlf", 0 + (k + 3) + 1, m)
    BY <1>1, <2>1, <2>2, HeaderRead
  <2>4. 0 + 1 = 1 /\ 0 + 2 = 1 + 1 /\ 0 + (k + 3) + 1 = from
    <3>. HIDE DEF k
    <3>. QED BY <1>2, <1>3
  <2>5. n = Number("crlf", from, m)
    BY <2>3, <2>4
  <2>. HIDE DEF n, from
  <2>. QED BY <2>3, <2>4, <2>5 DEF Number
<1>8. parseRespMessageLength(buf, 1) = Parse("complete", last)
  <2>. DEFINE p == BulksFrom(buf, n.at, n.val)
  <2>1. parseRespMessageLength(buf, 1) =
          IF 1 > Len(buf) \/ buf[1] # RESP_ARRAY_PREFIX \/ n.end = "error"
          THEN Parse("error", 0)
          ELSE Parse(p.status, IF p.status = "complete" THEN p.idx - 1 ELSE 0)
    BY Zenon DEF parseRespMessageLength, BulksFrom
  <2>. HIDE DEF n, from, last, k
  <2>2. p = Place("complete", last + 1)
    BY <1>5, <1>7
  <2>3. p.status = "complete" /\ p.idx = last + 1
    BY <2>2 DEF Place
  <2>. HIDE DEF p
  <2>4. ~(1 > Len(buf)) /\ p.idx - 1 = last /\ n.end # "error"
    BY <1>1, <1>2, <1>3, <1>6, <1>7, <2>3
  <2>. QED BY <1>7, <2>1, <2>3, <2>4, Zenon
<1>9. parseRespCommand(buf) = IF m \in 1..3 THEN args ELSE NoCommand
  <2>1. t.args = args
    <3>1. t \in Takens
      BY <1>1, <1>6, TakesSteps, Zenon
    <3>2. t.args \in Seq(Seq(STRING))
      <4>. HIDE DEF t
      <4>. QED BY <3>1 DEF Takens
    <3>. HIDE DEF t
    <3>. QED BY <1>5, <3>2, SeqEqual, Zenon DEF m
  <2>2. n = read_crlf_decimal(buf, 2)
    OBVIOUS
  <2>. DEFINE r == TakesFrom(buf, n.at, n.val)
  <2>. HIDE DEF n
  <2>3. parseRespCommand(buf) =
           IF \/ buf = <<>> \/ buf[1] # RESP_ARRAY_PREFIX
              \/ n.end # "crlf" \/ n.val < 1 \/ n.val > 3 \/ ~r.ok
           THEN NoCommand ELSE r.args
    BY <2>2, Zenon DEF parseRespCommand, TakesFrom
  <2>. HIDE DEF t, from, m, k
  <2>4. r = t
    BY <1>7 DEF t
  <2>5. buf # <<>>
    BY <1>2, <1>6
  <2>6. parseRespCommand(buf) = IF m < 1 \/ m > 3 THEN NoCommand ELSE args
    <3>. HIDE DEF r
    <3>. QED BY <1>5, <1>7, <2>1, <2>3, <2>4, <2>5, Zenon
  <2>7. (m < 1 \/ m > 3) <=> ~(m \in 1..3)
    BY <1>1
  <2>. QED BY <2>6, <2>7
<1>. QED BY <1>3, <1>8, <1>9

\* A parser that has stopped stays where it is.
LEMMA BulksStay ==
    ASSUME NEW buf \in Seq(STRING), NEW idx \in Nat, NEW n \in Nat, NEW m \in Nat, n <= m,
           BulksFrom(buf, idx, n).status # "complete"
    PROVE  BulksFrom(buf, idx, m) = BulksFrom(buf, idx, n)
<1>. DEFINE B(k) == BulksFrom(buf, idx, k)
            T == {k \in Nat : B(n + k) = B(n)}
<1>1. \A k \in Nat : B(k + 1) = IF B(k).status = "complete" THEN BulkAt(buf, B(k).idx) ELSE B(k)
    BY BulksSteps
<1>2. B(n).status # "complete"
    OBVIOUS
<1>. HIDE DEF B
<1>3. 0 \in T
    OBVIOUS
<1>4. ASSUME NEW k \in T PROVE k + 1 \in T
  <2>1. n + k \in Nat /\ n + (k + 1) = (n + k) + 1 /\ k + 1 \in Nat /\ B(n + k) = B(n)
    OBVIOUS
  <2>2. B((n + k) + 1) = B(n + k)
    BY <1>1, <1>2, <2>1, Zenon
  <2>. QED BY <2>1, <2>2
<1>5. T \in SUBSET Nat
    OBVIOUS
<1>6. m - n \in T
  <2>1. m - n \in Nat
    OBVIOUS
  <2>. HIDE DEF T
  <2>. QED BY <1>3, <1>4, <1>5, <2>1, SetInduction, Zenon
<1>7. n + (m - n) = m
    OBVIOUS
<1>. QED BY <1>6, <1>7 DEF B

\* Which headers a cut tears: only the one it falls into.
LEMMA TornHeader ==
    ASSUME NEW args \in Seq(Seq(STRING)), NEW size \in Nat
    PROVE  /\ size < Edge(args, 0) =>
                 (Torn(args, size) <=> size \in {1, Len(u64_to_ascii(Len(args))) + 2})
           /\ \A j \in 1..Len(args) :
                 Edge(args, j - 1) <= size /\ size < Edge(args, j) =>
                    (Torn(args, size) <=>
                        size \in {Edge(args, j - 1) + 1,
                                  Edge(args, j - 1) + Len(u64_to_ascii(Len(args[j]))) + 2})
<1>. DEFINE m == Len(args)
            start(i) == IF i = 0 THEN 0 ELSE Edge(args, i - 1)
            digits(i) == Len(u64_to_ascii(IF i = 0 THEN m ELSE Len(args[i])))
            Tears(i) == size \in {start(i) + 1, start(i) + digits(i) + 2}
<1>1. m \in Nat
    OBVIOUS
<1>2. Torn(args, size) <=> \E i \in 0..m : Tears(i)
    BY Zenon DEF Torn, Edge
<1>3. ASSUME NEW i \in 0..m, Tears(i)
      PROVE  start(i) < size /\ size < Edge(args, i)
  <2>1. CASE i = 0
    <3>. DEFINE k == Len(u64_to_ascii(m))
    <3>1. k \in Nat \ {0}
      BY <1>1, AsciiType
    <3>2. Edge(args, 0) = k + 3 /\ start(0) = 0 /\ digits(0) = k
      BY EdgeSteps, Zenon
    <3>. HIDE DEF k, start, digits
    <3>. QED BY <1>3, <2>1, <3>1, <3>2
  <2>2. CASE i # 0
    <3>. DEFINE k == Len(u64_to_ascii(Len(args[i])))
                d == Edge(args, i - 1)
    <3>1. i \in 1..m /\ i - 1 \in 0..m
      BY <1>1, <2>2
    <3>2. /\ d \in Nat /\ k \in Nat \ {0} /\ args[i] \in Seq(STRING)
          /\ Edge(args, i) = d + (k + 3 + Len(args[i]) + 2)
      BY <3>1, EdgeSteps, Zenon
    <3>3. start(i) = d /\ digits(i) = k /\ Len(args[i]) \in Nat
      BY <2>2, <3>2
    <3>. DEFINE v == Len(args[i])
                e == Edge(args, i)
    <3>4. d \in Nat /\ k \in Nat \ {0} /\ v \in Nat /\ e = d + (k + 3 + v + 2)
      BY <3>2, <3>3
    <3>5. size = start(i) + 1 \/ size = start(i) + digits(i) + 2
      BY <1>3
    <3>. HIDE DEF k, d, v, e, start, digits
    <3>6. start(i) < size /\ size < e
      BY <3>3, <3>4, <3>5
    <3>. QED BY <3>6 DEF e
  <2>. QED BY <2>1, <2>2
<1>4. ASSUME size < Edge(args, 0)
      PROVE  Torn(args, size) <=> size \in {1, Len(u64_to_ascii(m)) + 2}
  <2>1. Tears(0) <=> size \in {1, Len(u64_to_ascii(m)) + 2}
    <3>1. start(0) = 0 /\ digits(0) = Len(u64_to_ascii(m)) /\ Len(u64_to_ascii(m)) \in Nat
      BY <1>1, AsciiType
    <3>. HIDE DEF start, digits
    <3>2. start(0) + 1 = 1 /\ start(0) + digits(0) + 2 = Len(u64_to_ascii(m)) + 2
      BY <3>1
    <3>. QED BY <3>2
  <2>2. ASSUME NEW i \in 0..m, Tears(i) PROVE i = 0
    <3>1. SUFFICES ASSUME i # 0 PROVE FALSE
      OBVIOUS
    <3>2. i - 1 \in 0..m /\ 0 \in 0..m /\ i - 1 \in 0..Len(args)
      BY <1>1, <3>1
    <3>3. Edge(args, 0) <= Edge(args, i - 1)
      BY <3>2, EdgeOrder
    <3>4. Edge(args, i - 1) < size
      BY <1>3, <2>2, <3>1
    <3>5. Edge(args, 0) \in Nat /\ Edge(args, i - 1) \in Nat
      BY <3>2, EdgeSteps, Zenon
    <3>. QED BY <1>4, <3>3, <3>4, <3>5
  <2>3. 0 \in 0..m
    BY <1>1
  <2>. HIDE DEF Tears
  <2>. QED BY <1>2, <2>1, <2>2, <2>3
<1>5. ASSUME NEW j \in 1..m, Edge(args, j - 1) <= size, size < Edge(args, j)
      PROVE  Torn(args, size) <=> size \in {Edge(args, j - 1) + 1,
                                            Edge(args, j - 1) + Len(u64_to_ascii(Len(args[j]))) + 2}
  <2>1. j \in 0..m /\ j - 1 \in 0..m /\ j # 0
    BY <1>1
  <2>2. Tears(j) <=> size \in {Edge(args, j - 1) + 1,
                               Edge(args, j - 1) + Len(u64_to_ascii(Len(args[j]))) + 2}
    BY <2>1, Zenon
  <2>3. ASSUME NEW i \in 0..m, Tears(i) PROVE i = j
    <3>1. start(i) < size /\ size < Edge(args, i)
      BY <1>3, <2>3
    <3>2. Edge(args, i) \in Nat /\ Edge(args, j) \in Nat /\ Edge(args, j - 1) \in Nat
      BY <2>1, EdgeSteps, Zenon
    <3>3. CASE i < j
      <4>1. j - 1 \in i..Len(args)
        BY <1>1, <3>3
      <4>2. Edge(args, i) <= Edge(args, j - 1)
        BY <4>1, EdgeOrder
      <4>. HIDE DEF start
      <4>. QED BY <1>5, <3>1, <3>2, <4>2
    <3>4. CASE i > j
      <4>1. i # 0 /\ i - 1 \in j..Len(args) /\ i - 1 \in 0..m /\ j \in 0..Len(args)
        BY <1>1, <3>4
      <4>2. Edge(args, j) <= Edge(args, i - 1)
        BY <4>1, EdgeOrder
      <4>3. Edge(args, i - 1) < size /\ Edge(args, i - 1) \in Nat
        BY <3>1, <4>1, EdgeSteps, Zenon
      <4>. HIDE DEF start
      <4>. QED BY <1>5, <3>2, <4>2, <4>3
    <3>. HIDE DEF start, Tears
    <3>. QED BY <1>1, <3>3, <3>4
  <2>. HIDE DEF Tears
  <2>. QED BY <1>2, <2>1, <2>2, <2>3
<1>. QED BY <1>4, <1>5

\* A request of which the end is missing: the parser waits for the rest,
\* unless a header is torn.
LEMMA RequestCut ==
    ASSUME NEW args \in Seq(Seq(STRING)), Len(args) >= 1,
           NEW buf \in Seq(STRING), Laid(Encode(args), 0, buf),
           1 <= Len(buf), Len(buf) < Len(Encode(args))
    PROVE  parseRespMessageLength(buf, 1).status =
              IF Torn(args, Len(buf)) THEN "error" ELSE "incomplete"
<1>. DEFINE m == Len(args)
            k == Len(u64_to_ascii(m))
            size == Len(buf)
            from == Edge(args, 0) + 1
            n == read_crlf_decimal(buf, 1 + 1)
            p == BulksFrom(buf, n.at, n.val)
            r == parseRespMessageLength(buf, 1)
<1>1. m \in Nat /\ m >= 1 /\ size \in Nat /\ size >= 1
    OBVIOUS
<1>2. k \in Nat \ {0}
    BY <1>1, AsciiType
<1>3. Edge(args, 0) = k + 3 /\ size < Edge(args, m) /\ Edge(args, m) \in Nat
  <2>1. m \in 0..m
    BY <1>1
  <2>2. Edge(args, m) = Len(Encode(args))
    BY DEF Encode, Edge
  <2>. QED BY <2>1, <2>2, EdgeSteps, Zenon
<1>4. r = IF 1 > Len(buf) \/ buf[1] # RESP_ARRAY_PREFIX \/ n.end = "error"
          THEN Parse("error", 0)
          ELSE Parse(p.status, IF p.status = "complete" THEN p.idx - 1 ELSE 0)
    BY Zenon DEF parseRespMessageLength, BulksFrom
<1>5. HeaderLaid(RESP_ARRAY_PREFIX, m, 0, buf)
      /\ \A i \in 1..m : BulkLaid(args[i], Edge(args, i - 1), buf)
    BY EncodeLaid
<1>6. 0 + 1 = 1 /\ 0 + 2 = 1 + 1 /\ ~(1 > Len(buf))
    BY <1>1
<1>7. CASE size < Edge(args, 0)
  <2>1. Torn(args, size) <=> size \in {1, k + 2}
    BY <1>1, <1>7, TornHeader, Zenon
  <2>2. /\ buf[1] = RESP_ARRAY_PREFIX
        /\ IF Torn(args, size) THEN n.end = "error"
           ELSE n.end = "cut" /\ n.at = size + 1 /\ n.val \in Nat /\ n.val > 0
    <3>. DEFINE q == read_crlf_decimal(buf, 0 + 2)
    <3>1. 0 < size /\ size < 0 + (k + 3)
      <4>. HIDE DEF k, size
      <4>. QED BY <1>1, <1>2, <1>3, <1>7
    <3>2. /\ buf[0 + 1] = RESP_ARRAY_PREFIX
          /\ IF size \in {0 + 1, 0 + k + 2} THEN q.end = "error"
             ELSE q.end = "cut" /\ q.at = size + 1 /\ q.val \in Nat /\ (m > 0 => q.val > 0)
      BY <1>1, <1>5, <3>1, HeaderCut, Zenon
    <3>3. 0 + k + 2 = k + 2 /\ m > 0
      <4>. HIDE DEF k
      <4>. QED BY <1>1, <1>2
    <3>4. q = n
      BY <1>6
    <3>. HIDE DEF q, n, k, size
    <3>. QED BY <1>6, <2>1, <3>2, <3>3, <3>4
  <2>3. CASE Torn(args, size)
    <3>. HIDE DEF n, p
    <3>1. r = Parse("error", 0)
      BY <1>4, <2>2, <2>3
    <3>2. r.status = "error"
      <4>. HIDE DEF r
      <4>. QED BY <3>1 DEF Parse
    <3>. QED BY <2>3, <3>2
  <2>4. CASE ~Torn(args, size)
    <3>1. n.end = "cut" /\ n.at = size + 1 /\ n.val \in Nat /\ n.val > 0
      BY <2>2, <2>4
    <3>. HIDE DEF n
    <3>2. BulksFrom(buf, n.at, 1) = Place("incomplete", n.at)
      <4>1. n.at \in Nat /\ n.at > Len(buf) /\ 0 + 1 = 1
        BY <1>1, <3>1
      <4>2. BulkAt(buf, n.at) = Place("incomplete", n.at)
        BY <4>1 DEF BulkAt
      <4>3. BulksFrom(buf, n.at, 0) = Place("complete", n.at)
        BY <4>1, BulksSteps, Zenon
      <4>4. BulksFrom(buf, n.at, 0).status = "complete" /\ BulksFrom(buf, n.at, 0).idx = n.at
        BY <4>3 DEF Place
      <4>5. BulksFrom(buf, n.at, 0 + 1) = BulkAt(buf, n.at)
        BY <4>1, <4>4, BulksSteps, Zenon
      <4>. QED BY <4>1, <4>2, <4>5
    <3>3. BulksFrom(buf, n.at, 1).status = "incomplete"
      BY <3>2 DEF Place
    <3>4. p = BulksFrom(buf, n.at, 1)
      <4>1. n.at \in Nat /\ 1 \in Nat /\ 1 <= n.val
        BY <1>1, <3>1
      <4>. QED BY <3>1, <3>3, <4>1, BulksStay
    <3>. HIDE DEF p
    <3>5. r = Parse("incomplete", 0)
      BY <1>4, <1>6, <2>2, <3>1, <3>3, <3>4
    <3>6. r.status = "incomplete"
      <4>. HIDE DEF r
      <4>. QED BY <3>5 DEF Parse
    <3>. QED BY <2>4, <3>6
  <2>. QED BY <2>3, <2>4
<1>8. CASE Edge(args, 0) <= size
  <2>1. buf[1] = RESP_ARRAY_PREFIX /\ n.end = "crlf" /\ n.at = from /\ n.val = m
    <3>1. 0 + (k + 3) <= Len(buf)
      <4>. HIDE DEF k
      <4>. QED BY <1>2, <1>3, <1>8
    <3>2. buf[0 + 1] = RESP_ARRAY_PREFIX
          /\ read_crlf_decimal(buf, 0 + 2) = Number("crlf", 0 + (k + 3) + 1, m)
      BY <1>1, <1>5, <3>1, HeaderRead
    <3>3. 0 + (k + 3) + 1 = from
      <4>. HIDE DEF k
      <4>. QED BY <1>2, <1>3
    <3>4. n = Number("crlf", from, m)
      BY <1>6, <3>2, <3>3
    <3>. HIDE DEF n, from
    <3>. QED BY <1>6, <3>2, <3>4 DEF Number
  <2>2. PICK j \in 1..m : Edge(args, j - 1) <= size /\ size < Edge(args, j)
    <3>. DEFINE T == {i \in 0..m : size < Edge(args, i)}
    <3>1. T \in SUBSET Nat /\ m \in T
      BY <1>1, <1>3
    <3>2. PICK j \in T : \A i \in T : j <= i
      BY <3>1, LeastNumber, Zenon
    <3>3. j \in 0..m /\ size < Edge(args, j) /\ j # 0
      <4>1. j \in 0..m /\ size < Edge(args, j)
        OBVIOUS
      <4>2. Edge(args, 0) \in Nat
        <5>. HIDE DEF k
        <5>. QED BY <1>2, <1>3
      <4>. QED BY <1>1, <1>8, <4>1, <4>2
    <3>4. j \in 1..m /\ j - 1 \in 0..m /\ ~(j <= j - 1)
      BY <1>1, <3>3
    <3>5. j - 1 \notin T
      BY <3>2, <3>4
    <3>6. ~(size < Edge(args, j - 1)) /\ Edge(args, j - 1) \in Nat
      BY <3>4, <3>5, EdgeSteps, Zenon
    <3>7. Edge(args, j - 1) <= size
      BY <1>1, <3>6
    <3>. QED BY <3>3, <3>4, <3>7
  <2>. DEFINE d == Edge(args, j - 1)
              a == Len(u64_to_ascii(Len(args[j])))
  <2>3. j - 1 \in 0..m /\ j - 1 \in Nat /\ j \in Nat /\ j <= m /\ (j - 1) + 1 = j
    BY <1>1
  <2>4. /\ d \in Nat /\ args[j] \in Seq(STRING)
        /\ Edge(args, j) = d + (a + 3 + Len(args[j]) + 2)
    BY <2>3, EdgeSteps, Zenon
  <2>5. Torn(args, size) <=> size \in {d + 1, d + a + 2}
    BY <1>1, <2>2, TornHeader
  <2>6. BulkAt(buf, d + 1).status = IF Torn(args, size) THEN "error" ELSE "incomplete"
    <3>1. BulkLaid(args[j], d, buf) /\ d <= Len(buf)
          /\ Len(buf) < d + (a + 3 + Len(args[j]) + 2)
      BY <1>5, <2>2, <2>4, Zenon
    <3>2. BulkAt(buf, d + 1).status = IF Len(buf) \in {d + 1, d + a + 2}
                                      THEN "error" ELSE "incomplete"
      <4>. HIDE DEF d
      <4>. QED BY <2>4, <3>1, BulkCut, Zenon
    <3>. HIDE DEF d, a
    <3>. QED BY <2>5, <3>2
  <2>7. BulksFrom(buf, from, j - 1) = Place("complete", d + 1)
    <3>1. j - 1 \in 0..Len(args) /\ Edge(args, j - 1) <= Len(buf)
      BY <2>2, <2>3
    <3>2. ReadUpTo(args, buf, j - 1)
      BY <3>1, RequestRead
    <3>. QED BY <3>2 DEF ReadUpTo
  <2>8. from \in Nat
    <3>. HIDE DEF k
    <3>. QED BY <1>2, <1>3
  <2>9. BulksFrom(buf, from, j) = BulkAt(buf, d + 1)
    <3>1. BulksFrom(buf, from, j - 1).status = "complete" /\ BulksFrom(buf, from, j - 1).idx = d + 1
      BY <2>7 DEF Place
    <3>2. BulksFrom(buf, from, (j - 1) + 1) = BulkAt(buf, d + 1)
      <4>. HIDE DEF from, d
      <4>. QED BY <2>3, <2>8, <3>1, BulksSteps, Zenon
    <3>. QED BY <2>3, <3>2
  <2>10. BulkAt(buf, d + 1).status # "complete"
    BY <2>6
  <2>11. BulksFrom(buf, from, m) = BulkAt(buf, d + 1)
    <3>. HIDE DEF from, d
    <3>. QED BY <1>1, <2>3, <2>8, <2>9, <2>10, BulksStay
  <2>12. p = BulkAt(buf, d + 1)
    <3>. HIDE DEF from, d, n
    <3>. QED BY <2>1, <2>11
  <2>13. r = Parse(BulkAt(buf, d + 1).status, 0)
    <3>. HIDE DEF p, n, d
    <3>. QED BY <1>4, <1>6, <2>1, <2>10, <2>12
  <2>14. r.status = BulkAt(buf, d + 1).status
    <3>. HIDE DEF r, d
    <3>. QED BY <2>13 DEF Parse
  <2>. QED BY <2>6, <2>14
<1>9. size < Edge(args, 0) \/ Edge(args, 0) <= size
  <2>. HIDE DEF k
  <2>. QED BY <1>1, <1>2, <1>3
<1>. QED BY <1>7, <1>8, <1>9

-----------------------------------------------------------------------------
(* The runs of RespInputs, for any arguments, bytes and bounds.            *)

\* What is kept of the request in the input: all that the input is long
\* enough for, until a byte is replaced.
InputInv ==
    /\ parts \in Seq(Args) /\ Len(parts) >= 1
    /\ input \in Seq(STRING)
    /\ cut \in Nat /\ extra \in Nat /\ replaced \in Nat
    /\ replaced = 0 => Laid(Encode(parts), 0, input)
    /\ extra = 0 /\ replaced = 0 => Len(input) + cut = Len(Encode(parts))
    /\ cut = 0 /\ replaced = 0 => Len(Encode(parts)) <= Len(input)
    /\ cut > 0 => extra = 0 /\ replaced = 0

LEMMA PartsEncoded ==
    ASSUME NEW args \in Seq(Args)
    PROVE  /\ args \in Seq(Seq(STRING)) /\ Encode(args) \in Seq(STRING)
           /\ Len(Encode(args)) \in Nat
<1>1. args \in Seq(Seq(STRING))
    BY InputsAssumption, SeqWithin, Zenon
<1>2. Len(args) \in 0..Len(args)
    OBVIOUS
<1>3. Encode(args) \in Seq(STRING)
    BY <1>1, <1>2, EncodeSteps DEF Encode
<1>. QED BY <1>1, <1>3

LEMMA InputInitially ==
    ASSUME InputInit
    PROVE  InputInv
<1>1. PICK n \in 1..MaxArgs : parts \in [1..n -> Args]
    BY DEF InputInit
<1>2. n \in Nat /\ n >= 1
    BY InputsAssumption
<1>3. parts \in Seq(Args) /\ Len(parts) >= 1
    BY <1>1, <1>2
<1>4. Encode(parts) \in Seq(STRING) /\ Len(Encode(parts)) \in Nat /\ input = Encode(parts)
      /\ cut = 0 /\ extra = 0 /\ replaced = 0
    BY <1>3, PartsEncoded DEF InputInit
<1>5. Laid(Encode(parts), 0, input)
  <2>1. \A i \in 1..Len(input) : 0 + i = i
    OBVIOUS
  <2>. QED BY <1>4, <2>1 DEF Laid
<1>. QED BY <1>3, <1>4, <1>5 DEF InputInv

LEMMA InputStep ==
    ASSUME InputInv, [InputNext]_inputVars
    PROVE  InputInv'
<1>1. /\ parts \in Seq(Args) /\ Len(parts) >= 1 /\ input \in Seq(STRING) /\ Len(input) \in Nat
      /\ cut \in Nat /\ extra \in Nat /\ replaced \in Nat
    BY DEF InputInv
<1>. DEFINE e == Encode(parts)
<1>2. e \in Seq(STRING) /\ Len(e) \in Nat
    BY <1>1, PartsEncoded
<1>3. ASSUME Cut PROVE InputInv'
  <2>1. /\ extra = 0 /\ replaced = 0 /\ input # <<>> /\ cut' = cut + 1
        /\ input' = SubSeq(input, 1, Len(input) - 1)
        /\ parts' = parts /\ extra' = extra /\ replaced' = replaced
    BY <1>3 DEF Cut
  <2>2. Len(input) >= 1
    BY <1>1, <2>1, EmptySeq
  <2>. DEFINE k == Len(input) - 1
  <2>3. k \in Nat /\ 1 \in Int /\ k \in Int /\ (\A i \in 1..k : i \in 1..Len(input))
        /\ k - 1 + 1 = k /\ (1 <= k \/ k = 0) /\ \A i \in 1..k : 1 + i - 1 = i
    <3>. DEFINE l == Len(input)
    <3>1. l \in Nat /\ l >= 1 /\ k = l - 1
      BY <1>1, <2>2
    <3>. HIDE DEF l, k
    <3>2. k \in Nat /\ k <= l
      BY <3>1
    <3>3. \A i \in 1..k : i \in 1..l
      BY <3>1, <3>2
    <3>. QED BY <3>2, <3>3 DEF l
  <2>4. \A i \in 1..k : input[i] \in STRING
    BY <1>1, <2>3, ElementOfSeq
  <2>5. /\ input' \in Seq(STRING)
        /\ Len(input') = IF 1 <= k THEN k - 1 + 1 ELSE 0
        /\ \A i \in 1..(k - 1 + 1) : input'[i] = input[1 + i - 1]
    <3>. DEFINE sub == SubSeq(input, 1, k)
    <3>1. /\ sub \in Seq(STRING)
          /\ Len(sub) = IF 1 <= k THEN k - 1 + 1 ELSE 0
          /\ \A i \in 1..(k - 1 + 1) : sub[i] = input[1 + i - 1]
      <4>. HIDE DEF k
      <4>. QED BY <1>1, <2>3, <2>4, SubSeqProperties
    <3>2. input' = sub
      BY <2>1
    <3>. HIDE DEF sub, k
    <3>. QED BY <3>1, <3>2
  <2>. HIDE DEF k
  <2>6. Len(input') = k /\ \A i \in 1..k : input'[i] = input[i]
    BY <2>3, <2>5
  <2>7. Laid(e, 0, input) /\ Len(input) + cut = Len(e)
    BY <2>1 DEF InputInv
  <2>8. Laid(e, 0, input')
    <3>1. ASSUME NEW i \in 1..Len(e), 0 + i <= Len(input') PROVE input'[0 + i] = e[i]
      <4>1. 0 + i = i /\ i \in 1..k /\ 0 + i <= Len(input)
        BY <1>1, <2>3, <2>6, <3>1 DEF k
      <4>2. input[0 + i] = e[i]
        BY <2>7, <4>1 DEF Laid
      <4>. QED BY <2>6, <4>1, <4>2
    <3>. QED BY <1>2, <2>5, <3>1 DEF Laid
  <2>9. Len(input') + cut' = Len(e) /\ cut' \in Nat /\ cut' > 0
    <3>1. Len(input') = Len(input) - 1
      BY <2>6 DEF k
    <3>. DEFINE l == Len(input)
                rest == Len(input')
                size == Len(e)
    <3>2. l \in Nat /\ l + cut = size /\ rest = l - 1
      BY <1>1, <2>7, <3>1
    <3>. HIDE DEF l, rest, size
    <3>3. rest + (cut + 1) = size /\ cut + 1 \in Nat /\ cut + 1 > 0
      BY <1>1, <3>2
    <3>. QED BY <2>1, <3>3 DEF size, rest
  <2>10. cut' # 0
    BY <2>9
  <2>. HIDE DEF e
  <2>11. Encode(parts)' = e
    BY <2>1 DEF e
  <2>. QED BY <1>1, <2>1, <2>5, <2>8, <2>9, <2>10, <2>11, Zenon DEF InputInv
<1>4. ASSUME Extend PROVE InputInv'
  <2>1. PICK b \in Bytes : input' = Append(input, b)
    BY <1>4 DEF Extend
  <2>2. /\ cut = 0 /\ extra' = extra + 1 /\ parts' = parts /\ cut' = cut /\ replaced' = replaced
    BY <1>4 DEF Extend
  <2>3. b \in STRING
    BY InputsAssumption, Zenon
  <2>4. /\ input' \in Seq(STRING) /\ Len(input') = Len(input) + 1
        /\ \A i \in 1..Len(input) : input'[i] = input[i]
    <3>. DEFINE w == Append(input, b)
    <3>1. /\ w \in Seq(STRING) /\ Len(w) = Len(input) + 1
          /\ \A i \in 1..Len(input) : w[i] = input[i]
      BY <1>1, <2>3, AppendedTo, Zenon
    <3>. HIDE DEF w
    <3>2. input' = w
      BY <2>1 DEF w
    <3>. QED BY <3>1, <3>2
  <2>5. ASSUME replaced = 0 PROVE Laid(e, 0, input') /\ Len(e) <= Len(input')
    <3>1. Laid(e, 0, input) /\ Len(e) <= Len(input)
      BY <2>2, <2>5 DEF InputInv
    <3>2. ASSUME NEW i \in 1..Len(e) PROVE input'[0 + i] = e[i]
      <4>1. 0 + i = i /\ i \in 1..Len(input) /\ 0 + i <= Len(input)
        BY <1>1, <1>2, <3>1
      <4>2. input[0 + i] = e[i]
        BY <3>1, <4>1 DEF Laid
      <4>. QED BY <2>4, <4>1, <4>2
    <3>3. Laid(e, 0, input')
      BY <1>2, <2>4, <3>2 DEF Laid
    <3>4. Len(e) <= Len(input')
      BY <1>1, <1>2, <2>4, <3>1
    <3>. QED BY <3>3, <3>4
  <2>6. extra' \in Nat /\ extra' # 0 /\ ~(cut' > 0)
    BY <1>1, <2>2
  <2>. HIDE DEF e
  <2>7. Encode(parts)' = e
    BY <2>2 DEF e
  <2>. QED BY <1>1, <2>2, <2>4, <2>5, <2>6, <2>7 DEF InputInv
<1>5. ASSUME Replace PROVE InputInv'
  <2>1. PICK i \in DOMAIN input, b \in Bytes : input' = [input EXCEPT ![i] = b]
    BY <1>5, Zenon DEF Replace
  <2>2. /\ cut = 0 /\ replaced' = replaced + 1 /\ parts' = parts /\ cut' = cut /\ extra' = extra
    BY <1>5 DEF Replace
  <2>3. b \in STRING
    BY InputsAssumption, Zenon
  <2>4. input' \in Seq(STRING)
    BY <1>1, <2>1, <2>3, ExceptSeq
  <2>5. replaced' \in Nat /\ replaced' # 0 /\ ~(cut' > 0)
    BY <1>1, <2>2
  <2>. QED BY <1>1, <2>2, <2>4, <2>5 DEF InputInv
<1>6. ASSUME UNCHANGED inputVars PROVE InputInv'
  <2>1. /\ parts' = parts /\ input' = input /\ cut' = cut /\ extra' = extra
        /\ replaced' = replaced
    BY <1>6 DEF inputVars
  <2>2. Encode(parts)' = Encode(parts)
    BY <2>1
  <2>. QED BY <2>1, <2>2 DEF InputInv
<1>. QED BY <1>3, <1>4, <1>5, <1>6 DEF InputNext

LEMMA InputAlways == InputSpec => []InputInv
<1>1. InputInit => InputInv
    BY InputInitially
<1>2. InputInv /\ [InputNext]_inputVars => InputInv'
    BY InputStep
<1>. QED BY <1>1, <1>2, PTL DEF InputSpec

LEMMA InvRoundTrip ==
    ASSUME InputInv
    PROVE  RoundTrip
<1>1. SUFFICES ASSUME cut = 0, replaced = 0
               PROVE  /\ Length = Parse("complete", Len(Encode(parts)))
                      /\ parseRespCommand(SubSeq(input, 1, Length.length)) =
                            IF Len(parts) \in 1..3 THEN parts ELSE NoCommand
    BY DEF RoundTrip
<1>. DEFINE e == Encode(parts)
            sub == SubSeq(input, 1, Len(e))
<1>2. /\ parts \in Seq(Args) /\ input \in Seq(STRING)
      /\ Laid(e, 0, input) /\ Len(e) <= Len(input)
    BY <1>1 DEF InputInv
<1>3. parts \in Seq(Seq(STRING)) /\ Len(e) \in Nat
    BY <1>2, PartsEncoded
<1>4. Length = Parse("complete", Len(e))
    BY <1>2, <1>3, RequestRoundTrip DEF Length
<1>5. Length.length = Len(e)
  <2>. HIDE DEF e
  <2>. QED BY <1>4 DEF Parse
<1>6. sub \in Seq(STRING) /\ Len(sub) = Len(e) /\ Laid(e, 0, sub)
    BY <1>2, LaidWithin
<1>. HIDE DEF sub
<1>7. Len(e) <= Len(sub)
    BY <1>3, <1>6
<1>8. parseRespCommand(sub) = IF Len(parts) \in 1..3 THEN parts ELSE NoCommand
    BY <1>3, <1>6, <1>7, RequestRoundTrip
<1>. QED BY <1>4, <1>5, <1>8 DEF sub

LEMMA InvCut ==
    ASSUME InputInv
    PROVE  CutIsIncompleteUnlessTorn
<1>1. SUFFICES ASSUME cut > 0, input # <<>>
               PROVE  Length.status = IF Torn(parts, Len(input)) THEN "error" ELSE "incomplete"
    BY DEF CutIsIncompleteUnlessTorn
<1>2. /\ parts \in Seq(Args) /\ Len(parts) >= 1 /\ input \in Seq(STRING) /\ cut \in Nat
      /\ Laid(Encode(parts), 0, input) /\ Len(input) + cut = Len(Encode(parts))
    BY <1>1 DEF InputInv
<1>3. parts \in Seq(Seq(STRING)) /\ Len(Encode(parts)) \in Nat
    BY <1>2, PartsEncoded
<1>4. Len(input) \in Nat /\ 1 <= Len(input)
    BY <1>1, <1>2, EmptySeq
<1>5. Len(input) < Len(Encode(parts))
    BY <1>1, <1>2, <1>3, <1>4
<1>. QED BY <1>2, <1>3, <1>4, <1>5, RequestCut DEF Length

LEMMA InvAgree ==
    ASSUME InputInv
    PROVE  ParsersAgree
<1>1. SUFFICES ASSUME Length.status = "complete"
               PROVE  /\ Length.length <= Len(input)
                      /\ (parseRespCommand(SubSeq(input, 1, Length.length)) # NoCommand)
                            <=> (read_crlf_decimal(input, 2).val \in 1..3)
    BY DEF ParsersAgree
<1>2. input \in Seq(STRING) /\ Len(input) \in Nat
    BY DEF InputInv
<1>3. /\ Length.length \in 2..Len(input)
      /\ (parseRespCommand(SubSeq(input, 1, Length.length)) # NoCommand)
            <=> (read_crlf_decimal(input, 2).val \in 1..3)
    BY <1>1, <1>2, ParsersAgreeOnEveryBuffer DEF Length
<1>. QED BY <1>2, <1>3

(* What a client writes, parseRespMessageLength() and parseRespCommand()   *)
(* read back: for requests of any number of arguments of any bytes, with   *)
(* anything behind them in the buffer.                                     *)
THEOREM RequestsRoundTrip == InputSpec => []RoundTrip
BY InputAlways, InvRoundTrip, PTL

(* Part of a request is never taken for a whole one, wherever it is cut;   *)
(* it closes the connection exactly where the cut tears a header.          *)
THEOREM CutsAreSeen == InputSpec => []CutIsIncompleteUnlessTorn
BY InputAlways, InvCut, PTL

(* What parseRespMessageLength() finds in an edited request,               *)
(* parseRespCommand() accepts exactly when it has one to three elements.   *)
THEOREM ParsersAlwaysAgree == InputSpec => []ParsersAgree
BY InputAlways, InvAgree, PTL

-----------------------------------------------------------------------------
(* The loops around zlib, for every value and every chunk size.            *)

Elements(data) == {data[i] : i \in DOMAIN data}

\* What one call of zlib writes, of data that has been put out up to total.
LEMMA ChunkIs ==
    ASSUME NEW data, data \in Seq(Elements(data)), NEW s, s.total \in Nat
    PROVE  LET rest  == Remaining(data, s)
               chunk == Chunk(rest)
           IN  /\ Len(rest) = IF s.total < Len(data) THEN Len(data) - s.total ELSE 0
               /\ chunk \in Seq(Elements(data)) /\ Len(chunk) \in Nat
               /\ Len(chunk) = IF Len(rest) < CHUNK_SIZE THEN Len(rest) ELSE CHUNK_SIZE
               /\ \A i \in 1..Len(chunk) : chunk[i] = data[s.total + i]
<1>. DEFINE E == Elements(data)
            n == Len(data)
            t == s.total
            from == t + 1
            rest == Remaining(data, s)
            k == Len(rest)
            c == IF k < CHUNK_SIZE THEN k ELSE CHUNK_SIZE
            chunk == Chunk(rest)
<1>1. n \in Nat /\ t \in Nat /\ from \in Int /\ n \in Int /\ \A i \in from..n : i \in 1..n
    OBVIOUS
<1>2. \A i \in from..n : data[i] \in E
    BY <1>1, ElementOfSeq
<1>3. rest = SubSeq(data, from, n)
    BY DEF Remaining
<1>. HIDE DEF E, from, rest, n
<1>4. /\ rest \in Seq(E)
      /\ k = IF from <= n THEN n - from + 1 ELSE 0
      /\ \A i \in 1..(n - from + 1) : rest[i] = data[from + i - 1]
    BY <1>1, <1>2, <1>3, SubSeqProperties
<1>5. k \in Nat /\ k = IF t < n THEN n - t ELSE 0
    BY <1>1, <1>4 DEF from
<1>6. \A i \in 1..k : rest[i] = data[t + i]
  <2>1. \A i \in 1..k : i \in 1..(n - from + 1) /\ from + i - 1 = t + i
    BY <1>1, <1>5 DEF from
  <2>. HIDE DEF t
  <2>. QED BY <1>4, <2>1
<1>7. chunk = SubSeq(rest, 1, c)
    BY DEF Chunk
<1>. HIDE DEF k, chunk
<1>8. c \in Nat /\ c <= k /\ c \in Int /\ 1 \in Int
    BY <1>5, ChunkAssumption
<1>9. \A i \in 1..c : i \in 1..k
    BY <1>5, <1>8
<1>. HIDE DEF c
<1>10. \A i \in 1..c : rest[i] \in E
    BY <1>4, <1>9, ElementOfSeq DEF k
<1>11. /\ chunk \in Seq(E)
       /\ Len(chunk) = IF 1 <= c THEN c - 1 + 1 ELSE 0
       /\ \A i \in 1..(c - 1 + 1) : chunk[i] = rest[1 + i - 1]
    BY <1>7, <1>8, <1>10, SubSeqProperties
<1>12. Len(chunk) = c /\ \A i \in 1..c : chunk[i] = rest[i]
  <2>1. (1 <= c \/ c = 0) /\ c - 1 + 1 = c /\ \A i \in 1..c : 1 + i - 1 = i
    BY <1>8
  <2>. QED BY <1>11, <2>1
<1>13. \A i \in 1..c : chunk[i] = data[t + i]
  <2>. HIDE DEF t
  <2>. QED BY <1>6, <1>9, <1>12
<1>. QED BY <1>5, <1>8, <1>11, <1>12, <1>13 DEF k, chunk, c, n, rest, E

\* A pass through either loop: zlib's next chunk is put behind the output,
\* and the loop ends only when all has been put out.
Fills(pass, data) ==
    /\ pass = [s \in Outputs(data) |-> pass[s]]
    /\ \A s \in Outputs(data) :
          LET rest  == Remaining(data, s)
              chunk == Chunk(rest)
          IN  IF s.end THEN pass[s] = s
              ELSE \E end \in BOOLEAN :
                      /\ pass[s] = Filled(s, chunk, end)
                      /\ end => Len(chunk) = Len(rest)
                      /\ ~end => Len(chunk) = CHUNK_SIZE

LEMMA BothFill ==
    ASSUME NEW data, data \in Seq(Elements(data)), NEW late \in BOOLEAN
    PROVE  Fills(Deflating(data), data) /\ Fills(Inflating(data, late), data)
<1>1. /\ Deflating(data) = [s \in Outputs(data) |-> Deflating(data)[s]]
      /\ Inflating(data, late) = [s \in Outputs(data) |-> Inflating(data, late)[s]]
    BY DEF Deflating, Inflating
<1>. SUFFICES ASSUME NEW s \in Outputs(data), ~s.end
     PROVE  LET rest  == Remaining(data, s)
                chunk == Chunk(rest)
                Put(q) == \E end \in BOOLEAN :
                      /\ q = Filled(s, chunk, end)
                      /\ end => Len(chunk) = Len(rest)
                      /\ ~end => Len(chunk) = CHUNK_SIZE
            IN  Put(Deflating(data)[s]) /\ Put(Inflating(data, late)[s])
  <2>1. \A s \in Outputs(data) : s.end => Deflating(data)[s] = s /\ Inflating(data, late)[s] = s
    BY DEF Deflating, Inflating
  <2>. QED BY <1>1, <2>1, Zenon DEF Fills
<1>. DEFINE rest == Remaining(data, s)
            chunk == Chunk(rest)
            d == Len(chunk) < CHUNK_SIZE
            i == Len(chunk) = Len(rest) /\ (late => Len(chunk) < CHUNK_SIZE)
<1>2. s.total \in Nat
    BY DEF Outputs
<1>3. /\ Len(chunk) \in Nat /\ Len(rest) \in Nat
      /\ Len(chunk) = IF Len(rest) < CHUNK_SIZE THEN Len(rest) ELSE CHUNK_SIZE
  <2>1. /\ Len(rest) = IF s.total < Len(data) THEN Len(data) - s.total ELSE 0
        /\ Len(chunk) \in Nat
        /\ Len(chunk) = IF Len(rest) < CHUNK_SIZE THEN Len(rest) ELSE CHUNK_SIZE
    BY <1>2, ChunkIs
  <2>2. Len(data) \in Nat
    OBVIOUS
  <2>. HIDE DEF rest, chunk
  <2>3. Len(rest) \in Nat
    BY <1>2, <2>1, <2>2
  <2>. QED BY <2>1, <2>3
<1>4. Deflating(data)[s] = Filled(s, chunk, d) /\ Inflating(data, late)[s] = Filled(s, chunk, i)
    BY DEF Deflating, Inflating
<1>. HIDE DEF rest, chunk
<1>5. d \in BOOLEAN /\ i \in BOOLEAN
    OBVIOUS
<1>6. /\ d => Len(chunk) = Len(rest)
      /\ ~d => Len(chunk) = CHUNK_SIZE
    BY <1>3, ChunkAssumption
<1>7. /\ i => Len(chunk) = Len(rest)
      /\ ~i => Len(chunk) = CHUNK_SIZE
    BY <1>3, ChunkAssumption
<1>. HIDE DEF d, i
<1>8. Deflating(data)[s] = Filled(s, chunk, d) /\ Inflating(data, late)[s] = Filled(s, chunk, i)
    BY <1>4
<1>. QED BY <1>5, <1>6, <1>7, <1>8, Zenon DEF rest, chunk

Joined(S, w, u, v) ==
    /\ w \in Seq(S) /\ Len(w) = Len(u) + Len(v)
    /\ \A i \in 1..(Len(u) + Len(v)) : w[i] = IF i <= Len(u) THEN u[i] ELSE v[i - Len(u)]

LEMMA JoinedFrom ==
    ASSUME NEW S, NEW u \in Seq(S), NEW v \in Seq(S)
    PROVE  Joined(S, u \o v, u, v)
BY ConcatProperties DEF Joined

LEMMA FirstType ==
    ASSUME NEW S, NEW bytes \in Seq(S), NEW size \in Nat
    PROVE  First(bytes, size) \in Seq(S)
<1>1. CASE Len(bytes) <= size
    BY <1>1 DEF First
<1>2. CASE ~(Len(bytes) <= size)
  <2>1. Len(bytes) \in Nat /\ 1 \in Int /\ size \in Int
    OBVIOUS
  <2>2. \A i \in 1..size : i \in 1..Len(bytes)
    BY <1>2, <2>1
  <2>3. \A i \in 1..size : bytes[i] \in S
    BY <2>2, ElementOfSeq
  <2>4. SubSeq(bytes, 1, size) \in Seq(S)
    BY <2>1, <2>3, SubSeqProperties
  <2>. QED BY <1>2, <2>4 DEF First
<1>. QED BY <1>1, <1>2

LEMMA FillType ==
    ASSUME NEW data, data \in Seq(Elements(data)), NEW pass, Fills(pass, data)
    PROVE  PassOn(Outputs(data), pass)
<1>. DEFINE O == Outputs(data)
            E == Elements(data)
<1>1. ASSUME NEW s \in O PROVE pass[s] \in O
  <2>. DEFINE chunk == Chunk(Remaining(data, s))
              room == Room(s.size, s.total)
  <2>1. s.output \in Seq(E) /\ s.total \in Nat /\ s.size \in Nat
    BY DEF Outputs, Elements
  <2>2. CASE s.end
    BY <2>2 DEF Fills
  <2>3. CASE ~s.end
    <3>1. PICK end \in BOOLEAN : pass[s] = Filled(s, chunk, end)
      BY <2>3, Zenon DEF Fills
    <3>2. chunk \in Seq(E) /\ Len(chunk) \in Nat
      BY <2>1, ChunkIs
    <3>. HIDE DEF chunk
    <3>3. room \in Nat
      BY <2>1, ChunkAssumption DEF Room
    <3>4. s.output \o chunk \in Seq(E)
      BY <2>1, <3>2, ConcatProperties
    <3>. HIDE DEF room, E
    <3>5. Written(s.output, chunk, room) \in Seq(E)
      BY <3>3, <3>4, FirstType, Zenon DEF Written
    <3>6. Filled(s, chunk, end) \in O
      <4>1. Filled(s, chunk, end) =
              [end |-> end, output |-> Written(s.output, chunk, room),
               total |-> s.total + Len(chunk), size |-> room]
        BY DEF Filled, room
      <4>2. s.total + Len(chunk) \in Nat
        BY <2>1, <3>2
      <4>3. O = [end : BOOLEAN, output : Seq(E), total : Nat, size : Nat]
        BY DEF Outputs, E, Elements
      <4>. HIDE DEF O
      <4>. QED BY <3>3, <3>5, <4>1, <4>2, <4>3
    <3>. QED BY <3>1, <3>6
  <2>. QED BY <2>2, <2>3
<1>2. pass = [s \in O |-> pass[s]]
    BY DEF Fills
<1>. HIDE DEF O
<1>3. PassOn(O, pass)
    BY <1>1, <1>2, SMTT(30) DEF PassOn
<1>. QED BY <1>3 DEF O

\* After k passes: the output is the beginning of the data, it has room in
\* the buffer, and the loop is over when it is all of it, and then only.
PutOut(data, s, k) ==
    /\ s.total \in 0..Len(data) /\ s.size \in Nat
    /\ s.output \in Seq(Elements(data)) /\ Len(s.output) = s.total
    /\ \A i \in 1..s.total : s.output[i] = data[i]
    /\ s.total <= s.size /\ CHUNK_SIZE <= s.size
    /\ s.end => s.total = Len(data)
    /\ ~s.end => s.total >= k

LEMMA FillPutsOut ==
    ASSUME NEW data, data \in Seq(Elements(data)), NEW s \in Outputs(data), NEW k \in Nat,
           PutOut(data, s, k), ~s.end, NEW end \in BOOLEAN,
           LET rest  == Remaining(data, s)
               chunk == Chunk(rest)
           IN  /\ end => Len(chunk) = Len(rest)
               /\ ~end => Len(chunk) = CHUNK_SIZE
    PROVE  PutOut(data, Filled(s, Chunk(Remaining(data, s)), end), k + 1)
<1>. DEFINE n == Len(data)
            E == Elements(data)
            t == s.total
            z == s.size
            rest == Remaining(data, s)
            chunk == Chunk(rest)
            c == Len(chunk)
            room == Room(z, t)
            w == s.output \o chunk
            new == Filled(s, chunk, end)
<1>1. /\ n \in Nat /\ t \in 0..n /\ z \in Nat /\ t <= z /\ CHUNK_SIZE <= z /\ t >= k
      /\ s.output \in Seq(E) /\ Len(s.output) = t /\ \A i \in 1..t : s.output[i] = data[i]
    BY DEF PutOut
<1>2. /\ Len(rest) = IF t < n THEN n - t ELSE 0
      /\ chunk \in Seq(E) /\ c \in Nat
      /\ c = IF Len(rest) < CHUNK_SIZE THEN Len(rest) ELSE CHUNK_SIZE
      /\ \A i \in 1..c : chunk[i] = data[t + i]
    BY <1>1, ChunkIs
<1>3. (end => c = Len(rest)) /\ (~end => c = CHUNK_SIZE)
    OBVIOUS
<1>4. /\ new.end = end /\ new.output = Written(s.output, chunk, room)
      /\ new.total = t + c /\ new.size = room
    BY DEF Filled
<1>5. room = IF t + CHUNK_SIZE > z THEN z * 2 ELSE z
    BY DEF Room
<1>. HIDE DEF n, E, t, z, chunk, rest, new, room, c
<1>6. CHUNK_SIZE \in Nat /\ CHUNK_SIZE >= 1
    BY ChunkAssumption
<1>7. /\ t + c \in 0..n /\ room \in Nat /\ t + c <= room /\ CHUNK_SIZE <= room
      /\ (end => t + c = n) /\ (~end => t + c >= k + 1)
    BY <1>1, <1>2, <1>3, <1>5, <1>6
<1>. DEFINE o == s.output
<1>8. /\ w \in Seq(E) /\ Len(w) = t + c
      /\ \A i \in 1..(t + c) : w[i] = IF i <= t THEN s.output[i] ELSE chunk[i - t]
  <2>1. o \in Seq(E) /\ chunk \in Seq(E) /\ Len(o) = t /\ Len(chunk) = c /\ w = o \o chunk
    BY <1>1, <1>2 DEF c
  <2>. HIDE DEF o, w
  <2>2. /\ w \in Seq(E) /\ Len(w) = Len(o) + Len(chunk)
        /\ \A i \in 1..(Len(o) + Len(chunk)) :
              w[i] = IF i <= Len(o) THEN o[i] ELSE chunk[i - Len(o)]
    <3>1. Joined(E, o \o chunk, o, chunk)
      BY <2>1, JoinedFrom, Zenon
    <3>2. Joined(E, w, o, chunk)
      BY <2>1, <3>1, Zenon
    <3>. QED BY <3>2, Zenon DEF Joined
  <2>. QED BY <2>1, <2>2, Zenon DEF o
<1>. HIDE DEF w
<1>9. ASSUME NEW i \in 1..(t + c) PROVE w[i] = data[i]
  <2>1. CASE i <= t
    <3>1. i \in 1..t
      BY <1>1, <2>1
    <3>. QED BY <1>1, <1>8, <2>1, <3>1
  <2>2. CASE ~(i <= t)
    <3>1. i - t \in 1..c /\ t + (i - t) = i
      <4>1. t \in Nat /\ c \in Nat
        BY <1>1, <1>2
      <4>. QED BY <2>2, <4>1
    <3>2. chunk[i - t] = data[t + (i - t)]
      BY <1>2, <3>1
    <3>. QED BY <1>8, <2>2, <3>1, <3>2
  <2>. QED BY <2>1, <2>2
<1>10. new.output = w
    BY <1>4, <1>7, <1>8 DEF Written, First, w
<1>. QED BY <1>4, <1>7, <1>8, <1>9, <1>10, ZenonT(30) DEF PutOut, n, E, new, chunk, rest

\* Either loop puts out all of its data, and nothing else.
LEMMA AllPutOut ==
    ASSUME NEW data, data \in Seq(Elements(data)), NEW pass, Fills(pass, data)
    PROVE  Result(Repeat(pass, NoOutput, Len(data) + 1)) =
              [data |-> data, size |-> Len(data), ok |-> TRUE]
<1>. DEFINE O == Outputs(data)
            n == Len(data)
            R(k) == Repeat(pass, NoOutput, k)
            T == {k \in Nat : PutOut(data, R(k), k)}
<1>1. n \in Nat /\ CHUNK_SIZE \in Nat /\ CHUNK_SIZE >= 1
    BY ChunkAssumption
<1>2. NoOutput \in O
    BY <1>1 DEF NoOutput, Outputs
<1>3. Repeated(O, pass, NoOutput)
  <2>1. PassOn(O, pass)
    BY FillType
  <2>. HIDE DEF O
  <2>. QED BY <1>2, <2>1, RepeatSteps, Zenon
<1>4. R(0) = NoOutput /\ (\A k \in Nat : R(k) \in O) /\ \A k \in Nat : R(k + 1) = pass[R(k)]
    BY <1>3, Zenon DEF Repeated
<1>. HIDE DEF R
<1>5. 0 \in T
  <2>1. PutOut(data, NoOutput, 0)
    <3>1. /\ NoOutput.total = 0 /\ NoOutput.size = CHUNK_SIZE /\ NoOutput.output = <<>>
          /\ NoOutput.end = FALSE
      BY DEF NoOutput
    <3>2. <<>> \in Seq(Elements(data)) /\ Len(<<>>) = 0
      OBVIOUS
    <3>3. 0 \in 0..Len(data) /\ 1..0 = {} /\ 0 <= CHUNK_SIZE /\ 0 >= 0
      BY <1>1
    <3>. QED BY <1>1, <3>1, <3>2, <3>3 DEF PutOut
  <2>. QED BY <1>4, <2>1
<1>6. ASSUME NEW k \in T PROVE k + 1 \in T
  <2>1. k \in Nat /\ k + 1 \in Nat /\ PutOut(data, R(k), k)
    OBVIOUS
  <2>. DEFINE s == R(k)
  <2>2. s \in O /\ R(k + 1) = pass[s]
    BY <1>4, <2>1
  <2>. HIDE DEF s
  <2>3. CASE s.end
    <3>1. pass[s] = s
      BY <2>2, <2>3 DEF Fills
    <3>2. PutOut(data, s, k + 1)
      BY <2>1, <2>3 DEF PutOut, s
    <3>. QED BY <2>1, <2>2, <3>1, <3>2
  <2>4. CASE ~s.end
    <3>. DEFINE rest == Remaining(data, s)
                chunk == Chunk(rest)
    <3>1. PICK end \in BOOLEAN : /\ pass[s] = Filled(s, chunk, end)
                                 /\ end => Len(chunk) = Len(rest)
                                 /\ ~end => Len(chunk) = CHUNK_SIZE
      BY <2>2, <2>4, Zenon DEF Fills
    <3>2. PutOut(data, s, k)
      BY <2>1 DEF s
    <3>3. PutOut(data, Filled(s, chunk, end), k + 1)
      BY <2>1, <2>2, <2>4, <3>1, <3>2, FillPutsOut
    <3>. QED BY <2>1, <2>2, <3>1, <3>3
  <2>. QED BY <2>3, <2>4
<1>7. T \in SUBSET Nat
    OBVIOUS
<1>8. n + 1 \in T
  <2>. HIDE DEF T
  <2>1. n + 1 \in Nat
    BY <1>1
  <2>. QED BY <1>5, <1>6, <1>7, <2>1, SetInduction, Zenon
<1>. DEFINE s == R(n + 1)
<1>9. PutOut(data, s, n + 1)
    BY <1>8
<1>. HIDE DEF s
<1>10. s.total = n
  <2>1. s.total \in 0..n /\ (s.end => s.total = n) /\ (~s.end => s.total >= n + 1)
    BY <1>9 DEF PutOut
  <2>. QED BY <1>1, <2>1
<1>11. s.output = data
  <2>1. s.output \in Seq(Elements(data)) /\ Len(s.output) = n
        /\ \A i \in 1..n : s.output[i] = data[i]
    BY <1>9, <1>10 DEF PutOut
  <2>. QED BY <2>1, SeqEqual DEF n
<1>. QED BY <1>10, <1>11, Zenon DEF Result, s, R

LEMMA OwnElements ==
    ASSUME NEW S, NEW data \in Seq(S)
    PROVE  data \in Seq(Elements(data))
<1>1. Len(data) \in Nat /\ data \in [1..Len(data) -> S]
    OBVIOUS
<1>2. data \in [1..Len(data) -> Elements(data)]
    BY <1>1 DEF Elements
<1>. QED BY <1>1, <1>2

LEMMA FirstAll ==
    ASSUME NEW S, NEW data \in Seq(S)
    PROVE  First(data, Len(data)) = data
<1>1. Len(data) <= Len(data)
    OBVIOUS
<1>. QED BY <1>1 DEF First

\* The stream that stands for the bytes zlib makes of a value.
LEMMA GzipIs ==
    ASSUME NEW value, NEW n \in Nat \ {0}
    PROVE  LET data == gzip(value, n)
           IN  /\ data \in Seq(Elements(data)) /\ Len(data) = n
               /\ IsGzip(data) /\ data[1][1] = value
<1>. DEFINE data == gzip(value, n)
            S == {<<value, i, n>> : i \in 1..n}
<1>1. data = [i \in 1..n |-> <<value, i, n>>]
    BY DEF gzip
<1>2. data \in [1..n -> S]
    BY <1>1
<1>3. data \in Seq(S) /\ Len(data) = n
    BY <1>2
<1>4. data[1] = <<value, 1, n>>
    BY <1>1
<1>. HIDE DEF data
<1>5. data[1][1] = value /\ data[1][3] = n
    BY <1>4
<1>6. data # <<>>
    BY <1>3
<1>7. IsGzip(data)
    BY <1>5, <1>6 DEF IsGzip, data
<1>8. data \in Seq(Elements(data))
  <2>. HIDE DEF S
  <2>. QED BY <1>3, OwnElements
<1>. QED BY <1>3, <1>5, <1>7, <1>8 DEF data

(* set() and get() together, for every value, every size n of what zlib    *)
(* makes of it, and every chunk size: the value comes back, or zlib could  *)
(* not be set up to decompress it.                                         *)
THEOREM EveryValueSurvives ==
    ASSUME NEW S, NEW value \in Seq(S), NEW n \in Nat \ {0}, NEW enabled \in BOOLEAN,
           NEW works \in BOOLEAN, NEW late \in BOOLEAN, NEW again \in BOOLEAN
    PROVE  LET entry == insertEntry(value, enabled, n, works)
               found == getEntry(entry, late, again)
           IN  /\ found.ok <=> (entry.compressed => again)
               /\ found.ok => found.value = value
<1>. DEFINE data == gzip(value, n)
            c == Compress(value, n, works)
            entry == insertEntry(value, enabled, n, works)
            found == getEntry(entry, late, again)
            zip == enabled /\ Len(value) + 1 >= MIN_SIZE_TO_COMPRESS /\ c.ok
<1>1. data \in Seq(Elements(data)) /\ Len(data) = n /\ IsGzip(data) /\ data[1][1] = value
    BY GzipIs
<1>2. value \in Seq(Elements(value))
    BY OwnElements
<1>3. /\ Deflated(data) = [data |-> data, size |-> n, ok |-> TRUE]
      /\ Inflated(value, late) = [data |-> value, size |-> Len(value), ok |-> TRUE]
  <2>. HIDE DEF data
  <2>1. Fills(Deflating(data), data) /\ Fills(Inflating(value, late), value)
    BY <1>1, <1>2, BothFill
  <2>2. Result(Repeat(Deflating(data), NoOutput, Len(data) + 1)) =
           [data |-> data, size |-> Len(data), ok |-> TRUE]
    BY <1>1, <2>1, AllPutOut
  <2>3. Result(Repeat(Inflating(value, late), NoOutput, Len(value) + 1)) =
           [data |-> value, size |-> Len(value), ok |-> TRUE]
    BY <1>2, <2>1, AllPutOut
  <2>. QED BY <1>1, <2>2, <2>3 DEF Deflated, Inflated
<1>. HIDE DEF data
<1>4. c.ok => c = [data |-> data, size |-> n, ok |-> TRUE]
  <2>1. c = IF value = <<>> \/ ~works THEN Failed ELSE Deflated(data)
    BY DEF Compress, data
  <2>2. Failed.ok = FALSE
    BY DEF Failed
  <2>. HIDE DEF c
  <2>. QED BY <1>3, <2>1, <2>2, Zenon
<1>5. entry = IF zip THEN [value |-> c.data, vSize |-> c.size, compressed |-> TRUE]
              ELSE [value |-> value, vSize |-> Len(value) + 1, compressed |-> FALSE]
    BY Zenon DEF insertEntry
<1>6. CASE zip
  <2>1. c.data = data /\ c.size = n
    <3>. HIDE DEF c
    <3>. QED BY <1>4, <1>6
  <2>. HIDE DEF c, entry
  <2>2. entry.compressed = TRUE /\ entry.value = data /\ entry.vSize = n
    BY <1>5, <1>6, <2>1
  <2>3. First(entry.value, entry.vSize) = data
    BY <1>1, <2>2, FirstAll
  <2>. DEFINE d == Decompress(data, late, again)
  <2>4. found = [value |-> First(d.data, d.size), ok |-> d.ok]
    BY <2>2, <2>3 DEF getEntry
  <2>5. d = IF ~again THEN Failed ELSE Inflated(value, late)
    BY <1>1 DEF Decompress
  <2>. HIDE DEF d, found
  <2>6. CASE again
    <3>1. d.data = value /\ d.size = Len(value) /\ d.ok = TRUE
      BY <1>3, <2>5, <2>6
    <3>2. found.ok = TRUE /\ found.value = First(value, Len(value))
      BY <2>4, <3>1
    <3>3. found.value = value
      BY <3>2, FirstAll
    <3>. QED BY <2>6, <3>2, <3>3, Zenon DEF found, entry
  <2>7. CASE ~again
    <3>1. d.ok = FALSE
      BY <2>5, <2>7 DEF Failed
    <3>2. found.ok = FALSE
      BY <2>4, <3>1
    <3>. QED BY <2>2, <2>7, <3>2 DEF found, entry
  <2>. QED BY <2>6, <2>7
<1>7. CASE ~zip
  <2>. HIDE DEF c, entry
  <2>1. entry.compressed = FALSE /\ entry.value = value
    BY <1>5, <1>7
  <2>2. found = [value |-> value, ok |-> TRUE]
    BY <2>1 DEF getEntry
  <2>. HIDE DEF found
  <2>3. found.ok = TRUE /\ found.value = value
    BY <2>2
  <2>. QED BY <2>1, <2>3 DEF found, entry
<1>. QED BY <1>6, <1>7

LEMMA InvSurvive ==
    ASSUME InputInv
    PROVE  ValuesSurviveCompression
<1>1. SUFFICES ASSUME NEW value \in {input} \union {parts[i] : i \in DOMAIN parts},
                      NEW n \in 1..(4 * CHUNK_SIZE + 1),
                      NEW enabled \in BOOLEAN, NEW works \in BOOLEAN,
                      NEW late \in BOOLEAN, NEW again \in BOOLEAN
               PROVE  LET entry == insertEntry(value, enabled, n, works)
                          found == getEntry(entry, late, again)
                      IN  /\ found.ok <=> (entry.compressed => again)
                          /\ found.ok => found.value = value
    BY Zenon DEF ValuesSurviveCompression
<1>2. input \in Seq(STRING) /\ parts \in Seq(Args)
    BY DEF InputInv
<1>3. \A i \in DOMAIN parts : parts[i] \in Seq(STRING)
  <2>1. parts \in Seq(Seq(STRING))
    BY <1>2, PartsEncoded
  <2>. QED BY <2>1
<1>4. value \in Seq(STRING)
    BY <1>2, <1>3
<1>5. n \in Nat \ {0}
    BY ChunkAssumption
<1>. QED BY <1>4, <1>5, EveryValueSurvives

(* In particular for the requests and the arguments of RespInputs.         *)
THEOREM ValuesAlwaysSurvive == InputSpec => []ValuesSurviveCompression
BY InputAlways, InvSurvive, PTL

-----------------------------------------------------------------------------
(* The writers of replies.                                                 *)

\* The pieces make up s: each lies where it is written, and none is missing.
Composed(pieces, s) ==
    /\ s \in Seq(STRING)
    /\ \A p \in pieces : /\ p.at \in Nat /\ p.bytes \in Seq(STRING)
                         /\ p.at + Len(p.bytes) <= Len(s)
                         /\ \A i \in 1..Len(p.bytes) : s[p.at + i] = p.bytes[i]
    /\ \A i \in 1..Len(s) : \E p \in pieces : i - p.at \in 1..Len(p.bytes)

LEMMA WrittenNothing == Composed({}, <<>>)
BY DEF Composed

LEMMA PieceIs ==
    ASSUME NEW at, NEW bytes
    PROVE  Piece(at, bytes).at = at /\ Piece(at, bytes).bytes = bytes
BY DEF Piece

LEMMA Concatenated ==
    ASSUME NEW s \in Seq(STRING), NEW t \in Seq(STRING)
    PROVE  /\ s \o t \in Seq(STRING) /\ Len(s \o t) = Len(s) + Len(t)
           /\ \A i \in 1..Len(s) : (s \o t)[i] = s[i]
           /\ \A i \in 1..Len(t) : (s \o t)[Len(s) + i] = t[i]
<1>. DEFINE st == s \o t
<1>1. Len(s) \in Nat /\ Len(t) \in Nat
    OBVIOUS
<1>2. /\ st \in Seq(STRING) /\ Len(st) = Len(s) + Len(t)
      /\ \A i \in 1..(Len(s) + Len(t)) : st[i] = IF i <= Len(s) THEN s[i] ELSE t[i - Len(s)]
    BY ConcatProperties
<1>. HIDE DEF st
<1>3. ASSUME NEW i \in 1..Len(s) PROVE st[i] = s[i]
  <2>1. i \in 1..(Len(s) + Len(t)) /\ i <= Len(s)
    BY <1>1
  <2>. QED BY <1>2, <2>1
<1>4. ASSUME NEW i \in 1..Len(t) PROVE st[Len(s) + i] = t[i]
  <2>1. Len(s) + i \in 1..(Len(s) + Len(t)) /\ ~(Len(s) + i <= Len(s)) /\ (Len(s) + i) - Len(s) = i
    BY <1>1
  <2>. QED BY <1>2, <2>1
<1>. QED BY <1>2, <1>3, <1>4, Zenon DEF st

\* One more piece, written where the others end.
LEMMA WrittenOn ==
    ASSUME NEW pieces, NEW s, NEW t \in Seq(STRING), Composed(pieces, s)
    PROVE  Composed(pieces \cup {Piece(Len(s), t)}, s \o t)
<1>. DEFINE new == Piece(Len(s), t)
            st == s \o t
<1>1. /\ s \in Seq(STRING)
      /\ \A p \in pieces : /\ p.at \in Nat /\ p.bytes \in Seq(STRING)
                           /\ p.at + Len(p.bytes) <= Len(s)
                           /\ \A i \in 1..Len(p.bytes) : s[p.at + i] = p.bytes[i]
      /\ \A i \in 1..Len(s) : \E p \in pieces : i - p.at \in 1..Len(p.bytes)
    BY DEF Composed
<1>2. Len(s) \in Nat /\ Len(t) \in Nat
    BY <1>1
<1>3. /\ st \in Seq(STRING) /\ Len(st) = Len(s) + Len(t)
      /\ \A i \in 1..Len(s) : st[i] = s[i]
      /\ \A i \in 1..Len(t) : st[Len(s) + i] = t[i]
    BY <1>1, Concatenated, Zenon
<1>4. new.at = Len(s) /\ new.bytes = t
    BY PieceIs, Zenon
<1>. HIDE DEF st, new
<1>5. ASSUME NEW p \in pieces
      PROVE  /\ p.at \in Nat /\ p.bytes \in Seq(STRING) /\ p.at + Len(p.bytes) <= Len(st)
             /\ \A i \in 1..Len(p.bytes) : st[p.at + i] = p.bytes[i]
  <2>. DEFINE a == p.at
              b == p.bytes
  <2>1. a \in Nat /\ b \in Seq(STRING) /\ Len(b) \in Nat /\ a + Len(b) <= Len(s)
        /\ \A i \in 1..Len(b) : s[a + i] = b[i]
    <3>1. a \in Nat /\ b \in Seq(STRING) /\ a + Len(b) <= Len(s) /\ \A i \in 1..Len(b) : s[a + i] = b[i]
      BY <1>1, Zenon
    <3>. HIDE DEF a, b
    <3>. QED BY <3>1
  <2>. HIDE DEF a, b
  <2>2. ASSUME NEW i \in 1..Len(b) PROVE st[a + i] = b[i]
    <3>1. a + i \in 1..Len(s)
      BY <1>2, <2>1
    <3>. QED BY <1>3, <2>1, <3>1, Zenon
  <2>3. a + Len(b) <= Len(st)
    BY <1>2, <1>3, <2>1
  <2>. QED BY <2>1, <2>2, <2>3, Zenon DEF a, b
<1>6. /\ new.at \in Nat /\ new.bytes \in Seq(STRING) /\ new.at + Len(new.bytes) <= Len(st)
      /\ \A i \in 1..Len(new.bytes) : st[new.at + i] = new.bytes[i]
  <2>1. Len(s) + Len(t) <= Len(st)
    BY <1>2, <1>3
  <2>. QED BY <1>2, <1>3, <1>4, <2>1, Zenon
<1>7. ASSUME NEW i \in 1..Len(st)
      PROVE  \E p \in pieces \cup {new} : i - p.at \in 1..Len(p.bytes)
  <2>1. CASE i \in 1..Len(s)
    BY <1>1, <2>1, Zenon
  <2>2. CASE i \notin 1..Len(s)
    <3>1. i - Len(s) \in 1..Len(t)
      BY <1>2, <1>3, <2>2
    <3>. QED BY <1>4, <3>1, Zenon
  <2>. QED BY <2>1, <2>2
<1>8. Composed(pieces \cup {new}, st)
    BY <1>3, <1>5, <1>6, <1>7, Zenon DEF Composed
<1>. QED BY <1>8, Zenon DEF new, st

\* A buffer that is exactly as long as what its pieces make up holds that.
LEMMA BufferIs ==
    ASSUME NEW pieces, NEW s, Composed(pieces, s)
    PROVE  Buffer(Len(s), pieces) = s
<1>. DEFINE covers(p, i) == i - p.at \in DOMAIN p.bytes
            at(i) == CHOOSE p \in pieces : covers(p, i)
            byte(i) == IF \E p \in pieces : covers(p, i) THEN at(i).bytes[i - at(i).at] ELSE Garbage
<1>1. s \in Seq(STRING) /\ Len(s) \in Nat
    BY DEF Composed
<1>2. ASSUME NEW i \in 1..Len(s) PROVE byte(i) = s[i]
  <2>1. PICK p \in pieces : i - p.at \in 1..Len(p.bytes)
    BY Zenon DEF Composed
  <2>2. \A q \in pieces : DOMAIN q.bytes = 1..Len(q.bytes)
    <3>1. ASSUME NEW q \in pieces PROVE DOMAIN q.bytes = 1..Len(q.bytes)
      <4>. DEFINE b == q.bytes
      <4>1. b \in Seq(STRING)
        BY Zenon DEF Composed
      <4>. HIDE DEF b
      <4>2. DOMAIN b = 1..Len(b)
        BY <4>1
      <4>. QED BY <4>2, Zenon DEF b
    <3>. QED BY <3>1
  <2>3. covers(p, i)
    BY <2>1, <2>2, Zenon
  <2>. DEFINE q == at(i)
              j == i - q.at
  <2>4. q \in pieces /\ covers(q, i)
    BY <2>3, Zenon
  <2>5. byte(i) = q.bytes[j]
    BY <2>3, Zenon
  <2>6. j \in 1..Len(q.bytes) /\ q.at \in Nat
    BY <2>2, <2>4, Zenon DEF Composed
  <2>. HIDE DEF q
  <2>7. q.at + j = i
    BY <2>6
  <2>8. s[q.at + j] = q.bytes[j]
    <3>. HIDE DEF j
    <3>. QED BY <2>4, <2>6, Zenon DEF Composed, q
  <2>. QED BY <2>5, <2>7, <2>8, Zenon
<1>3. Buffer(Len(s), pieces) = [i \in 1..Len(s) |-> byte(i)]
    BY Zenon DEF Buffer
<1>. HIDE DEF byte
<1>4. [i \in 1..Len(s) |-> byte(i)] = [i \in 1..Len(s) |-> s[i]]
    BY <1>2, Zenon
<1>5. s = [i \in 1..Len(s) |-> s[i]]
    BY <1>1
<1>. QED BY <1>3, <1>4, <1>5, Zenon

\* Three pieces, one after the other.
LEMMA ThreePieces ==
    ASSUME NEW a \in Seq(STRING), NEW b \in Seq(STRING), NEW c \in Seq(STRING)
    PROVE  LET pieces == {Piece(0, a), Piece(Len(a), b), Piece(Len(a) + Len(b), c)}
           IN  Composed(pieces, a \o b \o c)
               /\ Buffer(Len(a) + Len(b) + Len(c), pieces) = a \o b \o c
<1>. DEFINE ab == a \o b
            abc == ab \o c
            A == {Piece(0, a)}
            B == A \cup {Piece(Len(a), b)}
            C == B \cup {Piece(Len(a) + Len(b), c)}
<1>1. Len(<<>>) = 0 /\ <<>> \o a = a /\ Len(a) \in Nat /\ Len(b) \in Nat /\ Len(c) \in Nat
    OBVIOUS
<1>2. Composed({} \cup {Piece(Len(<<>>), a)}, <<>> \o a)
    BY WrittenNothing, WrittenOn, Zenon
<1>3. {} \cup {Piece(Len(<<>>), a)} = A
    BY <1>1, Zenon
<1>4. Composed(A, a)
    BY <1>1, <1>2, <1>3, Zenon
<1>. HIDE DEF A
<1>5. Composed(B, ab) /\ ab \in Seq(STRING) /\ Len(ab) = Len(a) + Len(b)
    BY <1>4, WrittenOn, Concatenated, Zenon
<1>. HIDE DEF B, ab
<1>6. Composed(C, abc) /\ Len(abc) = Len(a) + Len(b) + Len(c)
  <2>1. Piece(Len(a) + Len(b), c) = Piece(Len(ab), c)
    BY <1>5, Zenon
  <2>2. Composed(C, abc)
    BY <1>5, <2>1, WrittenOn, Zenon
  <2>3. Len(abc) = Len(ab) + Len(c)
    BY <1>5, Concatenated, Zenon
  <2>. QED BY <1>5, <2>2, <2>3, Zenon
<1>7. Buffer(Len(abc), C) = abc
    BY <1>6, BufferIs, Zenon
<1>8. C = {Piece(0, a), Piece(Len(a), b), Piece(Len(a) + Len(b), c)}
    BY Zenon DEF A, B
<1>. QED BY <1>6, <1>7, <1>8, Zenon DEF ab

\* What each writer is to write.
SimpleIs(message) ==
    makeRespSimpleString(message) = <<RESP_SIMPLE_PREFIX>> \o message \o CrLf
ErrorIs(message) == makeRespError(message) = RESP_ERROR_PREFIX \o message \o CrLf
Magnitude(value) == IF value < 0 THEN -value ELSE value
IntegerIs(value) ==
    makeRespInteger(value) =
        <<RESP_INTEGER_PREFIX>> \o (IF value < 0 THEN <<"-">> ELSE <<>>)
        \o u64_to_ascii(Magnitude(value)) \o CrLf
BulkStringIs(value) == makeRespBulkString(value) = Bulk(value)

LEMMA SimpleWritten ==
    ASSUME NEW message \in Seq(STRING)
    PROVE  SimpleIs(message)
<1>. DEFINE p == <<RESP_SIMPLE_PREFIX>>
            n == Len(message)
<1>1. RESP_SIMPLE_PREFIX \in STRING
    BY ReplyBytesAssumption, Zenon
<1>2. p \in Seq(STRING) /\ Len(p) = 1
    BY <1>1, OneOf, Zenon
<1>3. makeRespSimpleString(message)
        = Buffer(n + 3, {Piece(0, p), Piece(1, message), Piece(1 + n, CrLf)})
    BY Zenon DEF makeRespSimpleString
<1>. HIDE DEF p
<1>4. Buffer(Len(p) + n + Len(CrLf),
             {Piece(0, p), Piece(Len(p), message), Piece(Len(p) + n, CrLf)})
        = p \o message \o CrLf
    BY <1>2, ThreePieces, ByteTypes, Zenon
<1>5. n + 3 = Len(p) + n + Len(CrLf)
    BY <1>2, ByteTypes
<1>. QED BY <1>2, <1>3, <1>4, <1>5, Zenon DEF SimpleIs, p

LEMMA ErrorWritten ==
    ASSUME NEW message \in Seq(STRING)
    PROVE  ErrorIs(message)
<1>. DEFINE p == RESP_ERROR_PREFIX
            n == Len(message)
<1>1. p \in Seq(STRING)
    BY ReplyBytesAssumption, Zenon
<1>2. makeRespError(message)
        = Buffer(Len(p) + n + 2, {Piece(0, p), Piece(Len(p), message), Piece(Len(p) + n, CrLf)})
    BY Zenon DEF makeRespError
<1>. HIDE DEF p
<1>3. Buffer(Len(p) + n + Len(CrLf),
             {Piece(0, p), Piece(Len(p), message), Piece(Len(p) + n, CrLf)})
        = p \o message \o CrLf
    BY <1>1, ThreePieces, ByteTypes, Zenon
<1>. QED BY <1>2, <1>3, ByteTypes, Zenon DEF ErrorIs, p

LEMMA IntegerWritten ==
    ASSUME NEW value \in Int
    PROVE  IntegerIs(value) /\ Magnitude(value) \in Nat
<1>. DEFINE negative == IF value < 0 THEN 1 ELSE 0
            v == IF value < 0 THEN -(value + 1) + 1 ELSE value
            u == u64_to_ascii(v)
            p == <<RESP_INTEGER_PREFIX>>
            sign == IF value < 0 THEN <<"-">> ELSE <<>>
            P == {Piece(0, p), Piece(1, sign), Piece(1 + negative, u)}
            last == Piece(1 + negative + Len(u), CrLf)
            psu == p \o sign \o u
<1>1. v = Magnitude(value) /\ Magnitude(value) \in Nat /\ v \in Nat
    BY DEF Magnitude
<1>2. u \in Seq(STRING) /\ Len(u) \in Nat
    BY <1>1, AsciiType
<1>3. RESP_INTEGER_PREFIX \in STRING /\ "-" \in STRING
    BY ReplyBytesAssumption, Zenon
<1>4. p \in Seq(STRING) /\ Len(p) = 1
    BY <1>3, OneOf, Zenon
<1>5. sign \in Seq(STRING) /\ Len(sign) = negative /\ negative \in Nat
  <2>1. <<"-">> \in Seq(STRING) /\ Len(<<"-">>) = 1
    BY <1>3, OneOf, Zenon
  <2>2. <<>> \in Seq(STRING) /\ Len(<<>>) = 0
    OBVIOUS
  <2>3. CASE value < 0
    BY <2>1, <2>3
  <2>4. CASE ~(value < 0)
    BY <2>2, <2>4
  <2>. QED BY <2>3, <2>4
<1>6. makeRespInteger(value)
        = Buffer(1 + negative + Len(u) + 2,
                 {Piece(0, p), Piece(1, sign), Piece(1 + negative, u), last})
    BY Zenon DEF makeRespInteger
<1>. HIDE DEF u, v, p, sign, negative
<1>7. Composed(P, psu)
    BY <1>2, <1>4, <1>5, ThreePieces, Zenon
<1>8. psu \in Seq(STRING) /\ Len(psu) = 1 + negative + Len(u)
  <2>. DEFINE ps == p \o sign
  <2>1. ps \in Seq(STRING) /\ Len(ps) = Len(p) + Len(sign)
    BY <1>4, <1>5, Concatenated, Zenon
  <2>. HIDE DEF ps
  <2>2. ps \o u \in Seq(STRING) /\ Len(ps \o u) = Len(ps) + Len(u)
    BY <1>2, <2>1, Concatenated, Zenon
  <2>. QED BY <1>4, <1>5, <2>1, <2>2, Zenon DEF ps
<1>. HIDE DEF psu
<1>9. /\ Composed(P \cup {last}, psu \o CrLf)
      /\ Len(psu \o CrLf) = 1 + negative + Len(u) + 2
  <2>1. last = Piece(Len(psu), CrLf)
    BY <1>8, Zenon
  <2>. HIDE DEF P, last
  <2>2. Composed(P \cup {last}, psu \o CrLf)
    BY <1>7, <2>1, WrittenOn, ByteTypes, Zenon
  <2>3. Len(psu \o CrLf) = Len(psu) + Len(CrLf)
    BY <1>8, Concatenated, ByteTypes, Zenon
  <2>. QED BY <1>8, <2>2, <2>3, ByteTypes, Zenon
<1>10. P \cup {last} = {Piece(0, p), Piece(1, sign), Piece(1 + negative, u), last}
    BY Zenon
<1>11. makeRespInteger(value) = psu \o CrLf
    BY <1>6, <1>9, <1>10, BufferIs, Zenon
<1>12. u = u64_to_ascii(Magnitude(value))
    BY <1>1, Zenon DEF u
<1>13. IntegerIs(value)
    BY <1>11, <1>12, Zenon DEF IntegerIs, psu, p, sign
<1>. QED BY <1>1, <1>13

LEMMA HeaderWritten ==
    ASSUME NEW prefix \in STRING, NEW v \in Nat
    PROVE  LET u == u64_to_ascii(v)
           IN  Composed({Piece(0, <<prefix>>), Piece(1, u), Piece(1 + Len(u), CrLf)},
                       Header(prefix, v))
<1>. DEFINE u == u64_to_ascii(v)
            p == <<prefix>>
<1>1. u \in Seq(STRING)
    BY AsciiType
<1>2. p \in Seq(STRING) /\ Len(p) = 1
    BY OneOf, Zenon
<1>. HIDE DEF u, p
<1>3. Composed({Piece(0, p), Piece(Len(p), u), Piece(Len(p) + Len(u), CrLf)}, p \o u \o CrLf)
    BY <1>1, <1>2, ThreePieces, ByteTypes, Zenon
<1>. QED BY <1>2, <1>3, Zenon DEF Header, u, p

LEMMA BulkStringWritten ==
    ASSUME NEW value \in Seq(STRING)
    PROVE  BulkStringIs(value)
<1>. DEFINE v == Len(value)
            u == u64_to_ascii(v)
            d == Len(u)
            h == Header(RESP_BULK_PREFIX, v)
            hv == h \o value
            H == {Piece(0, <<RESP_BULK_PREFIX>>), Piece(1, u), Piece(1 + d, CrLf)}
            body == Piece(3 + d, value)
            last == Piece(3 + d + v, CrLf)
<1>1. v \in Nat
    OBVIOUS
<1>2. d \in Nat
    BY <1>1, AsciiType
<1>3. Composed(H, h)
    BY <1>1, HeaderWritten, ByteTypes, Zenon
<1>4. h \in Seq(STRING) /\ Len(h) = d + 3
    BY <1>1, HeaderPieces, ByteTypes, Zenon
<1>5. makeRespBulkString(value)
        = Buffer(1 + d + 2 + v + 2,
                 {Piece(0, <<RESP_BULK_PREFIX>>), Piece(1, u), Piece(1 + d, CrLf), body, last})
    BY Zenon DEF makeRespBulkString
<1>6. {Piece(0, <<RESP_BULK_PREFIX>>), Piece(1, u), Piece(1 + d, CrLf), body, last}
        = (H \cup {body}) \cup {last}
    BY Zenon
<1>7. Bulk(value) = hv \o CrLf
    BY Zenon DEF Bulk
<1>. HIDE DEF H, d, h, v
<1>8. Len(h) = 3 + d
    BY <1>2, <1>4
<1>9. Composed(H \cup {body}, hv) /\ hv \in Seq(STRING) /\ Len(hv) = 3 + d + v
  <2>1. body = Piece(Len(h), value)
    BY <1>8, Zenon
  <2>. HIDE DEF body
  <2>2. Composed(H \cup {body}, hv)
    BY <1>3, <2>1, WrittenOn, Zenon
  <2>3. hv \in Seq(STRING) /\ Len(hv) = Len(h) + Len(value)
    BY <1>4, Concatenated, Zenon
  <2>. QED BY <1>8, <2>2, <2>3, Zenon DEF v
<1>. HIDE DEF hv, body
<1>10. /\ Composed((H \cup {body}) \cup {last}, hv \o CrLf)
       /\ Len(hv \o CrLf) = 3 + d + v + 2
  <2>1. last = Piece(Len(hv), CrLf)
    BY <1>9, Zenon
  <2>. HIDE DEF last
  <2>2. Composed((H \cup {body}) \cup {last}, hv \o CrLf)
    BY <1>9, <2>1, WrittenOn, ByteTypes, Zenon
  <2>3. Len(hv \o CrLf) = Len(hv) + Len(CrLf)
    BY <1>9, Concatenated, ByteTypes, Zenon
  <2>. QED BY <1>9, <2>2, <2>3, ByteTypes, Zenon
<1>11. 3 + d + v + 2 = 1 + d + 2 + v + 2
    BY <1>1, <1>2
<1>. QED BY <1>5, <1>6, <1>7, <1>10, <1>11, BufferIs, Zenon DEF BulkStringIs

\* An array of replies: its header, and the replies one behind the other.
ArrayUpTo(elements, n) ==
    Loop([i \in DOMAIN elements |-> [bytes \in Seq(STRING) |-> bytes \o elements[i]]],
         Header(RESP_ARRAY_PREFIX, Len(elements)), n)
ArrayIs(elements) == makeRespArray(elements) = ArrayUpTo(elements, Len(elements))

LEMMA ArraySteps ==
    ASSUME NEW elements \in Seq(Seq(STRING))
    PROVE  /\ ArrayUpTo(elements, 0) = Header(RESP_ARRAY_PREFIX, Len(elements))
           /\ \A n \in 0..Len(elements) : ArrayUpTo(elements, n) \in Seq(STRING)
           /\ \A n \in 1..Len(elements) :
                 ArrayUpTo(elements, n) = ArrayUpTo(elements, n - 1) \o elements[n]
<1>. DEFINE S == Seq(STRING)
            m == Len(elements)
            passes == [i \in DOMAIN elements |-> [bytes \in S |-> bytes \o elements[i]]]
            x == Header(RESP_ARRAY_PREFIX, m)
<1>1. m \in Nat /\ DOMAIN elements = 1..m
    OBVIOUS
<1>2. x \in S
    BY <1>1, ByteTypes, HeaderPieces, Zenon
<1>3. \A i \in 1..m : elements[i] \in S
    BY ElementOfSeq
<1>4. \A i \in 1..m, bytes \in S : bytes \o elements[i] \in S
    BY <1>3, ConcatProperties
<1>. HIDE DEF S, m
<1>5. PassesOn(S, passes, m)
    BY <1>1, <1>4 DEF PassesOn
<1>6. PassByPass(S, passes, x, m)
    BY <1>1, <1>2, <1>5, LoopSteps
<1>7. \A n : ArrayUpTo(elements, n) = Loop(passes, x, n)
    BY DEF ArrayUpTo, S, m
<1>8. \A i \in 1..m, bytes \in S : passes[i][bytes] = bytes \o elements[i]
    BY <1>1
<1>. HIDE DEF passes, x
<1>9. ASSUME NEW n \in 1..m
      PROVE  Loop(passes, x, n) = Loop(passes, x, n - 1) \o elements[n]
  <2>1. n - 1 \in 0..m
    BY <1>1
  <2>2. Loop(passes, x, n) = passes[n][Loop(passes, x, n - 1)] /\ Loop(passes, x, n - 1) \in S
    BY <1>6, <2>1 DEF PassByPass
  <2>. QED BY <1>8, <2>2, Zenon
<1>. QED BY <1>6, <1>7, <1>9, Zenon DEF PassByPass, x, m, S

\* One step of the offsets that makeRespArray() computes.
Offset(f, i, elements, header) ==
    IF i = 1 THEN header ELSE f[i - 1] + Len(elements[i - 1])
Offsets(f, elements, header) ==
    f = [i \in 1..(Len(elements) + 1) |-> Offset(f, i, elements, header)]

\* An element is written where the array ends without it and those after it.
LEMMA OffsetsAre ==
    ASSUME NEW elements \in Seq(Seq(STRING))
    PROVE  LET header == 1 + Len(u64_to_ascii(Len(elements))) + 2
               f == CHOOSE g : Offsets(g, elements, header)
           IN  \A i \in 1..(Len(elements) + 1) : f[i] = Len(ArrayUpTo(elements, i - 1))
<1>. DEFINE m == Len(elements)
            k == Len(u64_to_ascii(m))
            header == 1 + k + 2
            f == CHOOSE g : Offsets(g, elements, header)
            A(n) == ArrayUpTo(elements, n)
            h == [i \in 1..(m + 1) |-> Len(A(i - 1))]
            T == {i \in Nat : i <= m => f[i + 1] = Len(A(i))}
<1>1. m \in Nat
    OBVIOUS
<1>2. k \in Nat
    BY <1>1, AsciiType
<1>3. Len(A(0)) = header
  <2>1. A(0) = Header(RESP_ARRAY_PREFIX, m)
    BY ArraySteps, Zenon
  <2>2. Len(Header(RESP_ARRAY_PREFIX, m)) = k + 3
    BY <1>1, ByteTypes, HeaderPieces, Zenon
  <2>. HIDE DEF k
  <2>. QED BY <1>2, <2>1, <2>2
<1>4. ASSUME NEW n \in 1..m PROVE Len(A(n)) = Len(A(n - 1)) + Len(elements[n])
  <2>. DEFINE a == A(n - 1)
              e == elements[n]
  <2>1. n - 1 \in 0..m /\ e \in Seq(STRING)
    BY <1>1, ElementOfSeq
  <2>2. a \in Seq(STRING) /\ A(n) = a \o e
    BY <2>1, ArraySteps, Zenon
  <2>. HIDE DEF a, e
  <2>3. Len(a \o e) = Len(a) + Len(e)
    BY <2>1, <2>2, Concatenated, Zenon
  <2>. QED BY <2>2, <2>3, Zenon DEF a, e
<1>. HIDE DEF A, k
<1>5. Offsets(h, elements, header)
  <2>1. ASSUME NEW i \in 1..(m + 1) PROVE Len(A(i - 1)) = Offset(h, i, elements, header)
    <3>1. CASE i = 1
      BY <1>3, <3>1 DEF Offset
    <3>2. CASE i # 1
      <4>1. i - 1 \in 1..m /\ i - 1 \in 1..(m + 1)
        BY <1>1, <3>2
      <4>2. h[i - 1] = Len(A((i - 1) - 1))
        BY <4>1, Zenon
      <4>3. Len(A(i - 1)) = Len(A((i - 1) - 1)) + Len(elements[i - 1])
        BY <1>4, <4>1, Zenon
      <4>. QED BY <3>2, <4>2, <4>3, Zenon DEF Offset
    <3>. QED BY <3>1, <3>2
  <2>2. h = [i \in 1..(m + 1) |-> Len(A(i - 1))]
    OBVIOUS
  <2>. HIDE DEF h
  <2>. QED BY <2>1, <2>2, Zenon DEF Offsets
<1>6. Offsets(f, elements, header)
    BY <1>5, Zenon
<1>. HIDE DEF f, h
<1>7. \A i \in 1..(m + 1) : f[i] = Offset(f, i, elements, header)
    BY <1>6, Zenon DEF Offsets
<1>8. 0 \in T
  <2>1. 1 \in 1..(m + 1) /\ 0 + 1 = 1
    BY <1>1
  <2>2. f[1] = header
    BY <1>7, <2>1, Zenon DEF Offset
  <2>. QED BY <1>3, <2>1, <2>2
<1>9. ASSUME NEW i \in T PROVE i + 1 \in T
  <2>1. SUFFICES ASSUME i + 1 <= m PROVE f[(i + 1) + 1] = Len(A(i + 1))
    OBVIOUS
  <2>. DEFINE j == (i + 1) + 1
  <2>2. /\ i + 1 \in 1..m /\ j \in 1..(m + 1) /\ j # 1 /\ j - 1 = i + 1 /\ (i + 1) - 1 = i
        /\ f[i + 1] = Len(A(i))
    BY <1>1, <2>1
  <2>. HIDE DEF j
  <2>3. f[j] = f[i + 1] + Len(elements[i + 1])
    BY <1>7, <2>2, Zenon DEF Offset
  <2>4. Len(A(i + 1)) = Len(A(i)) + Len(elements[i + 1])
    BY <1>4, <2>2, Zenon
  <2>. QED BY <2>2, <2>3, <2>4, Zenon DEF j
<1>10. T \in SUBSET Nat
    OBVIOUS
<1>11. ASSUME NEW i \in 1..(m + 1) PROVE f[i] = Len(A(i - 1))
  <2>. DEFINE j == i - 1
  <2>1. j \in Nat /\ j <= m /\ j + 1 = i
    BY <1>1
  <2>2. j \in T
    <3>. HIDE DEF T, j
    <3>. QED BY <1>8, <1>9, <1>10, <2>1, SetInduction, Zenon
  <2>3. f[j + 1] = Len(A(j))
    BY <2>1, <2>2
  <2>. QED BY <2>1, <2>3
<1>. QED BY <1>11, Zenon DEF f, A, k

LEMMA ArrayWritten ==
    ASSUME NEW elements \in Seq(Seq(STRING))
    PROVE  ArrayIs(elements)
<1>. DEFINE m == Len(elements)
            u == u64_to_ascii(m)
            header == 1 + Len(u) + 2
            f == CHOOSE g : Offsets(g, elements, header)
            A(n) == ArrayUpTo(elements, n)
            H == {Piece(0, <<RESP_ARRAY_PREFIX>>), Piece(1, u), Piece(1 + Len(u), CrLf)}
            E(n) == {Piece(f[i], elements[i]) : i \in 1..n}
            T == {n \in Nat : n <= m => Composed(H \cup E(n), A(n))}
<1>1. m \in Nat /\ DOMAIN elements = 1..m
    OBVIOUS
<1>2. \A i \in 1..(m + 1) : f[i] = Len(A(i - 1))
    BY OffsetsAre, Zenon
<1>3. makeRespArray(elements) = Buffer(f[m + 1], H \cup {Piece(f[i], elements[i]) : i \in DOMAIN elements})
    BY Zenon DEF makeRespArray, Offsets, Offset
<1>4. Composed(H, Header(RESP_ARRAY_PREFIX, m))
    BY <1>1, ByteTypes, HeaderWritten, Zenon
<1>5. A(0) = Header(RESP_ARRAY_PREFIX, m)
    BY ArraySteps, Zenon
<1>. HIDE DEF H, f
<1>6. 0 \in T
  <2>1. 1..0 = {}
    OBVIOUS
  <2>2. H \cup E(0) = H
    BY <2>1, Zenon
  <2>3. Composed(H \cup E(0), A(0))
    BY <1>4, <1>5, <2>2, Zenon
  <2>. HIDE DEF E, A
  <2>. QED BY <2>3
<1>7. ASSUME NEW n \in T PROVE n + 1 \in T
  <2>. DEFINE j == n + 1
              e == elements[j]
              a == A(n)
  <2>1. n \in Nat /\ j \in Nat
    OBVIOUS
  <2>2. SUFFICES ASSUME j <= m PROVE Composed(H \cup E(j), A(j))
    <3>. HIDE DEF E, A
    <3>. QED BY <2>1, <2>2
  <2>3. n <= m /\ j \in 1..m /\ j \in 1..(m + 1) /\ j - 1 = n /\ n \in 0..m
    BY <1>1, <2>1, <2>2
  <2>4. Composed(H \cup E(n), a)
    <3>. HIDE DEF E, A
    <3>. QED BY <2>3
  <2>5. e \in Seq(STRING)
    BY <2>3, ElementOfSeq
  <2>6. A(j) = a \o e
    BY <2>3, ArraySteps, Zenon
  <2>7. f[j] = Len(a)
    BY <1>2, <2>3, Zenon
  <2>8. E(j) = E(n) \cup {Piece(f[j], e)}
    <3>1. 1..j = 1..n \cup {j}
      BY <2>1
    <3>. HIDE DEF j
    <3>. QED BY <3>1, Zenon
  <2>. HIDE DEF E, A, a, e, j
  <2>9. Composed((H \cup E(n)) \cup {Piece(Len(a), e)}, a \o e)
    BY <2>4, <2>5, WrittenOn, Zenon
  <2>10. H \cup E(j) = (H \cup E(n)) \cup {Piece(Len(a), e)}
    BY <2>7, <2>8, Zenon
  <2>. QED BY <2>6, <2>9, <2>10, Zenon
<1>8. T \in SUBSET Nat
    OBVIOUS
<1>9. m \in T
  <2>. HIDE DEF T
  <2>. QED BY <1>1, <1>6, <1>7, <1>8, SetInduction, Zenon
<1>10. Composed(H \cup E(m), A(m))
  <2>. HIDE DEF E, A
  <2>. QED BY <1>1, <1>9
<1>11. f[m + 1] = Len(A(m))
  <2>1. m + 1 \in 1..(m + 1) /\ (m + 1) - 1 = m
    BY <1>1
  <2>. QED BY <1>2, <2>1, Zenon
<1>12. makeRespArray(elements) = Buffer(Len(A(m)), H \cup E(m))
    BY <1>1, <1>3, <1>11, Zenon
<1>. QED BY <1>10, <1>12, BufferIs, Zenon DEF ArrayIs

\* The writers compute the size of a reply before they write it, and leave no
\* byte of it out and none over: for every message, number, value and nested
\* replies, what each writes is its prefix, its length where it has one, its
\* bytes and CR LF, and the digits of an integer stand for it.
THEOREM RepliesAreFramed ==
    /\ \A message \in Seq(STRING) : SimpleIs(message) /\ ErrorIs(message)
    /\ \A value \in Int : IntegerIs(value) /\ IsAscii(u64_to_ascii(Magnitude(value)), Magnitude(value))
    /\ \A value \in Seq(STRING) : BulkStringIs(value)
    /\ \A elements \in Seq(Seq(STRING)) : ArrayIs(elements)
BY SimpleWritten, ErrorWritten, IntegerWritten, BulkStringWritten, ArrayWritten, AsciiIs, Zenon

\* An array of bulk strings that makeRespArray() and makeRespBulkString() write
\* is the request of these strings: parseRespMessageLength() finds all of it.
THEOREM ArraysOfBulksAreRequests ==
    ASSUME NEW args \in Seq(Seq(STRING))
    PROVE  LET reply == makeRespArray([i \in DOMAIN args |-> makeRespBulkString(args[i])])
           IN  /\ reply = Encode(args)
               /\ parseRespMessageLength(reply, 1) = Parse("complete", Len(reply))
<1>. DEFINE elements == [i \in DOMAIN args |-> makeRespBulkString(args[i])]
            bulks == [i \in DOMAIN args |-> Bulk(args[i])]
            m == Len(args)
            S == Seq(STRING)
<1>1. m \in Nat /\ DOMAIN args = 1..m
    OBVIOUS
<1>2. \A i \in 1..m : args[i] \in S
    BY ElementOfSeq
<1>3. \A i \in 1..m : makeRespBulkString(args[i]) = Bulk(args[i]) /\ Bulk(args[i]) \in S
    BY <1>2, BulkStringWritten, BulkPieces, Zenon DEF BulkStringIs
<1>4. elements = bulks
    BY <1>1, <1>3, Zenon
<1>5. bulks \in Seq(S) /\ Len(bulks) = m /\ DOMAIN bulks = 1..m
  <2>. HIDE DEF S, m
  <2>1. bulks \in [1..m -> S]
    BY <1>1, <1>3, Zenon
  <2>. HIDE DEF bulks
  <2>. QED BY <1>1, <2>1
<1>6. \A i \in 1..m : bulks[i] = Bulk(args[i])
    BY <1>1, Zenon
<1>. HIDE DEF bulks, elements
<1>7. ArrayUpTo(bulks, m) = EncodeUpTo(args, m)
  <2>. DEFINE P == [i \in 1..m |-> [bytes \in S |-> bytes \o bulks[i]]]
              Q == [i \in 1..m |-> [bytes \in S |-> bytes \o Bulk(args[i])]]
              x == Header(RESP_ARRAY_PREFIX, m)
  <2>1. P = Q
    BY <1>6, Zenon
  <2>2. ArrayUpTo(bulks, m) = Loop(P, x, m)
    BY <1>5, Zenon DEF ArrayUpTo
  <2>3. EncodeUpTo(args, m) = Loop(Q, x, m)
    BY <1>1, Zenon DEF EncodeUpTo
  <2>. HIDE DEF P, Q
  <2>. QED BY <2>1, <2>2, <2>3, Zenon
<1>8. makeRespArray(elements) = Encode(args)
    BY <1>4, <1>5, <1>7, ArrayWritten, Zenon DEF ArrayIs, Encode
<1>. DEFINE e == Encode(args)
<1>9. e \in Seq(STRING)
  <2>1. m \in 0..m
    BY <1>1
  <2>. QED BY <2>1, EncodeSteps, Zenon DEF Encode
<1>10. Laid(e, 0, e) /\ Len(e) <= Len(e)
  <2>. HIDE DEF e
  <2>. QED BY <1>9 DEF Laid
<1>11. parseRespMessageLength(e, 1) = Parse("complete", Len(e))
    BY <1>9, <1>10, RequestRoundTrip, Zenon
<1>. QED BY <1>8, <1>11, Zenon DEF elements
=============================================================================
