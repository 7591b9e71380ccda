----------------------------- MODULE RespReply -----------------------------
(***************************************************************************)
(* The writers of RESP replies in protocol.cpp.  Each computes the size of *)
(* its reply first, takes a buffer of that size, and then writes piece by  *)
(* piece at the offsets where the pieces belong.  A piece that does not    *)
(* fit is lost here, and a byte that is never written is Garbage.          *)
(*                                                                         *)
(* The ready-made replies of the code (OK, QUEUED and its own errors) are  *)
(* what these writers write for the same message.                          *)
(***************************************************************************)
EXTENDS RespProtocol

RESP_SIMPLE_PREFIX == "+"
RESP_INTEGER_PREFIX == ":"
RESP_ERROR_PREFIX == <<"-", "E", "R", "R", " ">>
RESP_NULL_BULK == <<"$", "-", "1", "cr", "lf">>
CrLf == <<RESP_CR, RESP_LF>>

ASSUME ReplyBytesAssumption ==
    /\ {RESP_SIMPLE_PREFIX, RESP_INTEGER_PREFIX, "-"} \subseteq STRING
    /\ RESP_ERROR_PREFIX \in Seq(STRING)

Garbage == "garbage"
Piece(at, bytes) == [at |-> at, bytes |-> bytes]
\* A buffer of total bytes after its pieces have been written; offsets count
\* from 0, as in the code.
Buffer(total, pieces) ==
    LET covers(p, i) == i - p.at \in DOMAIN p.bytes
    IN  [i \in 1..total |->
            IF \E p \in pieces : covers(p, i)
            THEN LET p == CHOOSE p \in pieces : covers(p, i) IN p.bytes[i - p.at]
            ELSE Garbage]

\* Digits from the last to the first, then reversed.
u64_to_ascii(v) ==
    LET digits[w \in 0..v] ==
            LET r == DigitBytes[(w % 10) + 1]
            IN  IF w < 10 THEN <<r>> ELSE Append(digits[w \div 10], r)
    IN  digits[v]

makeRespSimpleString(message) ==
    Buffer(Len(message) + 3,
           {Piece(0, <<RESP_SIMPLE_PREFIX>>), Piece(1, message),
            Piece(1 + Len(message), CrLf)})

makeRespError(message) ==
    LET prefixLen == Len(RESP_ERROR_PREFIX)
    IN  Buffer(prefixLen + Len(message) + 2,
               {Piece(0, RESP_ERROR_PREFIX), Piece(prefixLen, message),
                Piece(prefixLen + Len(message), CrLf)})

makeRespInteger(value) ==
    LET negative == IF value < 0 THEN 1 ELSE 0
        digits   == u64_to_ascii(IF value < 0 THEN -(value + 1) + 1 ELSE value)
    IN  Buffer(1 + negative + Len(digits) + 2,
               {Piece(0, <<RESP_INTEGER_PREFIX>>),
                Piece(1, IF value < 0 THEN <<"-">> ELSE <<>>),
                Piece(1 + negative, digits),
                Piece(1 + negative + Len(digits), CrLf)})

\* Seeded fault: the length is taken to be one digit long.
makeRespBulkStringOneDigit(value) ==
    LET digits == u64_to_ascii(Len(value))
        d == Len(digits)
    IN  Buffer(1 + 1 + 2 + Len(value) + 2,
               {Piece(0, <<RESP_BULK_PREFIX>>), Piece(1, digits), Piece(1 + d, CrLf),
                Piece(3 + d, value), Piece(3 + d + Len(value), CrLf)})
makeRespBulkString(value) ==
    LET digits == u64_to_ascii(Len(value))
        d == Len(digits)
    IN  Buffer(1 + d + 2 + Len(value) + 2,
               {Piece(0, <<RESP_BULK_PREFIX>>), Piece(1, digits), Piece(1 + d, CrLf),
                Piece(3 + d, value), Piece(3 + d + Len(value), CrLf)})

\* The elements are replies that have been written already.
makeRespArray(elements) ==
    LET digits == u64_to_ascii(Len(elements))
        header == 1 + Len(digits) + 2
        offset[i \in 1..(Len(elements) + 1)] ==
            IF i = 1 THEN header ELSE offset[i - 1] + Len(elements[i - 1])
    IN  Buffer(offset[Len(elements) + 1],
               {Piece(0, <<RESP_ARRAY_PREFIX>>), Piece(1, digits),
                Piece(1 + Len(digits), CrLf)} \cup
               {Piece(offset[i], elements[i]) : i \in DOMAIN elements})
=============================================================================
