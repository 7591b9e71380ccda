--------------------------- MODULE RespProtocol ---------------------------
(***************************************************************************)
(* The two parsers of a RESP request in protocol.cpp.  The reader uses     *)
(* parseRespMessageLength() to find where a request ends in its buffer,    *)
(* and the handler parseRespCommand() to take that request apart, so the   *)
(* two must agree on what a request is.                                    *)
(*                                                                         *)
(* A byte is a string; only the bytes the grammar tells apart occur.       *)
(* Buffers are sequences, so every index is one more than in the code.     *)
(***************************************************************************)
EXTENDS Loops, Sequences

RESP_ARRAY_PREFIX == "*"
RESP_BULK_PREFIX == "$"
RESP_CR == "cr"
RESP_LF == "lf"

DigitBytes == <<"0", "1", "2", "3", "4", "5", "6", "7", "8", "9">>
Digits == {"0", "1", "2", "3", "4", "5", "6", "7", "8", "9"}
Digit == [d \in Digits |-> (CHOOSE i \in 1..10 : DigitBytes[i] = d) - 1]
is_digit(c) == c \in Digits

ASSUME BytesAssumption ==
    Digits \cup {RESP_ARRAY_PREFIX, RESP_BULK_PREFIX, RESP_CR, RESP_LF} \subseteq STRING

CrLfAt(buf, idx) == idx < Len(buf) /\ buf[idx] = RESP_CR /\ buf[idx + 1] = RESP_LF

-----------------------------------------------------------------------------
(* The loop over a decimal number that both parsers contain.  It ends at   *)
(* the CR LF after the number, at the end of the buffer, or in an error.   *)

\* Seeded fault: the digits are added up, none of them is shifted.
DecimalUnshifted(digits) ==
    Loop([i \in DOMAIN digits |-> [val \in Nat |-> val + Digit[digits[i]]]], 0, Len(digits))

\* The number that a sequence of digits stands for.
Decimal(digits) ==
    Loop([i \in DOMAIN digits |-> [val \in Nat |-> val * 10 + Digit[digits[i]]]], 0, Len(digits))

\* The first index from idx on that holds no digit.
DigitsEnd(buf, idx) ==
    CHOOSE i \in idx..(Len(buf) + 1) :
        /\ \A j \in idx..(i - 1) : is_digit(buf[j])
        /\ i <= Len(buf) => ~is_digit(buf[i])

Number(end, at, val) == [end |-> end, at |-> at, val |-> val]

read_crlf_decimal(buf, idx) ==
    LET stop == DigitsEnd(buf, idx)
        val  == Decimal(SubSeq(buf, idx, stop - 1))
    IN  IF stop = idx THEN Number("error", stop, 0)
        ELSE IF stop > Len(buf) THEN Number("cut", stop, val)
        ELSE IF CrLfAt(buf, stop) THEN Number("crlf", stop + 2, val)
        ELSE Number("error", stop, 0)

-----------------------------------------------------------------------------
Parse(status, length) == [status |-> status, length |-> length]

\* How far a parser has come, and whether it goes on ("complete").
Place(status, idx) == [status |-> status, idx |-> idx]
Places == [status : {"complete", "incomplete", "error"}, idx : Nat]

\* Seeded fault: the CR LF after a bulk string is not waited for.
BulkAtWithoutCrLf(buf, idx) ==
    LET len == read_crlf_decimal(buf, idx + 1)
        end == len.at + len.val
    IN  IF idx > Len(buf) THEN Place("incomplete", idx)
        ELSE IF buf[idx] # RESP_BULK_PREFIX \/ len.end = "error" THEN Place("error", idx)
        ELSE IF end - 1 > Len(buf) THEN Place("incomplete", idx)
        ELSE Place("complete", end + 2)

\* Seeded fault: the two bytes after a bulk string are skipped unseen.
BulkAtUnchecked(buf, idx) ==
    LET len == read_crlf_decimal(buf, idx + 1)
        end == len.at + len.val
    IN  IF idx > Len(buf) THEN Place("incomplete", idx)
        ELSE IF buf[idx] # RESP_BULK_PREFIX \/ len.end = "error" THEN Place("error", idx)
        ELSE IF end + 1 > Len(buf) THEN Place("incomplete", idx)
        ELSE Place("complete", end + 2)

\* One bulk string, from idx on.
BulkAt(buf, idx) ==
    LET len == read_crlf_decimal(buf, idx + 1)
        end == len.at + len.val
    IN  IF idx > Len(buf) THEN Place("incomplete", idx)
        ELSE IF buf[idx] # RESP_BULK_PREFIX \/ len.end = "error" THEN Place("error", idx)
        ELSE IF end + 1 > Len(buf) THEN Place("incomplete", idx)
        ELSE IF ~CrLfAt(buf, end) THEN Place("error", idx)
        ELSE Place("complete", end + 2)

SkipBulk(buf) == [p \in Places |-> IF p.status = "complete" THEN BulkAt(buf, p.idx) ELSE p]

parseRespMessageLength(buf, start) ==
    LET n == read_crlf_decimal(buf, start + 1)
        p == Repeat(SkipBulk(buf), Place("complete", n.at), n.val)
    IN  IF start > Len(buf) \/ buf[start] # RESP_ARRAY_PREFIX \/ n.end = "error"
        THEN Parse("error", 0)
        ELSE Parse(p.status, IF p.status = "complete" THEN p.idx - start ELSE 0)

-----------------------------------------------------------------------------
NoCommand == <<>>

\* How far parseRespCommand() has come, with the arguments it found.
Taken(ok, idx, args) == [ok |-> ok, idx |-> idx, args |-> args]
Takens == [ok : BOOLEAN, idx : Nat, args : Seq(Seq(STRING))]

TakeBulk(payload) ==
    [t \in Takens |->
        LET len == read_crlf_decimal(payload, t.idx + 1)
            end == len.at + len.val
        IN  IF \/ ~t.ok
               \/ t.idx > Len(payload) \/ payload[t.idx] # RESP_BULK_PREFIX
               \/ len.end # "crlf" \/ end + 1 > Len(payload) \/ ~CrLfAt(payload, end)
            THEN [t EXCEPT !.ok = FALSE]
            ELSE Taken(TRUE, end + 2, Append(t.args, SubSeq(payload, len.at, end - 1)))]

parseRespCommand(payload) ==
    LET n == read_crlf_decimal(payload, 2)
        t == Repeat(TakeBulk(payload), Taken(TRUE, n.at, <<>>), n.val)
    IN  IF \/ payload = <<>> \/ payload[1] # RESP_ARRAY_PREFIX
           \/ n.end # "crlf" \/ n.val < 1 \/ n.val > 3 \/ ~t.ok
        THEN NoCommand
        ELSE t.args
=============================================================================
