-------------------------- MODULE MCRespProtocol --------------------------
(* Small requests for RespInputs, and the writers of replies, checked on   *)
(* the arguments of the same requests.                                     *)
EXTENDS RespInputs, SequencesExt

Ten == [i \in 1..10 |-> "x"]
SomeArgs == {<<>>, <<"x">>, <<"$", "cr", "lf">>, Ten}
SomeBytes == {"*", "$", "cr", "lf", "0", "1", "2", "x"}

-----------------------------------------------------------------------------
(* The reference for replies: what a RESP client reads in bytes b from i   *)
(* on, and where it goes on reading.                                       *)
Read(reply, next) == [reply |-> reply, next |-> next]
Line(b, i) == SubSeq(b, i, (CHOOSE j \in i..Len(b) :
                               /\ SubSeq(b, j, j + 1) = CrLf
                               /\ \A h \in i..(j - 1) : SubSeq(b, h, h + 1) # CrLf) - 1)
RECURSIVE Value(_)
Value(line) ==
    IF line = <<>> THEN 0
    ELSE IF Head(line) = "-" THEN -Value(Tail(line))
    ELSE Value(Front(line)) * 10 + Digit[Last(line)]

RECURSIVE Decode(_, _)
Decode(b, i) ==
    LET line == Line(b, i + 1)
        next == i + Len(line) + 3
        Elements[n \in Nat] ==
            IF n = 0 THEN Read(<<>>, next)
            ELSE LET before == Elements[n - 1]
                     this   == Decode(b, before.next)
                 IN  Read(Append(before.reply, this.reply), this.next)
    IN  CASE b[i] \in {"+", "-"} -> Read(<<b[i], line>>, next)
          [] b[i] = ":" -> Read(<<":", Value(line)>>, next)
          [] b[i] = "*" -> Read(<<"*", Elements[Value(line)].reply>>,
                                Elements[Value(line)].next)
          [] b[i] = "$" -> IF Value(line) < 0 THEN Read(<<"nil">>, next)
                           ELSE Read(<<"$", SubSeq(b, next, next + Value(line) - 1)>>,
                                     next + Value(line) + 2)

\* Replies as the client means them, and as the server writes them.
Plain == {<<"+", <<"O", "K">>>>, <<"-", Tail(RESP_ERROR_PREFIX) \o Ten>>, <<"nil">>} \cup
         {<<":", n>> : n \in {-120, -1, 0, 1, 10}} \cup {<<"$", arg>> : arg \in SomeArgs}
RECURSIVE Write(_)
Write(reply) ==
    CASE reply[1] = "+" -> makeRespSimpleString(reply[2])
      [] reply[1] = "-" -> makeRespError(SubSeq(reply[2], 5, Len(reply[2])))
      [] reply[1] = ":" -> makeRespInteger(reply[2])
      [] reply[1] = "$" -> makeRespBulkString(reply[2])
      [] reply[1] = "nil" -> RESP_NULL_BULK
      [] reply[1] = "*" -> makeRespArray([i \in DOMAIN reply[2] |-> Write(reply[2][i])])

Understood(reply) == Decode(Write(reply), 1) = Read(reply, Len(Write(reply)) + 1)
AllUnderstood ==
    /\ \A reply \in Plain : Understood(reply)
    /\ \A n \in 0..2 : \A elements \in [1..n -> Plain] : Understood(<<"*", elements>>)
    /\ Understood(<<"*", [i \in 1..12 |-> <<":", i>>]>>)

(* Replies are framed as their client expects: it reads from the bytes of  *)
(* every reply, those of an EXEC with its nested replies included, what    *)
(* was meant, up to the last byte and no further; and an array of bulk     *)
(* strings is read by the server's own parsers as that request.            *)
RepliesUnderstood ==
    LET reply == Write(<<"*", [i \in DOMAIN parts |-> <<"$", parts[i]>>]>>)
    IN  cut + extra + replaced = 0 =>
        /\ AllUnderstood
        /\ parseRespMessageLength(reply, 1) = Parse("complete", Len(reply))
        /\ reply = Encode(parts)
=============================================================================
