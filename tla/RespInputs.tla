---------------------------- MODULE RespInputs ----------------------------
(***************************************************************************)
(* Inputs for the parsers of RespProtocol: every request built from some   *)
(* arguments, every prefix of it, the request with bytes after it, and     *)
(* with bytes of it replaced.  The environment edits the input; each state *)
(* is one more input for the parsers.  The compressor is checked on the    *)
(* arguments of the same requests.                                         *)
(***************************************************************************)
EXTENDS RespReply, Compressor

CONSTANTS Args,        \* the arguments of requests
          Bytes,       \* the bytes that are appended or put in place of others
          MaxArgs,     \* the longest request
          MaxEdits     \* bytes appended or replaced

ASSUME InputsAssumption ==
    /\ Args \subseteq Seq(STRING) /\ Bytes \subseteq STRING
    /\ MaxArgs \in Nat /\ MaxEdits \in Nat

VARIABLES parts,       \* the request the client means
          input,       \* the bytes the parsers are given
          cut,         \* number of bytes missing at the end
          extra,       \* number of bytes that follow the request
          replaced     \* number of bytes replaced

inputVars == <<parts, input, cut, extra, replaced>>

(* The reference: how a RESP client writes a request.                      *)
Header(prefix, n) == <<prefix>> \o u64_to_ascii(n) \o CrLf
Bulk(arg) == Header(RESP_BULK_PREFIX, Len(arg)) \o arg \o CrLf
\* A request of all the arguments, as far as the end of argument n.
EncodeUpTo(args, n) ==
    Loop([i \in DOMAIN args |-> [bytes \in Seq(STRING) |-> bytes \o Bulk(args[i])]],
         Header(RESP_ARRAY_PREFIX, Len(args)), n)
Encode(args) == EncodeUpTo(args, Len(args))

InputInit == /\ parts \in UNION {[1..n -> Args] : n \in 1..MaxArgs}
             /\ input = Encode(parts)
             /\ cut = 0 /\ extra = 0 /\ replaced = 0

Cut == /\ extra = 0 /\ replaced = 0 /\ input # <<>>
       /\ input' = SubSeq(input, 1, Len(input) - 1)
       /\ cut' = cut + 1
       /\ UNCHANGED <<parts, extra, replaced>>

Extend == /\ cut = 0 /\ extra + replaced < MaxEdits
          /\ \E b \in Bytes : input' = Append(input, b)
          /\ extra' = extra + 1
          /\ UNCHANGED <<parts, cut, replaced>>

Replace == /\ cut = 0 /\ extra + replaced < MaxEdits /\ Len(parts) < MaxArgs
           /\ \E i \in DOMAIN input, b \in Bytes :
                 /\ input[i] # b
                 /\ input' = [input EXCEPT ![i] = b]
           /\ replaced' = replaced + 1
           /\ UNCHANGED <<parts, cut, extra>>

InputNext == Cut \/ Extend \/ Replace

InputSpec == InputInit /\ [][InputNext]_inputVars

Length == parseRespMessageLength(input, 1)

-----------------------------------------------------------------------------
(* A whole request, whatever follows it in the buffer, is found with its   *)
(* exact length, and parseRespCommand() returns the arguments the client   *)
(* meant (no command at all for more than three).                          *)
RoundTrip ==
    cut = 0 /\ replaced = 0 =>
        /\ Length = Parse("complete", Len(Encode(parts)))
        /\ parseRespCommand(SubSeq(input, 1, Length.length)) =
              IF Len(parts) \in 1..3 THEN parts ELSE NoCommand

\* The first size bytes of a request end right after the prefix of a header,
\* or between its CR and LF.  Header 0 is the one of the request, header i of
\* argument i.
Torn(args, size) ==
    LET start(i) == IF i = 0 THEN 0 ELSE Len(EncodeUpTo(args, i - 1))
        digits(i) == Len(u64_to_ascii(IF i = 0 THEN Len(args) ELSE Len(args[i])))
    IN  \E i \in 0..Len(args) : size \in {start(i) + 1, start(i) + digits(i) + 2}

(* A request of which some bytes are missing is never taken for a whole    *)
(* one by parseRespMessageLength(), so the handler never runs half of it.  *)
(* The reader is told to wait for the rest, unless the cut tears a header: *)
(* those cuts, and no others, are an Error, which closes the connection.   *)
CutIsIncompleteUnlessTorn ==
    cut > 0 /\ input # <<>> =>
        Length.status = IF Torn(parts, Len(input)) THEN "error" ELSE "incomplete"

(* Whatever the bytes are, the length parseRespMessageLength() finds lies  *)
(* within the buffer, and parseRespCommand() accepts exactly those whole   *)
(* requests that have one to three elements: the two parsers agree.        *)
ParsersAgree ==
    Length.status = "complete" =>
        /\ Length.length <= Len(input)
        /\ (parseRespCommand(SubSeq(input, 1, Length.length)) # NoCommand)
              <=> (read_crlf_decimal(input, 2).val \in 1..3)

(* A value comes out of its entry as set() put it in, compressed or not,   *)
(* wherever the ends of the stream and of the value fall in the chunks and *)
(* when zlib cannot compress it; it is missed exactly when it is stored    *)
(* compressed and zlib cannot be set up to decompress it.                  *)
ValuesSurviveCompression ==
    cut + extra + replaced = 0 =>
        \A value \in {input} \union {parts[i] : i \in DOMAIN parts},
           n \in 1..(4 * CHUNK_SIZE + 1), enabled, works, late, again \in BOOLEAN :
            LET entry == insertEntry(value, enabled, n, works)
                found == getEntry(entry, late, again)
            IN  /\ found.ok <=> (entry.compressed => again)
                /\ found.ok => found.value = value
=============================================================================
