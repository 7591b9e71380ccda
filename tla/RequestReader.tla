--------------------------- MODULE RequestReader ---------------------------
(***************************************************************************)
(* How one connection's bytes become requests: readRequestAsync(), and the *)
(* part of handleRequests() that takes the requests it found and erases    *)
(* their bytes.  The two run in one iteration of the request thread, so    *)
(* one event is one step here.  TCP delivers the stream in pieces of any   *)
(* size, and the socket is edge-triggered: bytes that are left unread stay *)
(* unread until the next piece arrives.                                    *)
(*                                                                         *)
(* The NUL bytes the code writes into its buffer fall on bytes of parsed   *)
(* requests, all of which are erased by the same step; they are left out.  *)
(***************************************************************************)
EXTENDS RespProtocol

CONSTANTS Messages,      \* the messages a client may send
          MaxMessages,   \* the longest conversation
          ReadLimit      \* bytes that READ_MAX_ATTEMPTS reads can take

MSG_SEPARATOR == "sep"
ASSUME SeparatorAssumption == MSG_SEPARATOR \in STRING   \* a byte, as any other

\* A message is its bytes without the separator that ends a custom one.
Wire(m) == IF m # <<>> /\ m[1] = RESP_ARRAY_PREFIX THEN m
                                                   ELSE Append(m, MSG_SEPARATOR)
\* The bytes of the first n messages.
WireUpTo(ms, n) ==
    Loop([i \in DOMAIN ms |-> [bytes \in Seq(STRING) |-> bytes \o Wire(ms[i])]], <<>>, n)

\* A custom message holds no separator, and a RESP one is a whole request.
\* Its number of elements is written without leading zeros, and is not 0.
IsCustom(m) == (m # <<>> => m[1] # RESP_ARRAY_PREFIX) /\ \A i \in DOMAIN m : m[i] # MSG_SEPARATOR
IsRequest(m) == parseRespMessageLength(m, 1) = Parse("complete", Len(m)) /\ m[2] # "0"

ASSUME MessagesAssumption ==
    \A m \in Messages : m \in Seq(STRING) /\ (IsCustom(m) \/ IsRequest(m))
ASSUME BoundsAssumption == MaxMessages \in Nat /\ ReadLimit \in Nat \ {0}

VARIABLES sent,          \* the messages the client sends
          arrived,       \* bytes of them that reached the socket
          taken,         \* bytes of them that were read
          ready,         \* an EPOLLIN event is pending
          readBuffer, bytesToErase,   \* of the ConnectionData
          requests,      \* every request handed to processRequestSync()
          outcome,       \* of the last read; "closed" and "undefined" are final
          skipped        \* history: a read found separators and no request

vars == <<sent, arrived, taken, ready, readBuffer, bytesToErase, requests, outcome,
          skipped>>

Stream == WireUpTo(sent, Len(sent))
Final == {"closed", "undefined"}

Init == /\ sent \in UNION {[1..n -> Messages] : n \in 1..MaxMessages}
        /\ arrived = 0 /\ taken = 0 /\ ready = FALSE
        /\ readBuffer = <<>> /\ bytesToErase = 0
        /\ requests = <<>> /\ outcome = "awaiting" /\ skipped = FALSE

\* Another piece of the stream reaches the socket.
Arrive == /\ outcome \notin Final
          /\ \E n \in (arrived + 1)..Len(Stream) : arrived' = n
          /\ ready' = TRUE
          /\ UNCHANGED <<sent, taken, readBuffer, bytesToErase, requests, outcome, skipped>>

-----------------------------------------------------------------------------
Scanned(status, start, found) ==
    [status |-> status, start |-> start, found |-> found]
Scans == [status : {"more", "end", "error"}, start : Nat \ {0}, found : Seq(Seq(STRING))]

\* A request of n bytes is found at the place s of the scan.
Found(buf, s, n) ==
    Append(s.found, SubSeq(buf, s.start, s.start + n - 1))

\* The first separator from start on, or the place after the last byte.
SeparatorAt(buf, start) ==
    CHOOSE i \in start..(Len(buf) + 1) :
        /\ \A j \in start..(i - 1) : buf[j] # MSG_SEPARATOR
        /\ i <= Len(buf) => buf[i] = MSG_SEPARATOR

\* Seeded fault: the reader leaves after the first request of the buffer.
ScanPassOne(buf, s) ==
    IF s.start > Len(buf) THEN s
    ELSE IF buf[s.start] = MSG_SEPARATOR THEN [s EXCEPT !.start = @ + 1]
    ELSE IF buf[s.start] = RESP_ARRAY_PREFIX
    THEN LET p == parseRespMessageLength(buf, s.start)
         IN  CASE p.status = "incomplete" -> [s EXCEPT !.status = "end"]
               [] p.status = "error"      -> [s EXCEPT !.status = "error"]
               [] p.status = "complete"   ->
                     Scanned("end", s.start + p.length, Found(buf, s, p.length))
    ELSE LET pos == SeparatorAt(buf, s.start)
         IN  IF pos > Len(buf) THEN [s EXCEPT !.status = "end"]
             ELSE Scanned("end", pos + 1, Found(buf, s, pos - s.start))

\* One pass of the loop over the buffer.
ScanPass(buf, s) ==
    IF s.start > Len(buf) THEN s
    ELSE IF buf[s.start] = MSG_SEPARATOR THEN [s EXCEPT !.start = @ + 1]
    ELSE IF buf[s.start] = RESP_ARRAY_PREFIX
    THEN LET p == parseRespMessageLength(buf, s.start)
         IN  CASE p.status = "incomplete" -> [s EXCEPT !.status = "end"]
               [] p.status = "error"      -> [s EXCEPT !.status = "error"]
               [] p.status = "complete"   ->
                     Scanned("more", s.start + p.length, Found(buf, s, p.length))
    ELSE LET pos == SeparatorAt(buf, s.start)
         IN  IF pos > Len(buf) THEN [s EXCEPT !.status = "end"]
             ELSE Scanned("more", pos + 1, Found(buf, s, pos - s.start))

\* The requests found in a buffer, and where the loop stops: each pass that
\* goes on takes at least one byte, so there are no more passes than bytes.
Scanning(buf) == [s \in Scans |-> IF s.status = "more" THEN ScanPass(buf, s) ELSE s]
Scan(buf) == Repeat(Scanning(buf), Scanned("more", 1, <<>>), Len(buf))

\* What one event can read, and the buffer with n more bytes.
Readable == IF arrived - taken < ReadLimit THEN arrived - taken ELSE ReadLimit
Grown(n) == readBuffer \o SubSeq(Stream, taken + 1, taken + n)

Leave(o) == /\ outcome' = o
            /\ readBuffer' = <<>> /\ bytesToErase' = 0
            /\ UNCHANGED requests

\* Seeded fault: the buffer is erased, and bytesToErase not reset.
ProcessNoReset(buf, scan) ==
    LET erase == bytesToErase + scan.start - 1
    IN  /\ requests' = requests \o scan.found
        /\ IF erase > Len(buf)
           THEN outcome' = "undefined" /\ readBuffer' = <<>> /\ bytesToErase' = 0
           ELSE /\ outcome' = "success"
                /\ readBuffer' = SubSeq(buf, erase + 1, Len(buf))
                /\ bytesToErase' = erase

\* handleRequests() after a read that found requests: it runs them all and
\* erases bytesToErase bytes; erasing more than there are is undefined.
Process(buf, scan) ==
    LET erase == bytesToErase + scan.start - 1
    IN  /\ requests' = requests \o scan.found
        /\ IF erase > Len(buf)
           THEN outcome' = "undefined" /\ readBuffer' = <<>> /\ bytesToErase' = 0
           ELSE /\ outcome' = "success"
                /\ readBuffer' = SubSeq(buf, erase + 1, Len(buf))
                /\ bytesToErase' = 0

\* The reads end with EAGAIN or with READ_MAX_ATTEMPTS, and the buffer is
\* parsed.
ReadRequest ==
    /\ ready /\ outcome \notin Final
    /\ LET n == Readable
           buf == Grown(n)
           scan == Scan(buf)
       IN  /\ taken' = taken + n
           /\ \/ scan.status = "error" /\ Leave("closed")
              \/ /\ scan.status # "error" /\ scan.found # <<>>
                 /\ Process(buf, scan)
              \/ /\ scan.status # "error" /\ scan.found = <<>>
                 /\ outcome' = "awaiting" /\ readBuffer' = buf
                 /\ bytesToErase' = bytesToErase + scan.start - 1
                 /\ UNCHANGED requests
           /\ skipped' = (skipped \/ (scan.found = <<>> /\ scan.start > 1))
    /\ ready' = FALSE
    /\ UNCHANGED <<sent, arrived>>

\* A read fails (more than READ_NUM_RETRY_ON_INT interruptions, or another
\* error) after n bytes: they stay in the buffer, and nothing is parsed.
ReadFails ==
    /\ ready /\ outcome \notin Final
    /\ \E n \in 0..Readable :
          taken' = taken + n /\ readBuffer' = Grown(n)
    /\ outcome' = "failure" /\ ready' = FALSE
    /\ UNCHANGED <<sent, arrived, bytesToErase, requests, skipped>>

\* The client has shut down: the read after its last byte, if the attempts
\* last for it, returns 0 and the connection is closed with whatever its
\* buffer holds.
PeerCloses ==
    /\ outcome \notin Final /\ arrived - taken < ReadLimit
    /\ taken' = arrived /\ ready' = FALSE /\ Leave("closed")
    /\ UNCHANGED <<sent, arrived, skipped>>

Next == Arrive \/ ReadRequest \/ ReadFails \/ PeerCloses

Spec == Init /\ [][Next]_vars

-----------------------------------------------------------------------------
(* Whatever the pieces the stream arrives in, and whichever reads fail,    *)
(* the requests run so far and what the buffer holds are what one scan of  *)
(* all the bytes read would give: readRequestAsync() and the erase in      *)
(* handleRequests() together lose, repeat and alter no byte of an open     *)
(* connection.  This ends with a read that finds separators alone: their   *)
(* bytes stay in the buffer and are counted in bytesToErase a second time. *)
Rest(buf) == SubSeq(buf, Scan(buf).start, Len(buf))
PiecesAreInvisible ==
    LET read == SubSeq(Stream, 1, taken)
    IN  ~skipped /\ outcome # "closed" =>
            /\ outcome # "undefined"
            /\ requests \o Scan(readBuffer).found = Scan(read).found
            /\ Rest(readBuffer) = Rest(read)

\* The messages among the first n that are not empty.
NonEmptyUpTo(ms, n) ==
    Loop([i \in DOMAIN ms |->
            [kept \in Seq(Seq(STRING)) |-> IF ms[i] = <<>> THEN kept ELSE Append(kept, ms[i])]],
         <<>>, n)

(* A client whose last byte was read, by reads that did not fail, has had  *)
(* every request run, in the order it sent them: readRequestAsync() never  *)
(* leaves a whole request in the buffer for an event that will not come.   *)
NothingLeftBehind ==
    ~skipped /\ taken = Len(Stream) /\ outcome \notin Final \union {"failure"} =>
        requests = NonEmptyUpTo(sent, Len(sent))
=============================================================================
