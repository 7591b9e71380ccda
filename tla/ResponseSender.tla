--------------------------- MODULE ResponseSender ---------------------------
(***************************************************************************)
(* The server's end of one connection: handleRequests() reads what has     *)
(* arrived, answers the requests that are whole, and hands the batch of    *)
(* replies to sendResponses(), which sends it with as many sendmsg() calls *)
(* as it takes.  Nothing is read while it sends.                           *)
(*                                                                         *)
(* A request is a number; its reply is two pieces of data and a separator, *)
(* which lie in two iovecs as in the code, so that a sendmsg() may end     *)
(* inside an iovec, at its end, or at the end of a reply.                  *)
(***************************************************************************)
EXTENDS Integers, Sequences

CONSTANTS
    DownlinkRoom,  \* pieces the socket takes before sendmsg() says EAGAIN
    IOV_MAX        \* iovecs one sendmsg() takes; with more of them it fails

VARIABLES
    uplink, downlink,  \* pieces on their way to the server and back
    iov, iovIdx,       \* the rest of every iovec, and the first not yet sent
    left,              \* totalRequired - totalSent
    gone               \* the connection of the batch has been closed meanwhile

Drop(s, n) == SubSeq(s, n + 1, Len(s))

Reply(r) == <<<<r, "data1">>, <<r, "data2">>, <<r, "end">>>>
iovecs(r) == <<SubSeq(Reply(r), 1, 2), SubSeq(Reply(r), 3, 3)>>

\* The pieces in the iovecs from i on.
PiecesFrom(vecs, i) ==
    LET last[j \in 0..Len(vecs)] ==
            IF j = 0 THEN <<>> ELSE vecs[Len(vecs) + 1 - j] \o last[j - 1]
    IN  last[Len(vecs) + 1 - i]

\* The pieces of the batch that are still to be sent.
Unsent == PiecesFrom(iov, iovIdx)

SenderInit == iov = <<>> /\ iovIdx = 1 /\ left = 0 /\ gone = FALSE

-----------------------------------------------------------------------------
\* The requests whose last piece is among these pieces, in order.
Completed(pieces) ==
    LET upTo[i \in 0..Len(pieces)] ==
            IF i = 0 THEN <<>>
            ELSE IF pieces[i][2] = "end" THEN Append(upTo[i - 1], pieces[i][1])
            ELSE upTo[i - 1]
    IN  upTo[Len(pieces)]

\* The two iovecs of every reply, one reply after the other.
Layout(requests) ==
    [j \in 1..(2 * Len(requests)) |-> iovecs(requests[(j + 1) \div 2])[2 - (j % 2)]]

\* One batch: read, processed in order, and its iovecs laid out.
ReadBatch ==
    /\ left = 0
    /\ uplink # <<>>
    /\ uplink' = <<>>
    /\ iov' = Layout(Completed(uplink))
    /\ iovIdx' = 1
    /\ left' = Len(PiecesFrom(iov', 1))
    /\ UNCHANGED <<downlink, gone>>

\* One iteration of the loop that passes over the pieces just sent.
PassOver(s) ==
    IF s.sent = 0 \/ s.idx > Len(s.iov) THEN s
    ELSE IF s.sent >= Len(s.iov[s.idx])
         THEN [s EXCEPT !.idx = @ + 1, !.sent = @ - Len(s.iov[s.idx])]
         ELSE [s EXCEPT !.iov[s.idx] = Drop(@, s.sent), !.sent = 0]

\* The loop; it ends within as many iterations as there are iovecs.
Advance(vecs, first, n) ==
    LET after[k \in 0..Len(vecs)] ==
            IF k = 0 THEN [iov |-> vecs, idx |-> first, sent |-> n]
            ELSE PassOver(after[k - 1])
    IN  after[Len(vecs)]

\* Seeded fault: an iovec that was sent in part is sent again from its start.
SendmsgKeepsBase ==
    /\ left > 0 /\ ~gone
    /\ Len(iov) - iovIdx < IOV_MAX
    /\ \E n \in 1..left :
          /\ n <= DownlinkRoom - Len(downlink) /\ n <= Len(Unsent)
          /\ downlink' = downlink \o SubSeq(Unsent, 1, n)
          /\ iovIdx' = Advance(iov, iovIdx, n).idx
          /\ left' = left - n
    /\ UNCHANGED <<uplink, iov, gone>>

\* A sendmsg() that sends something; one that finds no room changes nothing
\* and is tried again.
Sendmsg ==
    /\ left > 0 /\ ~gone
    /\ Len(iov) - iovIdx < IOV_MAX
    /\ \E n \in 1..left :
          /\ n <= DownlinkRoom - Len(downlink)
          /\ downlink' = downlink \o SubSeq(Unsent, 1, n)
          /\ iov' = Advance(iov, iovIdx, n).iov
          /\ iovIdx' = Advance(iov, iovIdx, n).idx
          /\ left' = left - n
    /\ UNCHANGED <<uplink, gone>>

\* A sendmsg() that fails: the rest of the batch is dropped, and the
\* connection, if it still is one, is left as it is.
SendmsgFails ==
    /\ left > 0
    /\ gone \/ Len(iov) - iovIdx >= IOV_MAX
    /\ left' = 0 /\ iov' = <<>> /\ iovIdx' = 1 /\ gone' = FALSE
    /\ UNCHANGED <<uplink, downlink>>

SenderStep == ReadBatch \/ Sendmsg \/ SendmsgFails

\* The connection ends, perhaps under the batch that is being sent on it.
ConnectionEnds == gone' = (left > 0) /\ UNCHANGED <<iov, iovIdx, left>>
=============================================================================
