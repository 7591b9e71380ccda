---------------------------- MODULE Conversation ----------------------------
(***************************************************************************)
(* A client (CacheClient) and the server (ResponseSender) over one         *)
(* connection, with room for a bounded number of pieces each way.  The     *)
(* client does not read while it flushes, and the server does not read     *)
(* while it sends.                                                         *)
(***************************************************************************)
EXTENDS CacheClient

CONSTANTS DownlinkRoom, IOV_MAX
ASSUME SenderAssumption == DownlinkRoom \in Nat \ {0} /\ IOV_MAX \in Nat \ {0}

VARIABLES iov, iovIdx, left, gone

Server == INSTANCE ResponseSender

server == <<iov, iovIdx, left, gone>>
vars == <<client, user, uplink, downlink, server>>

Init == ClientInit /\ Server!SenderInit

ClientMoves == ClientStep /\ UNCHANGED server
ServerMoves == Server!SenderStep /\ UNCHANGED <<client, user>>
Disconnect == (close \/ ServerCloses) /\ Server!ConnectionEnds

Next == ClientMoves \/ ServerMoves \/ Disconnect

Spec == Init /\ [][Next]_vars

\* A flush goes on as long as there is room, a wait as long as there is
\* something to read, and the server serves what has arrived; the user is
\* under no obligation to make another call.
FairSpec ==
    /\ Spec
    /\ WF_vars(FlushStep /\ UNCHANGED server)
    /\ WF_vars(WaitStep /\ UNCHANGED server)
    /\ WF_vars(ServerMoves)

-----------------------------------------------------------------------------
\* The i-th piece, and the first n, of the replies to request r and the next.
ReplyPiece(r, i) == Server!Reply(r + (i - 1) \div 3)[1 + ((i - 1) % 3)]
Replies(r, n) == [i \in 1..n |-> ReplyPiece(r, i)]
\* The last n pieces of the messages up to request r.
MessagesUpTo(r, n) ==
    [i \in 1..n |-> <<r - (n - i) \div 2, IF (n - i) % 2 = 0 THEN "end" ELSE "part">>]

\* What is between the server's processing of a request and the client, and
\* between the client and that.
Owed == IF gone THEN <<>> ELSE Server!Unsent
Back == receiveBuffer \o downlink \o Owed
Forward == uplink \o Rest(sendBuffer, sendOffset)

\* The requests not answered yet, the first of them, and those of which the
\* server has not read the end.
Pending == Len(pendingRequests)
Oldest == issued - Pending + 1
Unread == (Len(Forward) + 1) \div 2

(* Nothing is lost, repeated or reordered on the way, wherever sends and   *)
(* receives cut it.  As long as the connection stands, the ids pending are *)
(* those of the last requests made; what lies between the server and the   *)
(* client are whole replies to the first of them, one after the other, and *)
(* what lies on the other way are the messages of all the rest, but for    *)
(* pieces of the next one that the server has read already.                *)
PendingIsOnTheWay ==
    socketFd = "open" =>
        /\ \A i \in 1..Pending : <<pendingRequests[i], Oldest + i - 1>> \in ids
        /\ Unread <= Pending
        /\ Back = Replies(Oldest, 3 * (Pending - Unread))
        /\ Forward = MessagesUpTo(issued, Len(Forward))

(* A wait for an id that is still pending, all of whose requests have been *)
(* sent, ends, without any timeout to end it: with the answer, or because  *)
(* the connection broke.                                                   *)
WaitEnds ==
    (call = "wait" /\ sendBuffer = <<>>) ~>
        (call # "wait" \/ pendingRequests = <<>> \/ socketFd # "open")

\* The socket has room for the replies to all that is pending but the last.
RepliesFit == Len(pendingRequests) - 1 <= DownlinkRoom \div Len(Server!Reply(1))

(* A flush ends, without any timeout to end it, if the socket has room for *)
(* those replies: when sendResponses() has to wait for the client to read, *)
(* all requests have been read.  With more of them flush() may wait for    *)
(* the server to read, while sendResponses() waits for the client.         *)
FlushCompletes ==
    (call = "flush" /\ RepliesFit) ~> (call # "flush" \/ socketFd # "open")

-----------------------------------------------------------------------------
Piece == Nat \X {"part", "data1", "data2", "end"}

\* The request an id of this connection was given for.
Serial(id) == issued - (nextRequestId - 1) + id

ClientTypeOK ==
    /\ socketFd \in {"none", "open", "reset"}
    /\ pendingRequests \in Seq(Nat)
    /\ sendBuffer \in Seq(Piece) /\ sendOffset \in 0..Len(sendBuffer)
    /\ receiveBuffer \in Seq(Piece)
    /\ nextRequestId \in Nat \ {0}
    /\ uplink \in Seq(Piece) /\ downlink \in Seq(Piece)
    /\ issued \in 0..MaxRequests

ServerTypeOK ==
    /\ iov \in Seq(Seq(Piece)) /\ iovIdx \in 1..(Len(iov) + 1)
    /\ left \in Nat /\ gone \in BOOLEAN

\* What the client and its user know of each other: an id stands for one
\* request, and the pending ids are the last ones given out.
Books ==
    /\ nextRequestId - 1 <= issued
    /\ Pending < nextRequestId
    /\ \A i \in 1..Pending : pendingRequests[i] = nextRequestId - Pending + i - 1
    /\ \A i \in 1..(nextRequestId - 1) : <<i, Serial(i)>> \in ids
    /\ \A h \in ids : h[1] \in 1..(nextRequestId - 1) /\ h = <<h[1], Serial(h[1])>>
    /\ completedResponses \subseteq ids

\* The batch being sent, and what a connection that ended leaves of it.
Sending ==
    /\ left = Len(Server!Unsent)
    /\ Len(iov) <= 2 * MaxRequests
    /\ gone => left > 0
    /\ socketFd # "open" => uplink = <<>> /\ (left > 0 => gone)
    /\ socketFd = "none" => /\ pendingRequests = <<>> /\ sendBuffer = <<>>
                            /\ receiveBuffer = <<>> /\ downlink = <<>>

\* What is on its way.  After the server has closed the connection replies
\* may be missing, but what there is still begins with the oldest one's.
OnTheWay ==
    /\ Back = Replies(Oldest, Len(Back))
    /\ socketFd # "reset" => /\ Len(Back) = 3 * (Pending - Unread)
                             /\ Forward = MessagesUpTo(issued, Len(Forward))

(* The inductive invariant behind AnswersMatch and PendingIsOnTheWay: what  *)
(* the client's queue of ids, the bytes in its buffers and on the socket,   *)
(* and the server's iovecs say of each other in every state.                *)
IInv == ClientTypeOK /\ ServerTypeOK /\ Books /\ Sending /\ OnTheWay /\ AnswersMatch
=============================================================================
