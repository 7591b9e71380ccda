---------------------------- MODULE CacheClient ----------------------------
(***************************************************************************)
(* The pipelining client of cache_client.hpp.  Requests carry no           *)
(* identifier on the wire: the client numbers them for its user, keeps the *)
(* numbers in a queue, and gives the next response of the stream to the    *)
(* number at its head.  Responses may be waited for in any order, a flush  *)
(* or a wait may end in an exception anywhere, and be tried again.         *)
(*                                                                         *)
(* A request is the serial number the model gives it, so that a response   *)
(* shows which request it answers.  A request is two pieces on the wire,   *)
(* the second with the separator, so that sends cut it.  The server is in  *)
(* ResponseSender, and Conversation puts the two together.                 *)
(***************************************************************************)
EXTENDS Integers, Sequences, FiniteSets

CONSTANTS
    MaxRequests,   \* bound on the requests of a behaviour
    UplinkRoom     \* pieces the socket takes before send() blocks

ASSUME ClientAssumption == MaxRequests \in Nat /\ UplinkRoom \in Nat \ {0}

VARIABLES
    socketFd,              \* "none", "open", or "reset": the server has closed it
    pendingRequests,       \* ids, oldest first
    completedResponses,    \* set of <<id, request answered>>
    sendBuffer, sendOffset, receiveBuffer, nextRequestId,
    uplink, downlink,      \* pieces on their way to the server and back
    ids,                   \* <<id, request>>: the ids the user holds
    call, waited,          \* the call in progress, and the <<id, request>> waited for
    answers,               \* <<request waited for, request answered>>, all of them
    issued                 \* number of requests made

client == <<socketFd, pendingRequests, completedResponses, sendBuffer, sendOffset,
            receiveBuffer, nextRequestId>>
user == <<ids, call, waited, answers, issued>>

Nothing == <<0, 0>>
Message(r) == <<<<r, "part">>, <<r, "end">>>>
Rest(s, n) == SubSeq(s, n + 1, Len(s))
Room == UplinkRoom - Len(uplink)

ClientInit ==
        /\ socketFd = "none" /\ pendingRequests = <<>> /\ completedResponses = {}
        /\ sendBuffer = <<>> /\ sendOffset = 0 /\ receiveBuffer = <<>>
        /\ nextRequestId = 1
        /\ uplink = <<>> /\ downlink = <<>>
        /\ ids = {} /\ call = "none" /\ waited = Nothing
        /\ answers = {} /\ issued = 0

\* ensureConnected(); a connect() that fails throws, and changes nothing.
ensureConnected == socketFd' = IF socketFd = "none" THEN "open" ELSE socketFd

\* connect() itself, and the calls that get no further: a flush() of nothing,
\* an invalid key or value, a wait without a pending request.
connect == /\ call = "none" /\ socketFd = "none"
           /\ ensureConnected
           /\ UNCHANGED <<pendingRequests, completedResponses, sendBuffer, sendOffset,
                          receiveBuffer, nextRequestId, uplink, downlink, ids, call,
                          waited, answers, issued>>

-----------------------------------------------------------------------------
enqueue == /\ call = "none" /\ issued < MaxRequests
           /\ ensureConnected
           /\ issued' = issued + 1
           /\ nextRequestId' = nextRequestId + 1
           /\ pendingRequests' = Append(pendingRequests, nextRequestId)
           /\ sendBuffer' = sendBuffer \o Message(issued')
           /\ ids' = ids \union {<<nextRequestId, issued'>>}
           /\ UNCHANGED <<completedResponses, sendOffset, receiveBuffer, uplink,
                          downlink, call, waited, answers>>

\* flush(), a loop of sends.
BeginFlush == /\ call = "none" /\ sendBuffer # <<>>
              /\ ensureConnected
              /\ call' = "flush"
              /\ UNCHANGED <<pendingRequests, completedResponses, sendBuffer, sendOffset,
                             receiveBuffer, nextRequestId, uplink, downlink, ids,
                             waited, answers, issued>>

\* Seeded fault: a send that cannot take the whole buffer is not made.
FlushSendWhole ==
    /\ call = "flush" /\ socketFd = "open"
    /\ sendOffset < Len(sendBuffer) /\ Len(sendBuffer) - sendOffset <= Room
    /\ uplink' = uplink \o Rest(sendBuffer, sendOffset)
    /\ sendOffset' = Len(sendBuffer)
    /\ UNCHANGED <<socketFd, pendingRequests, completedResponses, sendBuffer, receiveBuffer,
                   nextRequestId, downlink, ids, call, waited, answers, issued>>

FlushSend ==
    /\ call = "flush" /\ socketFd = "open"
    /\ \E n \in (sendOffset + 1)..Len(sendBuffer) :
          /\ n - sendOffset <= Room
          /\ uplink' = uplink \o SubSeq(sendBuffer, sendOffset + 1, n)
          /\ sendOffset' = n
    /\ UNCHANGED <<socketFd, pendingRequests, completedResponses, sendBuffer, receiveBuffer,
                   nextRequestId, downlink, ids, call, waited, answers, issued>>

FlushEnds == /\ call = "flush" /\ sendOffset = Len(sendBuffer)
             /\ sendBuffer' = <<>> /\ sendOffset' = 0 /\ call' = "none"
             /\ UNCHANGED <<socketFd, pendingRequests, completedResponses, receiveBuffer,
                            nextRequestId, uplink, downlink, ids, waited, answers, issued>>

\* A send times out or fails: the rest of the buffer is kept.
FlushThrows == /\ call = "flush" /\ sendOffset < Len(sendBuffer)
               /\ call' = "none"
               /\ UNCHANGED <<client, uplink, downlink, ids, waited, answers, issued>>

-----------------------------------------------------------------------------
\* Seeded fault: any response that was put aside is taken for the one asked for.
popCompletedAny == /\ call = "none"
                   /\ \E h \in ids, c \in completedResponses :
                         /\ completedResponses' = completedResponses \ {c}
                         /\ answers' = answers \union {<<h[2], c[2]>>}
                   /\ UNCHANGED <<socketFd, pendingRequests, sendBuffer, sendOffset,
                                  receiveBuffer, nextRequestId, uplink, downlink, ids,
                                  call, waited, issued>>

\* waitFor() of an id whose response has been read already.
popCompleted == /\ call = "none"
                /\ \E h \in ids, c \in completedResponses :
                      /\ h[1] = c[1]
                      /\ completedResponses' = completedResponses \ {c}
                      /\ answers' = answers \union {<<h[2], c[2]>>}
                /\ UNCHANGED <<socketFd, pendingRequests, sendBuffer, sendOffset, receiveBuffer,
                               nextRequestId, uplink, downlink, ids, call, waited, issued>>

\* waitFor() of any other id; without a pending request it throws at once.
BeginWait == /\ call = "none" /\ pendingRequests # <<>>
             /\ \E h \in ids : /\ \A c \in completedResponses : c[1] # h[1]
                               /\ waited' = h
             /\ ensureConnected
             /\ call' = "wait"
             /\ UNCHANGED <<pendingRequests, completedResponses, sendBuffer, sendOffset,
                            receiveBuffer, nextRequestId, uplink, downlink, ids, answers, issued>>

\* receiveResponse() as the user may call it: the next response, whatever its
\* id, which the response shows.
BeginReceive == /\ call = "none" /\ pendingRequests # <<>>
                /\ ensureConnected
                /\ call' = "receive"
                /\ UNCHANGED <<pendingRequests, completedResponses, sendBuffer, sendOffset,
                               receiveBuffer, nextRequestId, uplink, downlink, ids, waited,
                               answers, issued>>

InReceive == call \in {"wait", "receive"} /\ pendingRequests # <<>>

Ends == {i \in DOMAIN receiveBuffer : receiveBuffer[i][2] = "end"}

\* The caller of receiveResponse(), or of waitFor() with this id, gets the
\* response r; otherwise it is put aside.
Hand(id, r) ==
    IF call = "receive" \/ id = waited[1]
    THEN /\ answers' = answers \union {<<h[2], r>> : h \in {i \in ids : i[1] = id}}
         /\ call' = "none" /\ waited' = Nothing
         /\ UNCHANGED completedResponses
    ELSE /\ completedResponses' = completedResponses \union {<<id, r>>}
         /\ UNCHANGED <<call, waited, answers>>

\* receiveResponse() finds a whole message in its buffer.
tryParseResponse ==
    /\ InReceive /\ Ends # {}
    /\ LET end == CHOOSE i \in Ends : \A j \in Ends : i <= j
       IN  /\ receiveBuffer' = Rest(receiveBuffer, end)
           /\ pendingRequests' = Tail(pendingRequests)
           /\ Hand(Head(pendingRequests), receiveBuffer[end][1])
    /\ UNCHANGED <<socketFd, sendBuffer, sendOffset, nextRequestId, uplink, downlink,
                   ids, issued>>

\* Seeded fault: a message cut by one receive is not completed by the next.
ReceiveOnce == /\ InReceive /\ receiveBuffer = <<>>
               /\ \E n \in 1..Len(downlink) :
                     /\ receiveBuffer' = SubSeq(downlink, 1, n)
                     /\ downlink' = Rest(downlink, n)
               /\ UNCHANGED <<socketFd, pendingRequests, completedResponses, sendBuffer,
                              sendOffset, nextRequestId, uplink, ids, call, waited,
                              answers, issued>>

\* It finds none, and receives some pieces.
Receive == /\ InReceive /\ Ends = {}
           /\ \E n \in 1..Len(downlink) :
                 /\ receiveBuffer' = receiveBuffer \o SubSeq(downlink, 1, n)
                 /\ downlink' = Rest(downlink, n)
           /\ UNCHANGED <<socketFd, pendingRequests, completedResponses, sendBuffer, sendOffset,
                          nextRequestId, uplink, ids, call, waited, answers, issued>>

\* It throws: no request is pending any more, the receive times out or
\* fails, or the server has closed the connection.
WaitThrows == /\ call \in {"wait", "receive"}
              /\ pendingRequests # <<>> => Ends = {}
              /\ call' = "none" /\ waited' = Nothing
              /\ UNCHANGED <<client, uplink, downlink, ids, answers, issued>>

-----------------------------------------------------------------------------
\* Seeded fault: what was enqueued and not sent stays in sendBuffer.
closeKeepsSendBuffer ==
    /\ call = "none" /\ socketFd # "none"
    /\ socketFd' = "none" /\ pendingRequests' = <<>> /\ completedResponses' = {}
    /\ receiveBuffer' = <<>>
    /\ nextRequestId' = 1
    /\ uplink' = <<>> /\ downlink' = <<>>
    /\ ids' = {}
    /\ UNCHANGED <<sendBuffer, sendOffset, call, waited, answers, issued>>

\* close(); what was on its way on the old socket is gone with it.  The user
\* is to forget its ids, because they will be given out again.
close ==
    /\ call = "none" /\ socketFd # "none"
    /\ socketFd' = "none" /\ pendingRequests' = <<>> /\ completedResponses' = {}
    /\ sendBuffer' = <<>> /\ sendOffset' = 0 /\ receiveBuffer' = <<>>
    /\ nextRequestId' = 1
    /\ uplink' = <<>> /\ downlink' = <<>>
    /\ ids' = {}
    /\ UNCHANGED <<call, waited, answers, issued>>

\* The connection breaks, or the server closes it.
ServerCloses == /\ socketFd = "open"
                /\ socketFd' = "reset" /\ uplink' = <<>>
                /\ UNCHANGED <<pendingRequests, completedResponses, sendBuffer, sendOffset,
                               receiveBuffer, nextRequestId, downlink, ids, call, waited,
                               answers, issued>>

FlushStep == FlushSend \/ FlushEnds
WaitStep == tryParseResponse \/ Receive

ClientStep == \/ connect \/ enqueue \/ BeginFlush \/ FlushStep \/ FlushThrows
              \/ popCompleted \/ BeginWait \/ BeginReceive \/ WaitStep \/ WaitThrows

-----------------------------------------------------------------------------
(* A user that forgets its ids when it closes the client gets, for every   *)
(* id, the answer to the request the id was given for: in whatever order   *)
(* the answers are waited for, and whatever sends and receives threw.      *)
AnswersMatch == \A a \in answers : a[1] = a[2]
=============================================================================
