---------------------------- MODULE ConnManager ----------------------------
(***************************************************************************)
(* The connection table (conn_manager.hpp) as its two threads use it: the  *)
(* acceptor, which runs acceptConnections(), and the request handler, the  *)
(* part of handleRequests() that reads the events of one epoll_wait().     *)
(*                                                                         *)
(* conn_mutex is held across steps by the acceptor only: while it          *)
(* registers a connection, and for ever once it calls closeConnection()    *)
(* with the mutex held, since std::mutex is not recursive.  The handler's  *)
(* critical sections are single steps.  The handler also uses the map      *)
(* without the mutex (connections[client_fd]); the two orders in which     *)
(* such an access and the acceptor's can take effect are both modelled.    *)
(*                                                                         *)
(* Sockets, epoll (edge-triggered) and the clients are the environment.    *)
(***************************************************************************)
EXTENDS Integers, FiniteSets

CONSTANT Fds    \* the client descriptors, numbered as accept() uses them

ASSUME FdsAssumption == Fds \subseteq Nat /\ IsFiniteSet(Fds)

VARIABLES
    connections,  \* fd -> "fresh" or "stale", by the age of lastActivity
    dirty,        \* the entries whose readBuffer holds part of a request
    counter,      \* activeConnectionsCounter
    accPc, accFd, \* the acceptor
    hndPc, hndFd, \* the request handler
    batch,        \* fd -> "in" or "hup": the events it has still to handle
    replies,      \* whether responsesPerConn has replies to send
    open,         \* descriptors of the process
    epolled,      \* descriptors in the epoll interest list
    ready,        \* descriptors with an edge epoll_wait() has not reported
    inbox,        \* descriptors with data to read
    peer          \* fd -> "up", "fin" or "reset"

tableVars == <<connections, dirty, counter>>
acceptor == <<accPc, accFd>>
handler == <<hndPc, hndFd, batch, replies>>
sockets == <<open, epolled, ready, inbox, peer>>
vars == <<tableVars, acceptor, handler, sockets>>

-----------------------------------------------------------------------------
Known == DOMAIN connections
Locked == accPc \in {"emplace", "stuck"}
Stale(fd) == fd \in Known /\ connections[fd] = "stale"

With(f, x, v) == [y \in DOMAIN f \cup {x} |-> IF y = x THEN v ELSE f[y]]
Without(f, x) == [y \in DOMAIN f \ {x} |-> f[y]]

Init ==
    /\ connections = [fd \in {} |-> "fresh"]
    /\ dirty = {}
    /\ counter = 0
    /\ accPc = "accept" /\ accFd = 0
    /\ hndPc = "wait" /\ hndFd = 0
    /\ batch = [fd \in {} |-> "in"]
    /\ replies = FALSE
    /\ open = {} /\ epolled = {} /\ ready = {} /\ inbox = {}
    /\ peer = [fd \in Fds |-> "up"]

-----------------------------------------------------------------------------
(* closeConnection(), with conn_mutex free.  Closing a descriptor takes it *)
(* out of epoll and forgets what the client had sent.                      *)

\* Seeded faults: the entry stays in the map; the descriptor stays open; the
\* counter is decreased without a test; it is decreased only above one.
Closed(fd) ==
    /\ ~Locked
    /\ epolled' = epolled \ {fd}
    /\ ready' = ready \ {fd}
    /\ inbox' = inbox \ {fd}
    /\ peer' = [peer EXCEPT ![fd] = "up"]
closeConnectionKeepsEntry(fd) ==
    /\ Closed(fd)
    /\ open' = open \ {fd}
    /\ counter' = IF counter > 0 THEN counter - 1 ELSE counter
    /\ UNCHANGED <<connections, dirty>>
closeConnectionLeaksFd(fd) ==
    /\ Closed(fd)
    /\ connections' = Without(connections, fd)
    /\ dirty' = dirty \ {fd}
    /\ counter' = IF counter > 0 THEN counter - 1 ELSE counter
    /\ UNCHANGED open
closeConnectionUnguarded(fd) ==
    /\ Closed(fd)
    /\ open' = open \ {fd}
    /\ connections' = Without(connections, fd)
    /\ dirty' = dirty \ {fd}
    /\ counter' = counter - 1
closeConnectionKeepsCount(fd) ==
    /\ Closed(fd)
    /\ open' = open \ {fd}
    /\ connections' = Without(connections, fd)
    /\ dirty' = dirty \ {fd}
    /\ counter' = IF counter > 1 THEN counter - 1 ELSE counter

closeConnection(fd) ==
    /\ ~Locked
    /\ IF fd \in Known
       THEN /\ open' = open \ {fd}
            /\ epolled' = epolled \ {fd}
            /\ ready' = ready \ {fd}
            /\ inbox' = inbox \ {fd}
            /\ peer' = [peer EXCEPT ![fd] = "up"]
            /\ connections' = Without(connections, fd)
            /\ dirty' = dirty \ {fd}
            /\ counter' = IF counter > 0 THEN counter - 1 ELSE counter
       ELSE UNCHANGED <<tableVars, sockets>>

-----------------------------------------------------------------------------
(* The acceptor.                                                           *)

\* accept() returns the lowest free descriptor.  The client may have sent
\* something, or have gone, before.
Accept ==
    /\ accPc = "accept"
    /\ \E fd \in Fds \ open :
          /\ \A other \in Fds \ open : fd <= other
          /\ open' = open \cup {fd}
          /\ accFd' = fd
          /\ \E sent \in BOOLEAN : inbox' = IF sent THEN inbox \cup {fd} ELSE inbox
          /\ \E state \in {"up", "fin", "reset"} : peer' = [peer EXCEPT ![fd] = state]
    /\ accPc' = "register"
    /\ UNCHANGED <<tableVars, handler, epolled, ready>>

\* registerConnection(), up to and with the EPOLL_CTL_ADD.
RegisterAdd ==
    /\ accPc = "register"
    /\ epolled' = epolled \cup {accFd}
    /\ ready' = IF accFd \in inbox \/ peer[accFd] # "up"
                THEN ready \cup {accFd} ELSE ready
    /\ accPc' = "emplace"
    /\ UNCHANGED <<tableVars, accFd, handler, open, inbox, peer>>

\* The same when EPOLL_CTL_ADD fails: closeConnection() asks for conn_mutex,
\* which registerConnection() holds.
RegisterAddFails ==
    /\ accPc = "register"
    /\ accPc' = "stuck"
    /\ UNCHANGED <<tableVars, accFd, handler, sockets>>

\* The rest of registerConnection(): try_emplace() and the counter.
RegisterEmplace ==
    /\ accPc = "emplace"
    /\ IF accFd \in Known
       THEN UNCHANGED <<connections, counter>>
       ELSE /\ connections' = With(connections, accFd, "fresh")
            /\ counter' = counter + 1
    /\ accPc' = "accept"
    /\ UNCHANGED <<dirty, accFd, handler, sockets>>

\* accept() has nothing to return, no descriptor to return it on, or is
\* interrupted.
AcceptFails ==
    /\ accPc = "accept"
    /\ counter > 0
    /\ accPc' = "validate"
    /\ UNCHANGED <<tableVars, accFd, handler, sockets>>

\* validateConnections(): closing an idle connection asks for conn_mutex,
\* which validateConnections() holds.
validateConnections ==
    /\ accPc = "validate"
    /\ accPc' = IF \E fd \in Known : Stale(fd) THEN "stuck" ELSE "accept"
    /\ UNCHANGED <<tableVars, accFd, handler, sockets>>

-----------------------------------------------------------------------------
(* The request handler.                                                    *)

EpollWait ==
    LET events == ready \cap epolled
    IN  /\ hndPc = "wait"
        /\ events # {}
        /\ batch' = [fd \in events |-> IF peer[fd] = "reset" THEN "hup" ELSE "in"]
        /\ ready' = ready \ events
        /\ hndPc' = "next"
        /\ UNCHANGED <<tableVars, acceptor, hndFd, replies, open, epolled, inbox, peer>>

\* Seeded faults: the event of a broken connection is passed over; the handler
\* goes on to read from the descriptor it has closed.
HandleHupSkips(fd) ==
    /\ hndPc = "next"
    /\ fd \in DOMAIN batch /\ batch[fd] = "hup"
    /\ batch' = Without(batch, fd)
    /\ UNCHANGED <<tableVars, sockets, acceptor, hndPc, hndFd, replies>>

HandleHupReadsOn(fd) ==
    /\ hndPc = "next"
    /\ fd \in DOMAIN batch /\ batch[fd] = "hup"
    /\ closeConnection(fd)
    /\ batch' = [batch EXCEPT ![fd] = "in"]
    /\ UNCHANGED <<acceptor, hndPc, hndFd, replies>>

HandleHup(fd) ==
    /\ hndPc = "next"
    /\ fd \in DOMAIN batch /\ batch[fd] = "hup"
    /\ closeConnection(fd)
    /\ batch' = Without(batch, fd)
    /\ UNCHANGED <<acceptor, hndPc, hndFd, replies>>

\* Seeded fault: one read() per event, which may leave data in the socket.
ReadRequestOnce(fd) ==
    /\ hndPc = "next"
    /\ fd \in DOMAIN batch /\ batch[fd] = "in"
    /\ hndFd' = fd
    /\ connections' = IF fd \in Known THEN connections
                                      ELSE With(connections, fd, "stale")
    /\ \E left \in {{}, {fd}} : inbox' = inbox \ left
    /\ hndPc' = IF peer[fd] = "fin" THEN "close" ELSE "touch"
    /\ UNCHANGED <<dirty, counter, acceptor, batch, replies, open, epolled, ready, peer>>

\* readRequestAsync() up to its closeConnection(), if it makes one: the end of
\* the stream, or a malformed RESP message.  A reset connection fails the read
\* and is left as it is.  The entry is looked up with operator[], without the
\* mutex; one made there has a lastActivity of zero.
ReadRequest(fd) ==
    /\ hndPc = "next"
    /\ fd \in DOMAIN batch /\ batch[fd] = "in"
    /\ hndFd' = fd
    /\ connections' = IF fd \in Known THEN connections
                                      ELSE With(connections, fd, "stale")
    /\ inbox' = inbox \ {fd}
    /\ \/ /\ peer[fd] = "fin"
          /\ hndPc' = "close"
          /\ dirty' = IF fd \in inbox THEN dirty \cup {fd} ELSE dirty
          /\ UNCHANGED replies
       \/ /\ peer[fd] = "up" /\ fd \in inbox
          /\ hndPc' = "close"
          /\ dirty' = dirty \ {fd}
          /\ UNCHANGED replies
       \/ /\ peer[fd] = "up" /\ fd \in inbox
          /\ hndPc' = "touch"
          /\ \E rest \in {{}, {fd}} : dirty' = (dirty \ {fd}) \cup rest
          /\ replies' \in {replies, TRUE}
       \/ /\ peer[fd] = "reset" \/ (peer[fd] = "up" /\ fd \notin inbox)
          /\ hndPc' = "touch"
          /\ UNCHANGED <<dirty, replies>>
    /\ UNCHANGED <<counter, acceptor, batch, open, epolled, ready, peer>>

ReadCloses ==
    /\ hndPc = "close"
    /\ closeConnection(hndFd)
    /\ hndPc' = "touch"
    /\ UNCHANGED <<acceptor, hndFd, batch, replies>>

\* updateActivity() makes an entry when readRequestAsync() just removed it.
updateActivity ==
    /\ hndPc = "touch"
    /\ ~Locked
    /\ connections' = With(connections, hndFd, "fresh")
    /\ batch' = Without(batch, hndFd)
    /\ hndPc' = "next"
    /\ UNCHANGED <<dirty, counter, acceptor, hndFd, replies, sockets>>

\* The requests read are processed; the table is not changed.
FinishBatch ==
    /\ hndPc = "next"
    /\ DOMAIN batch = {}
    /\ hndPc' = IF replies THEN "send" ELSE "wait"
    /\ UNCHANGED <<tableVars, acceptor, hndFd, batch, replies, sockets>>

\* Every sendResponses() of the batch returned.  One that finds its socket full
\* tries again until the client has read, for as long as that takes.
SendReplies ==
    /\ hndPc = "send"
    /\ hndPc' = "wait"
    /\ replies' = FALSE
    /\ UNCHANGED <<tableVars, acceptor, hndFd, batch, sockets>>

-----------------------------------------------------------------------------
(* The clients and the clock.                                              *)

Edge(fd) == ready' = IF fd \in epolled THEN ready \cup {fd} ELSE ready

Send(fd) ==
    /\ fd \in open /\ peer[fd] = "up"
    /\ inbox' = inbox \cup {fd}
    /\ Edge(fd)
    /\ UNCHANGED <<tableVars, acceptor, handler, open, epolled, peer>>

Leave(fd) ==
    /\ fd \in open /\ peer[fd] = "up"
    /\ \/ peer' = [peer EXCEPT ![fd] = "fin"] /\ UNCHANGED inbox
       \/ peer' = [peer EXCEPT ![fd] = "reset"] /\ inbox' = inbox \ {fd}
    /\ Edge(fd)
    /\ UNCHANGED <<tableVars, acceptor, handler, open, epolled>>

\* MAX_CONN_LIFETIME_SEC pass without activity on a descriptor.
Expire(fd) ==
    /\ fd \in Known /\ connections[fd] = "fresh"
    /\ connections' = [connections EXCEPT ![fd] = "stale"]
    /\ UNCHANGED <<dirty, counter, acceptor, handler, sockets>>

-----------------------------------------------------------------------------
AcceptorStep ==
    \/ RegisterAdd \/ RegisterAddFails \/ RegisterEmplace
    \/ AcceptFails \/ validateConnections
HandlerStep ==
    \/ EpollWait \/ ReadCloses \/ updateActivity \/ FinishBatch
    \/ \E fd \in Fds : HandleHup(fd) \/ ReadRequest(fd)
Environment ==
    \E fd \in Fds : Send(fd) \/ Leave(fd) \/ Expire(fd)

Next == Accept \/ AcceptorStep \/ HandlerStep \/ SendReplies \/ Environment

Spec == Init /\ [][Next]_vars

\* Both threads run for ever; clients and the clock are under no obligation,
\* and so neither is accept() to find a client, nor sendResponses() to find room
\* in a socket.  Strong fairness of the handler: the acceptor gives conn_mutex
\* back again and again, and a waiter is assumed not to lose every race for it.
Fairness ==
    /\ WF_vars(AcceptorStep)
    /\ SF_vars(HandlerStep)

FairSpec == Spec /\ Fairness

-----------------------------------------------------------------------------
(* Types.  activeConnections is an unsigned counter in the code: a         *)
(* decrement too many of closeConnection() would leave its range.          *)
TypeOK ==
    /\ Known \subseteq Fds
    /\ \A fd \in Known : connections[fd] \in {"fresh", "stale"}
    /\ dirty \subseteq Fds
    /\ counter \in Nat
    /\ accPc \in {"accept", "register", "emplace", "validate", "stuck"}
    /\ accFd \in Fds \cup {0}
    /\ hndPc \in {"wait", "next", "close", "touch", "send"}
    /\ hndFd \in Fds \cup {0}
    /\ DOMAIN batch \subseteq Fds
    /\ \A fd \in DOMAIN batch : batch[fd] \in {"in", "hup"}
    /\ replies \in BOOLEAN
    /\ open \subseteq Fds /\ epolled \subseteq Fds
    /\ ready \subseteq Fds /\ inbox \subseteq Fds
    /\ peer \in [Fds -> {"up", "fin", "reset"}]

\* activeConnectionsCounter never exceeds the number of descriptors that are
\* open, so it never runs away while clients come and go; entries that outlive
\* their descriptor can only make it too small.
CounterNeverOverstates == counter <= Cardinality(open)

\* Every open client descriptor has an entry, without which closeConnection()
\* returns early and nothing would ever close it; the exception is the one the
\* acceptor is registering.
NoOrphan ==
    \A fd \in open :
        fd \in Known \/ (accFd = fd /\ accPc \in {"register", "emplace", "stuck"})

\* Part of a request is kept only for a descriptor that is still open: what
\* one client sent never reaches the readBuffer of the next client that gets
\* the same descriptor, although an entry may be there before the client is.
BufferDiesWithConnection ==
    \A fd \in dirty : fd \in open /\ ~(accFd = fd /\ accPc = "register")

\* The descriptor accept() returned, until it has its entry.
Pending == IF accPc \in {"register", "emplace"} THEN {accFd} ELSE {}

\* What the proofs show to be inductive.  The counter does not count the
\* descriptor being registered.  The handler's events are of descriptors that
\* are in epoll, hence open and not waiting for EPOLL_CTL_ADD, except the one it
\* has just closed itself.
IInv ==
    /\ TypeOK
    /\ counter <= Cardinality(open \ Pending)
    /\ Pending \subseteq open /\ epolled \subseteq open
    /\ accPc = "register" => accFd \notin epolled
    /\ \A fd \in DOMAIN batch : fd \in epolled \/ (hndPc = "touch" /\ fd = hndFd)
    /\ hndPc = "close" => hndFd \in epolled
    /\ hndPc \in {"close", "touch"} => hndFd \in Fds
    /\ NoOrphan
    /\ BufferDiesWithConnection

Stuck == accPc = "stuck"

\* No client lets the handler wait in sendResponses() for ever.
ClientsRead == []<>(hndPc # "send")

\* Data a client has sent is read, if the connection is not closed first: no
\* edge of the edge-triggered epoll is lost between accept(), EPOLL_CTL_ADD,
\* epoll_wait() and the reads.  Only the acceptor's self-deadlock prevents it,
\* and a client, perhaps another one, that never reads its replies.
DataIsRead ==
    ClientsRead => \A fd \in Fds : fd \in inbox ~> (fd \notin inbox \/ Stuck)

\* The descriptor of a client that has left is closed, also when a reset
\* arrives after epoll_wait() reported the descriptor and the read fails.
GoneIsClosed ==
    ClientsRead =>
        \A fd \in Fds : (fd \in open /\ peer[fd] # "up")
                            ~> (fd \notin open \/ peer[fd] = "up" \/ Stuck)

\* constants.hpp:35: the "Max client connection lifetime" ends a connection
\* that stays silent.
SilentIsClosed ==
    \A fd \in Fds : (Stale(fd) /\ fd \in open) ~> (fd \notin open \/ ~Stale(fd))
=============================================================================
