---------------------------- MODULE ServerProofs ----------------------------
(***************************************************************************)
(* What is proved of the server around its requests: the table of          *)
(* connections its threads share (ConnManager), for every finite set of    *)
(* descriptors, and the end of the server with the way of its metrics      *)
(* (Lifecycle, Metrics), for every bound on what is counted and queued.    *)
(***************************************************************************)
EXTENDS ConnManager, Lifecycle, FiniteSetTheorems, TLAPS

-----------------------------------------------------------------------------
(***************************************************************************)
(* The table of connections.  IInv is inductive; the counter is the        *)
(* delicate part: the acceptor opens a descriptor before it counts it, the *)
(* handler closes only descriptors that are in epoll, and with conn_mutex  *)
(* held across EPOLL_CTL_ADD, try_emplace() and the increment it cannot    *)
(* close one in between.                                                   *)
(***************************************************************************)

\* Every set of descriptors is finite.
LEMMA FdSets ==
    ASSUME NEW S \in SUBSET Fds
    PROVE  IsFiniteSet(S) /\ Cardinality(S) \in Nat
BY FdsAssumption, FS_Subset, FS_CardinalityType, Zenon

\* Opening or closing one descriptor changes their number by at most one.
LEMMA CountOne ==
    ASSUME NEW S \in SUBSET Fds, NEW fd \in Fds
    PROVE  /\ Cardinality(S \ {fd}) <= Cardinality(S)
           /\ Cardinality(S) - 1 <= Cardinality(S \ {fd})
           /\ fd \notin S => Cardinality(S \cup {fd}) = Cardinality(S) + 1
<1>1. IsFiniteSet(S) /\ Cardinality(S) \in Nat
    BY FdSets
<1>2. IsFiniteSet(S \ {fd}) /\ Cardinality(S \ {fd}) \in Nat
    BY FdSets
<1>3. Cardinality(S \ {fd}) = IF fd \in S THEN Cardinality(S) - 1 ELSE Cardinality(S)
    BY <1>1, FS_RemoveElement, Zenon
<1>4. Cardinality(S \cup {fd}) = IF fd \in S THEN Cardinality(S) ELSE Cardinality(S) + 1
    BY <1>1, FS_AddElement
<1>. QED BY <1>1, <1>2, <1>3, <1>4

LEMMA InitInvariant == Init => IInv
<1>. SUFFICES ASSUME Init PROVE IInv
    OBVIOUS
<1>1. TypeOK
    BY Zenon DEF Init, TypeOK, Known
<1>2. Cardinality(open \ Pending) \in Nat
    BY <1>1, FdSets DEF TypeOK
<1>. QED BY <1>1, <1>2 DEF Init, IInv, NoOrphan, BufferDiesWithConnection, Pending

-----------------------------------------------------------------------------
(* One lemma per action.                                                   *)

LEMMA AcceptInvariant == IInv /\ Accept => IInv'
<1>. SUFFICES ASSUME IInv, Accept PROVE IInv'
    OBVIOUS
<1>1. PICK fd \in Fds \ open :
          /\ open' = open \cup {fd}
          /\ accFd' = fd
          /\ \E sent \in BOOLEAN : inbox' = IF sent THEN inbox \cup {fd} ELSE inbox
          /\ \E state \in {"up", "fin", "reset"} : peer' = [peer EXCEPT ![fd] = state]
    BY Zenon DEF Accept
<1>2. TypeOK'
    BY <1>1 DEF IInv, TypeOK, Accept, Known, tableVars, handler
<1>3. open' \ Pending' = open \ Pending
    BY <1>1 DEF Accept, Pending
<1>4. counter' <= Cardinality(open' \ Pending')
    BY <1>3 DEF IInv, Accept, tableVars
<1>5. NoOrphan' /\ BufferDiesWithConnection'
    BY <1>1 DEF IInv, Accept, NoOrphan, BufferDiesWithConnection, Known, tableVars
<1>. QED BY <1>1, <1>2, <1>4, <1>5 DEF IInv, Accept, Pending, handler

LEMMA RegisterInvariant ==
    IInv /\ (RegisterAdd \/ RegisterAddFails) => IInv'
<1>. SUFFICES ASSUME IInv, RegisterAdd \/ RegisterAddFails PROVE IInv'
    OBVIOUS
<1>. accFd \in open /\ accFd \in Fds
    BY DEF IInv, TypeOK, Pending, RegisterAdd, RegisterAddFails
<1>1. TypeOK'
    BY DEF IInv, TypeOK, RegisterAdd, RegisterAddFails, Known, tableVars, handler, sockets
<1>2. counter' <= Cardinality(open' \ Pending')
    <2>1. CASE RegisterAdd
        <3>1. open' \ Pending' = open \ Pending
            BY <2>1 DEF RegisterAdd, Pending
        <3>. QED BY <2>1, <3>1 DEF IInv, RegisterAdd, tableVars
    <2>2. CASE RegisterAddFails
        <3>1. open' \ Pending' = open /\ open \ Pending = open \ {accFd}
            BY <2>2 DEF RegisterAddFails, Pending, sockets
        <3>2. Cardinality(open \ {accFd}) <= Cardinality(open)
            BY CountOne DEF IInv, TypeOK
        <3>3. Cardinality(open \ {accFd}) \in Nat /\ Cardinality(open) \in Nat
            BY FdSets DEF IInv, TypeOK
        <3>. QED BY <2>2, <3>1, <3>2, <3>3 DEF IInv, TypeOK, RegisterAddFails, tableVars
    <2>. QED BY <2>1, <2>2
<1>3. NoOrphan' /\ BufferDiesWithConnection'
    BY DEF IInv, RegisterAdd, RegisterAddFails, NoOrphan, BufferDiesWithConnection,
           Known, tableVars, sockets
<1>. QED
    BY <1>1, <1>2, <1>3 DEF IInv, RegisterAdd, RegisterAddFails, Pending, handler, sockets

LEMMA EmplaceInvariant == IInv /\ RegisterEmplace => IInv'
<1>. SUFFICES ASSUME IInv, RegisterEmplace PROVE IInv'
    OBVIOUS
<1>. accFd \in open /\ accFd \in Fds
    BY DEF IInv, TypeOK, Pending, RegisterEmplace
<1>0. \/ accFd \in Known /\ connections' = connections /\ counter' = counter
      \/ connections' = With(connections, accFd, "fresh") /\ counter' = counter + 1
    BY Zenon DEF RegisterEmplace
<1>1. Known' = Known \cup {accFd}
    BY <1>0 DEF Known, With
<1>2. \A fd \in Known' : connections'[fd] \in {"fresh", "stale"}
    BY <1>0, <1>1 DEF Known, IInv, TypeOK, With
<1>3. TypeOK'
    BY <1>0, <1>1, <1>2 DEF IInv, TypeOK, RegisterEmplace, handler, sockets
<1>4. counter' <= Cardinality(open' \ Pending')
    <2>1. open' \ Pending' = open /\ open \ Pending = open \ {accFd}
        BY DEF RegisterEmplace, Pending, sockets
    <2>2. open = (open \ {accFd}) \cup {accFd}
        OBVIOUS
    <2>3. Cardinality((open \ {accFd}) \cup {accFd}) = Cardinality(open \ {accFd}) + 1
        BY CountOne DEF IInv, TypeOK
    <2>4. Cardinality(open) = Cardinality(open \ {accFd}) + 1
        BY <2>2, <2>3
    <2>5. Cardinality(open \ {accFd}) \in Nat /\ counter \in Nat
        BY FdSets DEF IInv, TypeOK
    <2>6. counter' \in {counter, counter + 1}
        BY <1>0
    <2>7. counter <= Cardinality(open \ {accFd})
        BY <2>1 DEF IInv
    <2>8. Cardinality(open' \ Pending') = Cardinality(open)
        BY <2>1
    <2>. QED BY <2>4, <2>5, <2>6, <2>7, <2>8
<1>5. NoOrphan' /\ BufferDiesWithConnection'
    BY <1>1 DEF IInv, RegisterEmplace, NoOrphan, BufferDiesWithConnection, sockets
<1>. QED BY <1>3, <1>4, <1>5 DEF IInv, RegisterEmplace, Pending, handler, sockets

LEMMA ValidateInvariant ==
    IInv /\ (AcceptFails \/ validateConnections) => IInv'
<1>. SUFFICES ASSUME IInv, AcceptFails \/ validateConnections PROVE IInv'
    OBVIOUS
<1>1. UNCHANGED <<tableVars, accFd, handler, sockets>>
    BY DEF AcceptFails, validateConnections
<1>2. /\ accPc \in {"accept", "validate"}
      /\ accPc' \in {"accept", "validate", "stuck"}
    BY DEF AcceptFails, validateConnections
<1>3. TypeOK'
    BY <1>1, <1>2 DEF IInv, TypeOK, Known, tableVars, handler, sockets
<1>4. open' \ Pending' = open \ Pending
    BY <1>1, <1>2 DEF Pending, sockets
<1>5. NoOrphan' /\ BufferDiesWithConnection'
    BY <1>1, <1>2 DEF IInv, NoOrphan, BufferDiesWithConnection, Known, tableVars, sockets
<1>. QED BY <1>1, <1>2, <1>3, <1>4, <1>5 DEF IInv, Pending, tableVars, handler, sockets

\* closeConnection() on a descriptor that is in epoll: the counter follows the
\* descriptors, since no registration is under way between EPOLL_CTL_ADD and
\* the increment.
LEMMA CloseConnection ==
    ASSUME IInv, NEW fd \in Fds, fd \in epolled, closeConnection(fd), UNCHANGED acceptor
    PROVE  /\ Known' \subseteq Fds
           /\ \A x \in Known' : connections'[x] \in {"fresh", "stale"}
           /\ dirty' \subseteq Fds
           /\ counter' \in Nat
           /\ open' \subseteq Fds /\ epolled' \subseteq Fds
           /\ ready' \subseteq Fds /\ inbox' \subseteq Fds
           /\ peer' \in [Fds -> {"up", "fin", "reset"}]
           /\ counter' <= Cardinality(open' \ Pending')
           /\ Pending' \subseteq open' /\ epolled' \subseteq open'
           /\ epolled \ {fd} \subseteq epolled'
           /\ accPc = "register" => accFd \notin epolled'
           /\ NoOrphan' /\ BufferDiesWithConnection'
<1>1. CASE fd \notin Known
    <2>1. UNCHANGED <<tableVars, sockets>>
        BY <1>1 DEF closeConnection
    <2>2. open' \ Pending' = open \ Pending
        BY <2>1 DEF Pending, acceptor, sockets
    <2>. QED BY <2>1, <2>2 DEF IInv, TypeOK, NoOrphan, BufferDiesWithConnection,
                 Pending, Known, tableVars, sockets, acceptor
<1>2. CASE fd \in Known
    <2>1. /\ open' = open \ {fd}
          /\ epolled' = epolled \ {fd}
          /\ ready' = ready \ {fd}
          /\ inbox' = inbox \ {fd}
          /\ peer' = [peer EXCEPT ![fd] = "up"]
          /\ connections' = Without(connections, fd)
          /\ dirty' = dirty \ {fd}
          /\ counter' = IF counter > 0 THEN counter - 1 ELSE counter
          /\ ~Locked
        BY <1>2 DEF closeConnection
    <2>2. /\ Known' = Known \ {fd}
          /\ \A x \in Known' : connections'[x] \in {"fresh", "stale"}
        BY <2>1 DEF Known, Without, IInv, TypeOK
    <2>3. fd \notin Pending
        BY <2>1 DEF Pending, Locked, IInv
    <2>4. counter' <= Cardinality(open' \ Pending')
        <3>. DEFINE S == open \ Pending
        <3>1. open' \ Pending' = S \ {fd}
            BY <2>1, <2>3 DEF Pending, acceptor
        <3>2. S \in SUBSET Fds
            BY DEF IInv, TypeOK
        <3>3. Cardinality(S) - 1 <= Cardinality(S \ {fd})
            BY <3>2, CountOne, Zenon
        <3>4. /\ Cardinality(S) \in Nat /\ Cardinality(S \ {fd}) \in Nat
              /\ counter \in Nat /\ counter <= Cardinality(S)
            BY <3>2, FdSets DEF IInv, TypeOK
        <3>. HIDE DEF S
        <3>5. counter' <= Cardinality(S \ {fd})
            BY <2>1, <3>3, <3>4
        <3>. QED BY <3>1, <3>5
    <2>5. Pending' = Pending
        BY DEF Pending, acceptor
    <2>6. NoOrphan' /\ BufferDiesWithConnection'
        BY <2>1, <2>2 DEF IInv, NoOrphan, BufferDiesWithConnection, acceptor
    <2>7. counter' \in Nat
        BY <2>1 DEF IInv, TypeOK
    <2>. QED BY <2>1, <2>2, <2>3, <2>4, <2>5, <2>6, <2>7 DEF IInv, TypeOK, acceptor
<1>. QED BY <1>1, <1>2

LEMMA HandleHupInvariant ==
    ASSUME IInv, NEW fd \in Fds, HandleHup(fd)
    PROVE  IInv'
<1>1. fd \in epolled
    BY DEF IInv, HandleHup
<1>2. closeConnection(fd) /\ UNCHANGED <<acceptor, hndPc, hndFd, replies>> /\ hndPc = "next"
    BY DEF HandleHup
<1>3. /\ DOMAIN batch' = DOMAIN batch \ {fd}
      /\ \A x \in DOMAIN batch' : batch'[x] = batch[x]
    BY DEF HandleHup, Without
<1>4. TypeOK'
    BY <1>1, <1>2, <1>3, CloseConnection DEF IInv, TypeOK, acceptor
<1>. QED BY <1>1, <1>2, <1>3, <1>4, CloseConnection DEF IInv, acceptor

LEMMA ReadClosesInvariant == IInv /\ ReadCloses => IInv'
<1>. SUFFICES ASSUME IInv, ReadCloses PROVE IInv'
    OBVIOUS
<1>1. hndFd \in epolled /\ hndFd \in Fds
    BY DEF IInv, TypeOK, ReadCloses
<1>2. closeConnection(hndFd) /\ UNCHANGED <<acceptor, hndFd, batch, replies>>
    BY DEF ReadCloses
<1>3. hndPc = "close" /\ hndPc' = "touch"
    BY DEF ReadCloses
<1>4. TypeOK'
    BY <1>1, <1>2, <1>3, CloseConnection DEF IInv, TypeOK, acceptor
<1>. QED BY <1>1, <1>2, <1>3, <1>4, CloseConnection DEF IInv, acceptor

LEMMA ReadRequestInvariant ==
    ASSUME IInv, NEW fd \in Fds, ReadRequest(fd)
    PROVE  IInv'
<1>1. fd \in epolled /\ fd \in open /\ hndPc = "next"
    BY DEF IInv, ReadRequest
<1>2. /\ hndFd' = fd /\ hndPc' \in {"close", "touch"}
      /\ inbox' = inbox \ {fd}
      /\ dirty' \subseteq dirty \cup {fd}
      /\ UNCHANGED <<counter, acceptor, batch, open, epolled, ready, peer>>
    BY Zenon DEF ReadRequest
<1>3. replies' \in BOOLEAN
    BY Zenon DEF ReadRequest, IInv, TypeOK
<1>4. /\ Known' = Known \cup {fd}
      /\ \A x \in Known' : connections'[x] \in {"fresh", "stale"}
    BY DEF ReadRequest, With, Known, IInv, TypeOK
<1>5. TypeOK'
    BY <1>2, <1>3, <1>4 DEF IInv, TypeOK, acceptor
<1>6. Pending' = Pending /\ open' = open
    BY <1>2 DEF Pending, acceptor
<1>7. NoOrphan' /\ BufferDiesWithConnection'
    BY <1>1, <1>2, <1>4 DEF IInv, NoOrphan, BufferDiesWithConnection, acceptor
<1>. QED BY <1>1, <1>2, <1>5, <1>6, <1>7 DEF IInv, acceptor

LEMMA UpdateActivityInvariant == IInv /\ updateActivity => IInv'
<1>. SUFFICES ASSUME IInv, updateActivity PROVE IInv'
    OBVIOUS
<1>1. hndFd \in Fds
    BY DEF IInv, updateActivity
<1>2. /\ hndPc = "touch" /\ hndPc' = "next"
      /\ UNCHANGED <<dirty, counter, acceptor, hndFd, replies, sockets>>
    BY DEF updateActivity
<1>3. /\ Known' = Known \cup {hndFd}
      /\ \A x \in Known' : connections'[x] \in {"fresh", "stale"}
    BY DEF updateActivity, With, Known, IInv, TypeOK
<1>4. /\ DOMAIN batch' = DOMAIN batch \ {hndFd}
      /\ \A x \in DOMAIN batch' : batch'[x] = batch[x]
    BY DEF updateActivity, Without
<1>5. TypeOK'
    BY <1>1, <1>2, <1>3, <1>4 DEF IInv, TypeOK, acceptor, sockets
<1>6. Pending' = Pending /\ open' = open
    BY <1>2 DEF Pending, acceptor, sockets
<1>7. NoOrphan' /\ BufferDiesWithConnection'
    BY <1>2, <1>3 DEF IInv, NoOrphan, BufferDiesWithConnection, acceptor, sockets
<1>. QED BY <1>2, <1>4, <1>5, <1>6, <1>7 DEF IInv, acceptor, sockets

\* The handler's steps that leave the table and the descriptors alone.
LEMMA BatchInvariant ==
    IInv /\ (EpollWait \/ FinishBatch \/ SendReplies) => IInv'
<1>. SUFFICES ASSUME IInv, EpollWait \/ FinishBatch \/ SendReplies PROVE IInv'
    OBVIOUS
<1>1. /\ UNCHANGED <<tableVars, acceptor, hndFd, open, epolled, inbox, peer>>
      /\ ready' \subseteq ready
      /\ hndPc' \in {"wait", "next", "send"}
      /\ hndPc \in {"wait", "next", "send"}
    BY DEF EpollWait, FinishBatch, SendReplies, sockets
<1>2. replies' \in BOOLEAN
    BY Zenon DEF EpollWait, FinishBatch, SendReplies, IInv, TypeOK
<1>3. /\ \A fd \in DOMAIN batch' : batch'[fd] \in {"in", "hup"}
      /\ \A fd \in DOMAIN batch' : fd \in epolled
    BY DEF EpollWait, FinishBatch, SendReplies, IInv, TypeOK
<1>4. TypeOK'
    BY <1>1, <1>2, <1>3 DEF IInv, TypeOK, Known, tableVars, acceptor
<1>5. Pending' = Pending /\ open' = open
    BY <1>1 DEF Pending, acceptor
<1>6. NoOrphan' /\ BufferDiesWithConnection'
    BY <1>1 DEF IInv, NoOrphan, BufferDiesWithConnection, Known, tableVars, acceptor
<1>. QED BY <1>1, <1>3, <1>4, <1>5, <1>6 DEF IInv, tableVars, acceptor

LEMMA EnvironmentInvariant ==
    ASSUME IInv, NEW fd \in Fds, Send(fd) \/ Leave(fd) \/ Expire(fd)
    PROVE  IInv'
<1>1. UNCHANGED <<dirty, counter, acceptor, handler, open, epolled>>
    BY DEF Send, Leave, Expire, tableVars, sockets
<1>2. /\ Known' = Known
      /\ \A x \in Known' : connections'[x] \in {"fresh", "stale"}
    BY DEF Send, Leave, Expire, tableVars, Known, IInv, TypeOK
<1>3. /\ ready' \subseteq Fds /\ inbox' \subseteq Fds
      /\ peer' \in [Fds -> {"up", "fin", "reset"}]
    BY DEF Send, Leave, Expire, Edge, sockets, IInv, TypeOK
<1>4. TypeOK'
    BY <1>1, <1>2, <1>3 DEF IInv, TypeOK, acceptor, handler
<1>5. Pending' = Pending /\ open' = open
    BY <1>1 DEF Pending, acceptor
<1>6. NoOrphan' /\ BufferDiesWithConnection'
    BY <1>1, <1>2 DEF IInv, NoOrphan, BufferDiesWithConnection, acceptor
<1>. QED BY <1>1, <1>4, <1>5, <1>6 DEF IInv, acceptor, handler

-----------------------------------------------------------------------------
LEMMA StepInvariant == IInv /\ [Next]_vars => IInv'
<1>. SUFFICES ASSUME IInv, [Next]_vars PROVE IInv'
    OBVIOUS
<1>1. CASE Accept
    BY <1>1, AcceptInvariant
<1>2. CASE AcceptorStep
    BY <1>2, RegisterInvariant, EmplaceInvariant, ValidateInvariant DEF AcceptorStep
<1>3. CASE HandlerStep
    BY <1>3, BatchInvariant, ReadClosesInvariant, UpdateActivityInvariant,
       HandleHupInvariant, ReadRequestInvariant DEF HandlerStep
<1>4. CASE SendReplies
    BY <1>4, BatchInvariant
<1>5. CASE Environment
    BY <1>5, EnvironmentInvariant DEF Environment
<1>6. CASE UNCHANGED vars
    <2>1. UNCHANGED <<tableVars, acceptor, handler, sockets>>
        BY <1>6 DEF vars
    <2>2. TypeOK'
        BY <2>1 DEF IInv, TypeOK, Known, tableVars, acceptor, handler, sockets
    <2>3. Pending' = Pending /\ open' = open
        BY <2>1 DEF Pending, acceptor, sockets
    <2>4. NoOrphan' /\ BufferDiesWithConnection'
        BY <2>1 DEF IInv, NoOrphan, BufferDiesWithConnection, Known, tableVars,
                    acceptor, sockets
    <2>. QED BY <2>1, <2>2, <2>3, <2>4 DEF IInv, tableVars, acceptor, handler, sockets
<1>. QED BY <1>1, <1>2, <1>3, <1>4, <1>5, <1>6 DEF Next

\* The inductive invariant holds throughout, the types with it: in particular
\* activeConnectionsCounter never leaves its unsigned range.
THEOREM InvariantHolds == Spec => []IInv
<1>1. Init => IInv
    BY InitInvariant
<1>2. IInv /\ [Next]_vars => IInv'
    BY StepInvariant
<1>. QED BY <1>1, <1>2, PTL DEF Spec

\* closeConnection() never brings activeConnectionsCounter below zero and
\* registerConnection() never above the number of open descriptors, in every
\* interleaving of the acceptor and the handler.
THEOREM CounterBounded == Spec => [](TypeOK /\ CounterNeverOverstates)
<1>1. IInv => TypeOK /\ CounterNeverOverstates
    <2>. SUFFICES ASSUME IInv PROVE CounterNeverOverstates
        BY DEF IInv
    <2>1. accFd \in Fds \/ Pending = {}
        BY DEF IInv, TypeOK, Pending
    <2>2. Cardinality(open \ Pending) <= Cardinality(open)
        <3>1. CASE Pending = {}
            <4>1. open \ Pending = open
                BY <3>1
            <4>2. Cardinality(open) \in Nat
                BY FdSets DEF IInv, TypeOK
            <4>. QED BY <4>1, <4>2
        <3>2. CASE accFd \in Fds /\ Pending = {accFd}
            BY <3>2, CountOne DEF IInv, TypeOK
        <3>. QED BY <2>1, <3>1, <3>2 DEF Pending
    <2>3. Cardinality(open \ Pending) \in Nat /\ Cardinality(open) \in Nat
        BY FdSets DEF IInv, TypeOK
    <2>. QED BY <2>2, <2>3 DEF IInv, TypeOK, CounterNeverOverstates
<1>. QED BY <1>1, InvariantHolds, PTL

\* No open client descriptor is ever left without the entry closeConnection()
\* needs, except the one being registered.
THEOREM NoDescriptorLost == Spec => []NoOrphan
<1>1. IInv => NoOrphan
    BY DEF IInv
<1>. QED BY <1>1, InvariantHolds, PTL

\* What a client left half sent in readBuffer is gone before its descriptor
\* number is used again.
THEOREM NoInheritedBytes == Spec => []BufferDiesWithConnection
<1>1. IInv => BufferDiesWithConnection
    BY DEF IInv
<1>. QED BY <1>1, InvariantHolds, PTL

-----------------------------------------------------------------------------
(***************************************************************************)
(* The end of the server and the way of its metrics.  The two inductive    *)
(* invariants are independent: LifecycleIInv follows the threads and the   *)
(* places of main(), SnapshotsGrow the numbers from the server's counters  *)
(* to the exported ones.                                                   *)
(***************************************************************************)

USE DEF Threads, Latched

LEMMA LifecycleInitially == LifecycleInit => LifecycleIInv
BY DEF LifecycleInit, MetricsInit, LifecycleIInv, Due

LEMMA MainInvariant == LifecycleIInv /\ MainStep => LifecycleIInv'
<1>. SUFFICES ASSUME LifecycleIInv, MainStep PROVE LifecycleIInv'
    OBVIOUS
<1>1. CASE StartRunning
    BY <1>1 DEF StartRunning, LifecycleIInv, Due, objects, metricsVars
<1>2. CASE StartThread
    BY <1>2 DEF StartThread, Creates, After, LifecycleIInv, Due, objects, metricsVars
<1>3. CASE StartReturns
    BY <1>3 DEF StartReturns, LifecycleIInv, Due, objects, metricsVars
<1>4. CASE StopExporter
    BY <1>4 DEF StopExporter, LifecycleIInv, Due, life, objects
<1>5. CASE DestroyShards
    BY <1>5 DEF DestroyShards, LifecycleIInv, Due, metricsVars
<1>6. CASE DestroyThreads
    BY <1>6 DEF DestroyThreads, LifecycleIInv, Due, objects, metricsVars
<1>7. CASE DestroyConnManager
    BY <1>7 DEF DestroyConnManager, LifecycleIInv, Due, metricsVars
<1>8. CASE DestroyChannel
    BY <1>8 DEF DestroyChannel, LifecycleIInv, Due, metricsVars
<1>. QED BY <1>1, <1>2, <1>3, <1>4, <1>5, <1>6, <1>7, <1>8 DEF MainStep

LEMMA ThreadInvariant ==
    ASSUME LifecycleIInv, NEW t \in Threads, ThreadExits(t)
    PROVE  LifecycleIInv'
<1>1. /\ mainPc' = mainPc /\ exporterPc' = exporterPc
      /\ shards' = shards /\ connManager' = connManager /\ serverChannel' = serverChannel
    BY DEF ThreadExits, objects, metricsVars
<1>2. thread[t] = "running" /\ thread' = [thread EXCEPT ![t] = "exited"]
    BY DEF ThreadExits, Running
<1>3. latch' = Due("connManager")' + Due("reqHandler")'
    BY <1>2 DEF ThreadExits, LifecycleIInv, Due
<1>. QED BY <1>1, <1>2, <1>3 DEF LifecycleIInv

LEMMA OtherInvariant ==
    LifecycleIInv /\ (\/ Polls \/ EpollWaitFails \/ FlowsOffEnd \/ Updates \/ Exports
             \/ StopBegins \/ RequestStop) => LifecycleIInv'
<1>. SUFFICES ASSUME LifecycleIInv, \/ Polls \/ EpollWaitFails \/ FlowsOffEnd \/ Updates \/ Exports
                           \/ StopBegins \/ RequestStop
              PROVE  LifecycleIInv'
    OBVIOUS
<1>1. /\ thread' = thread /\ latch' = latch /\ mainPc' \in {mainPc, "crashed"}
      /\ shards' = shards /\ connManager' = connManager /\ serverChannel' = serverChannel
    BY DEF Polls, EpollWaitFails, FlowsOffEnd, Updates, Exports, StopBegins, RequestStop,
           life, objects
<1>2. exporterPc = "exited" => exporterPc' = "exited"
    BY DEF Polls, CountEvents, EpollWaitFails, FlowsOffEnd, Updates, ReadErrors, PushSnapshot,
           Exports, ExporterStep, PopSnapshot, ExporterSleeps, ExporterWakes, StopBegins,
           RequestStop, metricsVars
<1>. QED BY <1>1, <1>2 DEF LifecycleIInv, Due

LEMMA LifecycleStep == LifecycleIInv /\ [LifecycleNext]_lifecycleVars => LifecycleIInv'
<1>. SUFFICES ASSUME LifecycleIInv, [LifecycleNext]_lifecycleVars PROVE LifecycleIInv'
    OBVIOUS
<1>1. CASE UNCHANGED lifecycleVars
    BY <1>1 DEF lifecycleVars, life, objects, metricsVars, LifecycleIInv, Due
<1>2. CASE LifecycleNext
    BY <1>2, MainInvariant, ThreadInvariant, OtherInvariant DEF LifecycleNext
<1>. QED BY <1>1, <1>2

\* The latch counts the latched threads that have still to exit, and main()
\* reaches the destruction of an object only when no thread that uses it runs.
THEOREM LatchCountsThreads == LifecycleSpec => []LifecycleIInv
BY LifecycleInitially, LifecycleStep, PTL DEF LifecycleSpec

\* No thread ever uses serverShards, connManager or the MetricsChannel after
\* its destruction, at whatever point of Start() the signals arrive.
THEOREM NothingUsedAfterDestruction == LifecycleSpec => []NoUseAfterDestroy
<1>1. LifecycleIInv => NoUseAfterDestroy
    BY DEF LifecycleIInv, NoUseAfterDestroy, Alive
<1>. QED BY <1>1, LatchCountsThreads, PTL

-----------------------------------------------------------------------------
(* The metrics.                                                            *)

LEMMA CountInvariant == SnapshotsGrow /\ CountEvents => SnapshotsGrow'
<1>. SUFFICES ASSUME SnapshotsGrow, CountEvents PROVE SnapshotsGrow'
    OBVIOUS
<1>1. /\ numErrors' \in {numErrors, numErrors + 1}
      /\ numRequests' \in {numRequests, numRequests + 1}
      /\ UNCHANGED <<snapshot, channel, exported>>
    BY DEF CountEvents
<1>2. numErrors' \in Nat /\ numRequests' \in Nat /\ snapshot' <= numErrors'
    BY <1>1 DEF SnapshotsGrow, Idle
<1>3. \A c \in Counts : Below(c, Coming) => Below(c, Coming')
    BY <1>1 DEF SnapshotsGrow, Coming, Below, Counts, Idle
<1>4. \A i \in DOMAIN channel : channel[i] \in Counts
    BY DEF SnapshotsGrow
<1>. QED BY <1>1, <1>2, <1>3, <1>4 DEF SnapshotsGrow

LEMMA ReadInvariant == SnapshotsGrow /\ ReadErrors => SnapshotsGrow'
BY DEF SnapshotsGrow, ReadErrors, Coming, Below, Counts, Idle, counters

LEMMA PushInvariant == SnapshotsGrow /\ PushSnapshot => SnapshotsGrow'
<1>. SUFFICES ASSUME SnapshotsGrow, PushSnapshot PROVE SnapshotsGrow'
    OBVIOUS
<1>. DEFINE new == [errors |-> snapshot, requests |-> numRequests]
<1>1. /\ channel' = Append(channel, new) /\ snapshot' = Idle
      /\ snapshot \in Nat /\ new = Coming /\ new \in Counts
      /\ UNCHANGED <<numErrors, numRequests, exported>>
    BY DEF PushSnapshot, SnapshotsGrow, Coming, Counts, Idle, counters
<1>2. /\ channel' \in Seq(Counts) /\ DOMAIN channel' = 1..(Len(channel) + 1)
      /\ DOMAIN channel = 1..Len(channel) /\ Len(channel) \in Nat
      /\ \A i \in 1..Len(channel) : channel'[i] = channel[i]
      /\ channel'[Len(channel) + 1] = new
    BY <1>1 DEF SnapshotsGrow
<1>3. Below(new, Coming') /\ Below(new, new)
    BY <1>1 DEF Coming, Below, SnapshotsGrow, Idle, Counts
<1>4. \A c \in Counts : Below(c, new) => Below(c, Coming')
    BY <1>1, <1>3 DEF Coming, Below, Counts, SnapshotsGrow, Idle
<1>5. \A i \in DOMAIN channel : channel[i] \in Counts
    BY DEF SnapshotsGrow
<1>6. \A i \in DOMAIN channel' :
          Below(exported, channel'[i]) /\ Below(channel'[i], Coming')
    BY <1>1, <1>2, <1>3, <1>4, <1>5 DEF SnapshotsGrow
<1>7. \A i, j \in DOMAIN channel' : i <= j => Below(channel'[i], channel'[j])
    BY <1>1, <1>2, <1>3 DEF SnapshotsGrow
<1>8. Below(exported, Coming')
    BY <1>1, <1>4 DEF SnapshotsGrow
<1>. QED BY <1>1, <1>2, <1>6, <1>7, <1>8 DEF SnapshotsGrow, Idle

LEMMA PopInvariant == SnapshotsGrow /\ PopSnapshot => SnapshotsGrow'
<1>. SUFFICES ASSUME SnapshotsGrow, PopSnapshot PROVE SnapshotsGrow'
    OBVIOUS
<1>1. /\ channel # <<>> /\ channel' = Tail(channel)
      /\ UNCHANGED <<numErrors, numRequests, snapshot>>
    BY DEF PopSnapshot, counters
<1>2. /\ 1 \in DOMAIN channel /\ Head(channel) = channel[1] /\ channel[1] \in Counts
      /\ channel' \in Seq(Counts)
      /\ \A i \in DOMAIN channel' : i + 1 \in DOMAIN channel /\ channel'[i] = channel[i + 1]
      /\ DOMAIN channel' \subseteq Nat
    BY <1>1 DEF SnapshotsGrow
<1>3. exported' = channel[1]
    BY <1>2 DEF PopSnapshot, UpdateMetrics, SnapshotsGrow, Counts
<1>4. Coming' = Coming
    BY <1>1 DEF Coming
<1>5. \A i \in DOMAIN channel' :
          Below(exported', channel'[i]) /\ Below(channel'[i], Coming')
    BY <1>2, <1>3, <1>4 DEF SnapshotsGrow
<1>6. \A i, j \in DOMAIN channel' : i <= j => Below(channel'[i], channel'[j])
    BY <1>2 DEF SnapshotsGrow
<1>7. Below(exported', Coming')
    BY <1>2, <1>3, <1>4 DEF SnapshotsGrow
<1>. QED BY <1>1, <1>2, <1>3, <1>5, <1>6, <1>7 DEF SnapshotsGrow

LEMMA MetricsStep == SnapshotsGrow /\ [LifecycleNext]_lifecycleVars => SnapshotsGrow'
<1>. SUFFICES ASSUME SnapshotsGrow, [LifecycleNext]_lifecycleVars PROVE SnapshotsGrow'
    OBVIOUS
<1>1. CASE UNCHANGED <<counters, snapshot, channel, exported>>
    BY <1>1 DEF SnapshotsGrow, Coming, counters
<1>2. CASE CountEvents \/ ReadErrors \/ PushSnapshot \/ PopSnapshot
    BY <1>2, CountInvariant, ReadInvariant, PushInvariant, PopInvariant
<1>3. \/ UNCHANGED <<counters, snapshot, channel, exported>>
      \/ CountEvents \/ ReadErrors \/ PushSnapshot \/ PopSnapshot
    BY DEF LifecycleNext, lifecycleVars, MainStep, StartRunning, StartThread, StartReturns, StopExporter,
           DestroyShards, DestroyThreads, DestroyConnManager, DestroyChannel, ThreadExits,
           Polls, EpollWaitFails, FlowsOffEnd, Updates, Exports, ExporterStep, ExporterSleeps,
           ExporterWakes, StopBegins, RequestStop, metricsVars
<1>. QED BY <1>1, <1>2, <1>3

\* metricsUpdater() pushes snapshots, and UpdateMetrics() applies them, in the
\* order they were taken: each is at least the one before it.
THEOREM MetricsFollowServer == LifecycleSpec => []SnapshotsGrow
<1>1. LifecycleInit => SnapshotsGrow
    BY DEF LifecycleInit, MetricsInit, SnapshotsGrow, Coming, Below, Counts, Idle
<1>. QED BY <1>1, MetricsStep, PTL DEF LifecycleSpec

\* The totals UpdateMetrics() exports never exceed what the server has counted.
THEOREM ExportedWithinCounted == LifecycleSpec => []ExportedNeverAhead
<1>1. SnapshotsGrow => ExportedNeverAhead
    BY DEF SnapshotsGrow, ExportedNeverAhead, Coming, Below, Counts, Idle
<1>. QED BY <1>1, MetricsFollowServer, PTL

=============================================================================
