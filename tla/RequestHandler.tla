-------------------------- MODULE RequestHandler --------------------------
(***************************************************************************)
(* One iteration after another of handleRequests() (server.cpp) from the   *)
(* point where the events of an epoll_wait() have been read: the requests  *)
(* of each ready connection are processed one by one, for one connection   *)
(* after the other, and all replies are sent at the end.                   *)
(*                                                                         *)
(* The shards appear as the VersionedMap that each KeyValueStore           *)
(* implements.  What it stores is the heap buffer of a value, because a    *)
(* custom-protocol GET answers with a pointer into that buffer.  Tables    *)
(* are not resized here, which could only change the order of versions.    *)
(*                                                                         *)
(* An EXEC runs one queued command per step; nothing else is enabled until *)
(* it has replied.                                                         *)
(***************************************************************************)
EXTENDS Integers, Sequences, FiniteSets

CONSTANTS
    Conns,
    Keys, Values,
    Compressed,     \* the values kept compressed: a GET decompresses a copy
    Buffers,        \* heap buffers for values; bounds what can be stored
    NoKey, NoValue, NoConn,
    MaxQueue,       \* bound on the length of a transaction
    MaxBatch        \* bound on the replies of one iteration

ASSUME ConnsAssumption == NoConn \notin Conns
ASSUME ValuesAssumption == NoValue \notin Values /\ Compressed \subseteq Values
ASSUME BoundsAssumption == MaxQueue \in Nat /\ MaxBatch \in Nat

VARIABLES
    versions, storeRet,  \* the store
    heap,                \* buffer -> its value, NoValue when it is free
    tx,                  \* conn -> RespTransactionState
    phase,               \* "read", "process" or "exec"
    readers, cur,        \* connections still to process, and the present one
    responses,           \* conn -> the replies of this iteration
    results,             \* the replies of the EXEC in progress
    view                 \* history: the transaction as the client's replies tell it

store == <<versions, storeRet, heap>>
vars == <<store, tx, phase, readers, cur, responses, results, view>>

Store == INSTANCE VersionedMap WITH Values <- Buffers, ret <- storeRet

-----------------------------------------------------------------------------
Command == [op : {"get", "del"}, key : Keys] \cup
           [op : {"set"}, key : Keys, value : Values]

Reply == [tag : {"ok", "queued", "error", "one", "zero", "nil", "array"}] \cup
         [tag : {"bulk"}, value : Values] \cup
         [tag : {"pointer"}, buffer : Buffers, value : Values]
Just(t) == [tag |-> t]

NoTx == [active |-> FALSE, aborted |-> FALSE, queue |-> <<>>]
Opened == [active |-> TRUE, aborted |-> FALSE, queue |-> <<>>]

Init ==
    /\ Store!Init
    /\ heap = [b \in Buffers |-> NoValue]
    /\ tx = [c \in Conns |-> NoTx]
    /\ phase = "read"
    /\ readers = {} /\ cur = NoConn
    /\ responses = [c \in Conns |-> <<>>]
    /\ results = <<>>
    /\ view = tx

-----------------------------------------------------------------------------
(* handleGet(), handleSet() and handleDel() with their shard.  RESP        *)
(* replies copy a value, custom ones point to it.                          *)

handleGet(k, protocol, reply) ==
    LET b == Store!Top(k)
        v == heap[b]
    IN  /\ Store!Get(k)
        /\ UNCHANGED heap
        /\ reply = IF versions[k] = <<>> THEN Just("nil")
                   ELSE IF protocol = "resp" \/ v \in Compressed
                   THEN [tag |-> "bulk", value |-> v]
                   ELSE [tag |-> "pointer", buffer |-> b, value |-> v]

Free(k) == [heap EXCEPT ![Store!Top(k)] = NoValue]

\* Seeded fault: the freed buffer stays where it is, under the new version.
handleSetKeepsFreed(k, v, reply) ==
    \E b \in Buffers :
        \/ /\ Free(k)[b] = NoValue
           /\ Store!Cover(k, b)
           /\ heap' = [Free(k) EXCEPT ![b] = v]
           /\ reply = Just("ok")
        \/ /\ Store!Refuse(k, b)
           /\ UNCHANGED heap
           /\ reply = Just("error")
\* A set() that finds the key frees its buffer before it allocates the new
\* one, which may be the same.
handleSet(k, v, reply) ==
    \E b \in Buffers :
        \/ /\ heap[b] = NoValue
           /\ Store!Cover(k, b)
           /\ heap' = [heap EXCEPT ![b] = v]
           /\ reply = Just("ok")
        \/ /\ Free(k)[b] = NoValue
           /\ Store!Replace(k, b)
           /\ heap' = [Free(k) EXCEPT ![b] = v]
           /\ reply = Just("ok")
        \/ /\ Store!Refuse(k, b)
           /\ UNCHANGED heap
           /\ reply = Just("error")

handleDel(k, protocol, reply) ==
    /\ Store!Del(k)
    /\ IF versions[k] = <<>>
       THEN /\ UNCHANGED heap
            /\ reply = Just(IF protocol = "resp" THEN "zero" ELSE "error")
       ELSE /\ heap' = Free(k)
            /\ reply = Just(IF protocol = "resp" THEN "one" ELSE "ok")

Run(cmd, protocol, reply) ==
    \/ cmd.op = "get" /\ handleGet(cmd.key, protocol, reply)
    \/ cmd.op = "set" /\ handleSet(cmd.key, cmd.value, reply)
    \/ cmd.op = "del" /\ handleDel(cmd.key, protocol, reply)

-----------------------------------------------------------------------------
(* processRequestSync().                                                   *)

Aborted(t) == [active |-> TRUE, aborted |-> TRUE, queue |-> t.queue]
Queued(t, cmd) == [active |-> TRUE, aborted |-> t.aborted, queue |-> Append(t.queue, cmd)]

\* What the reply to a transaction command or an error tells the client.
Seen(v, op, reply) ==
    IF op = "exec" THEN NoTx
    ELSE IF reply = "ok" THEN (IF op = "multi" THEN Opened ELSE NoTx)
    ELSE IF v.active THEN Aborted(v) ELSE v

Respond(reply) == responses' = [responses EXCEPT ![cur] = Append(@, reply)]
SetTx(t) == tx' = [tx EXCEPT ![cur] = t]
SetView(v) == view' = [view EXCEPT ![cur] = v]

MayProcess ==
    /\ phase = "process"
    /\ cur # NoConn
    /\ Cardinality({p \in Conns \X (1..MaxBatch) : p[2] <= Len(responses[p[1]])}) < MaxBatch

\* Seeded fault: an error does not abort the transaction.
markRespTransactionErrorIgnored(t) == t

markRespTransactionError(t) == IF t.active THEN Aborted(t) ELSE t

\* A request that leaves transaction t behind and is answered by reply.
RespControl(op, t, reply) ==
    /\ MayProcess
    /\ SetTx(t)
    /\ Respond(Just(reply))
    /\ SetView(Seen(view[cur], op, reply))
    /\ UNCHANGED <<store, phase, readers, cur, results>>

Multi ==
    \/ ~tx[cur].active /\ RespControl("multi", Opened, "ok")
    \/ tx[cur].active /\ RespControl("multi", markRespTransactionError(tx[cur]), "error")
Discard ==
    \/ ~tx[cur].active /\ RespControl("discard", tx[cur], "error")
    \/ tx[cur].active /\ RespControl("discard", NoTx, "ok")
ExecRefused ==
    \/ ~tx[cur].active /\ RespControl("exec", tx[cur], "error")
    \/ tx[cur].active /\ tx[cur].aborted /\ RespControl("exec", NoTx, "error")
BadRequest == RespControl("bad", markRespTransactionError(tx[cur]), "error")

\* GET, SET or DEL inside a transaction.
queueRespCommand(cmd) ==
    /\ MayProcess
    /\ tx[cur].active
    /\ Len(tx[cur].queue) < MaxQueue
    /\ SetTx(Queued(tx[cur], cmd))
    /\ Respond(Just("queued"))
    /\ SetView(Queued(view[cur], cmd))
    /\ UNCHANGED <<store, phase, readers, cur, results>>

\* GET, SET or DEL of the RESP protocol outside a transaction.
RespCommand(cmd) ==
    /\ MayProcess
    /\ ~tx[cur].active
    /\ \E reply \in Reply : Run(cmd, "resp", reply) /\ Respond(reply)
    /\ UNCHANGED <<tx, phase, readers, cur, results, view>>

\* A request of the custom protocol, which knows no transactions.
CustomRequest(req) ==
    /\ MayProcess
    /\ \E reply \in Reply :
          /\ Respond(reply)
          /\ \/ Run(req, "custom", reply)
             \/ req.op = "bad" /\ reply = Just("error") /\ UNCHANGED store
    /\ UNCHANGED <<tx, phase, readers, cur, results, view>>

BeginExec ==
    /\ MayProcess
    /\ tx[cur].active /\ ~tx[cur].aborted
    /\ phase' = "exec"
    /\ results' = <<>>
    /\ UNCHANGED <<store, tx, readers, cur, responses, view>>

\* Seeded fault: the queue is run from its end.
ExecCommandReversed ==
    /\ phase = "exec"
    /\ Len(results) < Len(tx[cur].queue)
    /\ \E reply \in Reply :
          /\ Run(tx[cur].queue[Len(tx[cur].queue) - Len(results)], "resp", reply)
          /\ results' = Append(results, reply)
    /\ UNCHANGED <<tx, phase, readers, cur, responses, view>>

\* One iteration of EXEC's loop over the queue.
ExecCommand ==
    /\ phase = "exec"
    /\ Len(results) < Len(tx[cur].queue)
    /\ \E reply \in Reply :
          /\ Run(tx[cur].queue[Len(results) + 1], "resp", reply)
          /\ results' = Append(results, reply)
    /\ UNCHANGED <<tx, phase, readers, cur, responses, view>>

EndExec ==
    /\ phase = "exec"
    /\ Len(results) = Len(tx[cur].queue)
    /\ SetTx(NoTx)
    /\ Respond(Just("array"))
    /\ SetView(Seen(view[cur], "exec", "array"))
    /\ phase' = "process"
    /\ results' = <<>>
    /\ UNCHANGED <<store, readers, cur>>

-----------------------------------------------------------------------------
(* handleRequests().                                                       *)

ReadRequests ==
    /\ phase = "read"
    /\ readers' \in (SUBSET Conns) \ {{}}
    /\ phase' = "process"
    /\ UNCHANGED <<store, tx, cur, responses, results, view>>

NextReader ==
    /\ phase = "process"
    /\ cur' \in readers
    /\ readers' = readers \ {cur'}
    /\ UNCHANGED <<store, tx, phase, responses, results, view>>

\* sendResponses() for each connection; the replies are then destroyed.
sendResponses ==
    /\ phase = "process"
    /\ readers = {}
    /\ phase' = "read"
    /\ cur' = NoConn
    /\ responses' = [c \in Conns |-> <<>>]
    /\ UNCHANGED <<store, tx, readers, results, view>>

\* A connection is closed and its ConnectionData erased; the name stands for
\* the next client from then on.
CloseConnection(c) ==
    /\ phase = "read"
    /\ tx[c] # NoTx
    /\ tx' = [tx EXCEPT ![c] = NoTx]
    /\ view' = [view EXCEPT ![c] = NoTx]
    /\ UNCHANGED <<store, phase, readers, cur, responses, results>>

Next ==
    \/ ReadRequests \/ NextReader \/ sendResponses
    \/ cur # NoConn /\ (Multi \/ Discard \/ ExecRefused \/ BadRequest)
    \/ \E cmd \in Command : queueRespCommand(cmd) \/ RespCommand(cmd)
    \/ \E req \in Command \cup {[op |-> "bad"]} : CustomRequest(req)
    \/ BeginExec \/ ExecCommand \/ EndExec
    \/ \E c \in Conns : CloseConnection(c)

Spec == Init /\ [][Next]_vars

-----------------------------------------------------------------------------
Tx == [active : BOOLEAN, aborted : BOOLEAN, queue : Seq(Command)]

(* Types of the handler's state; a freed buffer holds no value.            *)
TypeOK ==
    /\ versions \in [Keys -> Seq(Buffers)]
    /\ heap \in [Buffers -> Values \cup {NoValue}]
    /\ tx \in [Conns -> Tx] /\ view \in [Conns -> Tx]
    /\ phase \in {"read", "process", "exec"}
    /\ readers \subseteq Conns /\ cur \in Conns \cup {NoConn}
    /\ responses \in [Conns -> Seq(Reply)]
    /\ results \in Seq(Reply)

\* The transaction the server holds for a connection is the one the client
\* can infer from the replies it gets, through nested MULTI, errors, DISCARD,
\* custom requests in between and reconnection: EXEC will run exactly the
\* commands answered with QUEUED since MULTI, and refuses to exactly when one
\* of the answers since then was an error.
TransactionsAgree == tx = view

\* While EXEC runs, its n-th result answers the n-th command the client was
\* told is queued, and nothing of a transaction that saw an error is run.
Answers(cmd, reply) ==
    reply.tag \in CASE cmd.op = "get" -> {"nil", "bulk"}
                    [] cmd.op = "set" -> {"ok", "error"}
                    [] cmd.op = "del" -> {"one", "zero"}
ExecAnswersInOrder ==
    phase = "exec" =>
        /\ ~view[cur].aborted
        /\ Len(results) <= Len(view[cur].queue)
        /\ \A i \in DOMAIN results : Answers(view[cur].queue[i], results[i])

\* No value that is stored lies in a freed buffer or in that of another, so
\* that set() and del() free a buffer once: not when a set() reuses the buffer
\* it has just freed, nor when a del() uncovers an older version of the key.
BuffersOwned ==
    \A k \in Keys : \A i \in DOMAIN versions[k] :
        /\ heap[versions[k][i]] # NoValue
        /\ \A l \in Keys : \A j \in DOMAIN versions[l] :
              versions[l][j] = versions[k][i] => l = k /\ j = i

\* design.md:95: the replies to pipelined SET a 1, GET a, DEL a are "OK", "1",
\* "OK": a reply still says, when it is sent, what GET found.
RepliesKeepTheirValue ==
    \A c \in Conns : \A i \in DOMAIN responses[c] :
        LET r == responses[c][i]
        IN  r.tag = "pointer" => heap[r.buffer] = r.value
=============================================================================
