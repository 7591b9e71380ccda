--------------------------- MODULE ResponseProofs ---------------------------
(***************************************************************************)
(* What is proved of the way from a request to its response: the handler   *)
(* of the requests (RequestHandler) and the storage of its responses       *)
(* (ResponseArena), for any number of connections, slots and packets.      *)
(***************************************************************************)
EXTENDS RequestHandler, ResponseArena, FiniteSetTheorems, TLAPS

-----------------------------------------------------------------------------
(***************************************************************************)
(* The handler's invariants: the transaction a connection holds is the one *)
(* its client knows of, EXEC answers in order, and buffers are not shared. *)
(***************************************************************************)

\* What the proof needs besides the agreement: the shape of a transaction,
\* that one which is not active is empty, and that requests are processed
\* only for a connection.
ClosedIsEmpty ==
    /\ tx \in [Conns -> Tx]
    /\ \A c \in Conns : ~tx[c].active => tx[c] = NoTx
    /\ phase = "exec" => cur \in Conns
    /\ cur \in Conns \cup {NoConn}
    /\ readers \subseteq Conns

TInv == ClosedIsEmpty /\ TransactionsAgree

\* No connection has a transaction at the start.
LEMMA InitTInv == Init => TInv
<1> SUFFICES ASSUME Init PROVE TInv
  OBVIOUS
<1>1. NoTx \in Tx /\ ~NoTx.active
  BY DEF NoTx, Tx
<1>2. QED
  BY <1>1 DEF Init, TInv, ClosedIsEmpty, TransactionsAgree

\* Replacing the transaction of one connection on both sides.
LEMMA SetBoth ==
    ASSUME TInv, NEW c \in Conns, NEW t \in Tx,
           ~t.active => t = NoTx,
           tx' = [tx EXCEPT ![c] = t], view' = [view EXCEPT ![c] = t],
           phase' = "exec" => cur' \in Conns,
           cur' \in Conns \cup {NoConn}, readers' \subseteq Conns
    PROVE  TInv'
BY DEF TInv, ClosedIsEmpty, TransactionsAgree

\* A request that both sides see alike keeps the invariant.
LEMMA RespControlTInv ==
    ASSUME TInv, NEW op, NEW t \in Tx, NEW reply, RespControl(op, t, reply),
           ~t.active => t = NoTx, Seen(tx[cur], op, reply) = t
    PROVE  TInv'
<1>1. /\ cur \in Conns /\ phase = "process"
      /\ tx' = [tx EXCEPT ![cur] = t]
      /\ view' = [view EXCEPT ![cur] = Seen(view[cur], op, reply)]
      /\ UNCHANGED <<phase, cur, readers>>
  BY DEF RespControl, MayProcess, SetTx, SetView, TInv, ClosedIsEmpty
<1>2. view' = [view EXCEPT ![cur] = t]
  BY <1>1, Zenon DEF TInv, TransactionsAgree
<1>3. QED
  BY <1>1, <1>2, SetBoth, Zenon DEF TInv, ClosedIsEmpty

\* MULTI, DISCARD, a refused EXEC and a bad request keep the invariant.
LEMMA ControlTInv ==
    ASSUME TInv, cur # NoConn, Multi \/ Discard \/ ExecRefused \/ BadRequest
    PROVE  TInv'
<1> DEFINE t == tx[cur]
<1>1. t \in Tx /\ (~t.active => t = NoTx)
  BY DEF TInv, ClosedIsEmpty
<1>2. NoTx \in Tx /\ Opened \in Tx /\ Opened.active /\ ~NoTx.active
  BY DEF NoTx, Opened, Tx
<1>3. Aborted(t) \in Tx /\ Aborted(t).active
  BY <1>1 DEF Aborted, Tx
<1>4. CASE Multi
  BY <1>1, <1>2, <1>3, <1>4, RespControlTInv
     DEF Multi, Seen, markRespTransactionError
<1>5. CASE Discard
  BY <1>1, <1>2, <1>5, RespControlTInv DEF Discard, Seen
<1>6. CASE ExecRefused
  BY <1>1, <1>2, <1>6, RespControlTInv DEF ExecRefused, Seen
<1>7. CASE BadRequest
  BY <1>1, <1>3, <1>7, RespControlTInv DEF BadRequest, Seen, markRespTransactionError
<1>8. QED
  BY <1>4, <1>5, <1>6, <1>7

\* A command answered QUEUED is queued on both sides.
LEMMA QueueTInv ==
    ASSUME TInv, NEW cmd \in Command, queueRespCommand(cmd)
    PROVE  TInv'
<1> DEFINE n == Queued(tx[cur], cmd)
<1>1. /\ cur \in Conns
      /\ tx' = [tx EXCEPT ![cur] = n]
      /\ view' = [view EXCEPT ![cur] = Queued(view[cur], cmd)]
      /\ UNCHANGED <<phase, cur, readers>>
  BY DEF queueRespCommand, MayProcess, SetTx, SetView, TInv, ClosedIsEmpty
<1>2. tx[cur] \in Tx /\ view = tx
  BY <1>1 DEF TInv, ClosedIsEmpty, TransactionsAgree
<1>3. n \in Tx /\ n.active
  BY <1>2 DEF Tx, Queued
<1>4. view' = [view EXCEPT ![cur] = n]
  BY <1>1, <1>2
<1> HIDE DEF n
<1>5. QED
  BY <1>1, <1>3, <1>4, SetBoth, Zenon DEF TInv, ClosedIsEmpty

\* No step of the handler breaks the invariant.
LEMMA NextTInv == TInv /\ [Next]_vars => TInv'
<1> SUFFICES ASSUME TInv, [Next]_vars PROVE TInv'
  OBVIOUS
<1>1. NoTx \in Tx
  BY DEF NoTx, Tx
<1>2. CASE cur # NoConn /\ (Multi \/ Discard \/ ExecRefused \/ BadRequest)
  BY <1>2, ControlTInv
<1>3. ASSUME NEW cmd \in Command, queueRespCommand(cmd) PROVE TInv'
  BY <1>3, QueueTInv
<1>4. ASSUME NEW cmd \in Command, RespCommand(cmd) PROVE TInv'
  BY <1>4 DEF RespCommand, TInv, ClosedIsEmpty, TransactionsAgree
<1>5. ASSUME NEW req \in Command \cup {[op |-> "bad"]}, CustomRequest(req)
      PROVE  TInv'
  BY <1>5 DEF CustomRequest, TInv, ClosedIsEmpty, TransactionsAgree
<1>6. CASE BeginExec
  BY <1>6 DEF BeginExec, MayProcess, TInv, ClosedIsEmpty, TransactionsAgree
<1>7. CASE ExecCommand
  BY <1>7 DEF ExecCommand, TInv, ClosedIsEmpty, TransactionsAgree
<1>8. CASE EndExec
  <2>1. /\ cur \in Conns
        /\ tx' = [tx EXCEPT ![cur] = NoTx]
        /\ view' = [view EXCEPT ![cur] = Seen(view[cur], "exec", "array")]
        /\ phase' = "process" /\ UNCHANGED <<cur, readers>>
    BY <1>8 DEF EndExec, SetTx, SetView, TInv, ClosedIsEmpty
  <2>2. Seen(view[cur], "exec", "array") = NoTx
    BY DEF Seen
  <2>3. QED
    BY <1>1, <2>1, <2>2, SetBoth, Zenon DEF TInv, ClosedIsEmpty
<1>9. CASE ReadRequests
  BY <1>9 DEF ReadRequests, TInv, ClosedIsEmpty, TransactionsAgree
<1>10. CASE NextReader
  BY <1>10 DEF NextReader, TInv, ClosedIsEmpty, TransactionsAgree
<1>11. CASE sendResponses
  BY <1>11 DEF sendResponses, TInv, ClosedIsEmpty, TransactionsAgree
<1>12. ASSUME NEW c \in Conns, CloseConnection(c) PROVE TInv'
  BY <1>1, <1>12, SetBoth, Zenon DEF CloseConnection, TInv, ClosedIsEmpty
<1>13. CASE UNCHANGED vars
  BY <1>13 DEF vars, TInv, ClosedIsEmpty, TransactionsAgree
<1>14. QED
  BY <1>2, <1>3, <1>4, <1>5, <1>6, <1>7, <1>8, <1>9, <1>10, <1>11, <1>12, <1>13
     DEF Next

\* For any number of connections, commands and interleaved requests the
\* server's RespTransactionState of a connection is what the replies told its
\* client: EXEC runs what was answered QUEUED, and aborts exactly after errors.
THEOREM TransactionsAlwaysAgree == Spec => []TransactionsAgree
<1>1. TInv => TransactionsAgree
  BY DEF TInv
<1>2. QED
  BY <1>1, InitTInv, NextTInv, PTL DEF Spec

-----------------------------------------------------------------------------
(* EXEC answers in order.                                                  *)

\* What a RESP command is answered is an answer to it.
LEMMA RunAnswers ==
    ASSUME NEW cmd \in Command, NEW reply, Run(cmd, "resp", reply)
    PROVE  Answers(cmd, reply)
<1>1. CASE cmd.op = "get"
  BY <1>1 DEF Run, handleGet, Just, Answers
<1>2. CASE cmd.op = "set"
  BY <1>2 DEF Run, handleSet, Just, Answers
<1>3. CASE cmd.op = "del"
  BY <1>3 DEF Run, handleDel, Just, Answers
<1>4. QED
  BY <1>1, <1>2, <1>3 DEF Run

\* The results so far belong to the front of a queue that may be run.
ExecInv ==
    phase = "exec" =>
        /\ ~tx[cur].aborted
        /\ results \in Seq(Reply)
        /\ Len(results) <= Len(tx[cur].queue)
        /\ \A i \in DOMAIN results : Answers(tx[cur].queue[i], results[i])

\* Only BeginExec enters an EXEC, with no results, and only ExecCommand adds
\* one: the answer to the first command that has none.
LEMMA NextExecInv == TInv /\ ExecInv /\ [Next]_vars => ExecInv'
<1> SUFFICES ASSUME TInv, ExecInv, [Next]_vars, phase' = "exec" PROVE ExecInv'
  BY DEF ExecInv
<1>1. CASE BeginExec
  <2>1. /\ results' = <<>> /\ tx' = tx /\ cur' = cur /\ cur \in Conns
        /\ ~tx[cur].aborted /\ tx[cur].queue \in Seq(Command)
    BY <1>1 DEF BeginExec, MayProcess, TInv, ClosedIsEmpty, Tx
  <2>2. QED
    BY <2>1 DEF ExecInv
<1>2. CASE ExecCommand
  <2>1. /\ phase = "exec" /\ cur \in Conns /\ tx' = tx /\ cur' = cur
        /\ tx[cur].queue \in Seq(Command)
        /\ results \in Seq(Reply) /\ Len(results) < Len(tx[cur].queue)
        /\ ~tx[cur].aborted
        /\ \A i \in DOMAIN results : Answers(tx[cur].queue[i], results[i])
    BY <1>2 DEF ExecCommand, ExecInv, TInv, ClosedIsEmpty, Tx
  <2> DEFINE q == tx[cur].queue
             n == Len(results) + 1
  <2>2. n \in 1..Len(q) /\ q[n] \in Command
    BY <2>1
  <2>3. PICK reply \in Reply : Run(q[n], "resp", reply) /\ results' = Append(results, reply)
    BY <1>2 DEF ExecCommand
  <2>4. Answers(q[n], reply)
    BY <2>2, <2>3, RunAnswers
  <2>5. /\ results' \in Seq(Reply) /\ Len(results') = n /\ DOMAIN results' = 1..n
        /\ results'[n] = reply
        /\ \A i \in 1..Len(results) : results'[i] = results[i]
    BY <2>1, <2>3
  <2>6. \A i \in 1..n : Answers(q[i], results'[i])
    <3> TAKE i \in 1..n
    <3>1. CASE i = n
      BY <3>1, <2>4, <2>5
    <3>2. CASE i # n
      <4>1. i \in 1..Len(results) /\ i \in DOMAIN results
        BY <3>2, <2>1
      <4>2. QED
        BY <4>1, <2>1, <2>5
    <3>3. QED
      BY <3>1, <3>2
  <2>7. QED
    BY <2>1, <2>2, <2>5, <2>6 DEF ExecInv
<1>3. CASE UNCHANGED vars
  BY <1>3 DEF vars, ExecInv
<1>4. CASE Next /\ ~BeginExec /\ ~ExecCommand
  <2>1. phase # "exec" => phase' # "exec"
    BY <1>4, SMTT(30) DEF Next, ReadRequests, NextReader, sendResponses, Multi, Discard,
        ExecRefused, BadRequest, RespControl, queueRespCommand, RespCommand,
        CustomRequest, EndExec, CloseConnection
  <2>2. phase = "exec" => EndExec
    BY <1>4 DEF Next, ReadRequests, NextReader, sendResponses, Multi, Discard,
        ExecRefused, BadRequest, RespControl, MayProcess, queueRespCommand,
        RespCommand, CustomRequest, CloseConnection
  <2>3. QED
    BY <2>1, <2>2 DEF EndExec
<1>5. QED
  BY <1>1, <1>2, <1>3, <1>4

\* While EXEC runs, its n-th result answers the n-th command answered QUEUED,
\* and nothing of a transaction that saw an error is run.
THEOREM ExecAlwaysInOrder == Spec => []ExecAnswersInOrder
<1>1. Init => ExecInv
  BY DEF Init, ExecInv
<1>2. TInv /\ ExecInv => ExecAnswersInOrder
  BY DEF TInv, TransactionsAgree, ExecInv, ExecAnswersInOrder
<1>3. QED
  BY <1>1, <1>2, InitTInv, NextTInv, NextExecInv, PTL DEF Spec

-----------------------------------------------------------------------------
(* Every stored value has a buffer of its own.                             *)

\* The stacks of versions V and the heap H fit together.
Owned(V, H) ==
    /\ V \in [Keys -> Seq(Buffers)]
    /\ H \in [Buffers -> Values \cup {NoValue}]
    /\ \A k \in Keys : \A i \in 1..Len(V[k]) :
          /\ H[V[k][i]] # NoValue
          /\ \A l \in Keys : \A j \in 1..Len(V[l]) : V[l][j] = V[k][i] => l = k /\ j = i

\* A value is pushed in a buffer that is free.
LEMMA PushOwned ==
    ASSUME NEW V, NEW H, Owned(V, H), NEW k \in Keys, NEW b \in Buffers,
           NEW v \in Values, H[b] = NoValue
    PROVE  Owned([V EXCEPT ![k] = <<b>> \o @], [H EXCEPT ![b] = v])
<1> DEFINE W == [V EXCEPT ![k] = <<b>> \o @]
           G == [H EXCEPT ![b] = v]
<1>1. V \in [Keys -> Seq(Buffers)] /\ H \in [Buffers -> Values \cup {NoValue}]
  BY DEF Owned
<1>2. <<b>> \o V[k] \in Seq(Buffers) /\ Len(<<b>> \o V[k]) = Len(V[k]) + 1
      /\ (<<b>> \o V[k])[1] = b
      /\ \A i \in 2..(Len(V[k]) + 1) : (<<b>> \o V[k])[i] = V[k][i - 1]
  BY <1>1
<1>3. W \in [Keys -> Seq(Buffers)] /\ G \in [Buffers -> Values \cup {NoValue}]
  BY <1>1, <1>2
<1>4. /\ W[k] = <<b>> \o V[k]
      /\ \A l \in Keys \ {k} : W[l] = V[l]
      /\ G[b] # NoValue
      /\ \A c \in Buffers \ {b} : G[c] = H[c]
  BY <1>1, ValuesAssumption
<1>5. \A l \in Keys : \A i \in 1..Len(V[l]) : V[l][i] \in Buffers \ {b} /\ H[V[l][i]] # NoValue
  BY <1>1 DEF Owned
<1>6. \A l \in Keys : \A i \in 1..Len(W[l]) :
         \/ l = k /\ i = 1 /\ W[l][i] = b
         \/ l = k /\ i - 1 \in 1..Len(V[l]) /\ W[l][i] = V[l][i - 1]
         \/ l # k /\ i \in 1..Len(V[l]) /\ W[l][i] = V[l][i]
  <2> TAKE l \in Keys
  <2> TAKE i \in 1..Len(W[l])
  <2>1. Len(V[l]) \in Nat
    BY <1>1
  <2>2. QED
    BY <1>2, <1>4, <2>1
<1> HIDE DEF W, G
<1>7. \A l \in Keys : \A i \in 1..Len(W[l]) : G[W[l][i]] # NoValue
  BY <1>4, <1>5, <1>6
<1>8. ASSUME NEW l \in Keys, NEW i \in 1..Len(W[l]),
             NEW m \in Keys, NEW j \in 1..Len(W[m]), W[m][j] = W[l][i]
      PROVE  m = l /\ j = i
  <2>1. Len(W[l]) \in Nat /\ Len(W[m]) \in Nat
    BY <1>3
  <2>2. \A p, q \in Keys : \A a \in 1..Len(V[p]) : \A c \in 1..Len(V[q]) :
            V[q][c] = V[p][a] => q = p /\ c = a
    BY DEF Owned
  <2>3. CASE W[l][i] = b
    <3>1. ASSUME NEW x \in Keys, NEW y \in 1..Len(W[x]), W[x][y] = b
          PROVE  x = k /\ y = 1
      <4>1. \A z \in 1..Len(V[x]) : V[x][z] # b
        BY <1>5
      <4>2. QED
        BY <1>6, <3>1, <4>1, Zenon
    <3>2. QED
      BY <1>8, <2>3, <3>1
  <2>4. CASE W[l][i] # b
    <3> DEFINE shift(x) == IF x = k THEN 1 ELSE 0
    <3>1. i - shift(l) \in 1..Len(V[l]) /\ W[l][i] = V[l][i - shift(l)]
      BY <1>6, <2>1, <2>4
    <3>2. j - shift(m) \in 1..Len(V[m]) /\ W[m][j] = V[m][j - shift(m)]
      BY <1>6, <1>8, <2>1, <2>4
    <3>3. m = l /\ j - shift(m) = i - shift(l)
      BY <1>8, <2>2, <3>1, <3>2
    <3>4. QED
      BY <2>1, <3>3
  <2>5. QED
    BY <2>3, <2>4
<1>9. QED
  BY <1>3, <1>7, <1>8 DEF Owned, W, G

\* The first version of a key is taken away and its buffer freed.
LEMMA PopOwned ==
    ASSUME NEW V, NEW H, Owned(V, H), NEW k \in Keys, V[k] # <<>>
    PROVE  Owned([V EXCEPT ![k] = Tail(@)], [H EXCEPT ![Head(V[k])] = NoValue])
<1> DEFINE b == Head(V[k])
           W == [V EXCEPT ![k] = Tail(@)]
           G == [H EXCEPT ![b] = NoValue]
<1>1. V \in [Keys -> Seq(Buffers)] /\ H \in [Buffers -> Values \cup {NoValue}]
  BY DEF Owned
<1>2. /\ Tail(V[k]) \in Seq(Buffers) /\ Len(Tail(V[k])) = Len(V[k]) - 1
      /\ b \in Buffers /\ b = V[k][1] /\ 1 \in 1..Len(V[k])
      /\ \A i \in 1..(Len(V[k]) - 1) : Tail(V[k])[i] = V[k][i + 1]
  BY <1>1
<1>3. W \in [Keys -> Seq(Buffers)] /\ G \in [Buffers -> Values \cup {NoValue}]
  BY <1>1, <1>2
<1>4. /\ W[k] = Tail(V[k])
      /\ \A l \in Keys \ {k} : W[l] = V[l]
      /\ \A c \in Buffers \ {b} : G[c] = H[c]
  BY <1>1, <1>2
<1> DEFINE shift(x) == IF x = k THEN 1 ELSE 0
<1>5. ASSUME NEW l \in Keys, NEW i \in 1..Len(W[l])
      PROVE  i + shift(l) \in 1..Len(V[l]) /\ W[l][i] = V[l][i + shift(l)]
             /\ (l = k => i + shift(l) # 1)
  <2>1. Len(V[l]) \in Nat /\ i \in Nat /\ i >= 1
    BY <1>1, <1>3
  <2>2. CASE l = k
    <3>1. W[l] = Tail(V[k]) /\ shift(l) = 1
      BY <1>4, <2>2
    <3>2. i \in 1..(Len(V[k]) - 1)
      BY <1>2, <3>1, Zenon
    <3>3. Tail(V[k])[i] = V[k][i + 1]
      BY <1>2, <3>2
    <3>4. i + 1 \in 1..Len(V[k]) /\ i + 1 # 1
      BY <2>1, <2>2, <3>2
    <3>5. QED
      BY <2>2, <3>1, <3>3, <3>4, Zenon
  <2>3. CASE l # k
    BY <1>4, <2>1, <2>3
  <2>4. QED
    BY <2>2, <2>3
<1>6. \A p, q \in Keys : \A a \in 1..Len(V[p]) : \A c \in 1..Len(V[q]) :
          V[q][c] = V[p][a] => q = p /\ c = a
  BY DEF Owned
<1>7. \A l \in Keys : \A i \in 1..Len(V[l]) : V[l][i] \in Buffers /\ H[V[l][i]] # NoValue
  BY <1>1 DEF Owned
<1>8. ASSUME NEW l \in Keys, NEW i \in 1..Len(W[l]) PROVE G[W[l][i]] # NoValue
  <2>1. W[l][i] \in Buffers /\ H[W[l][i]] # NoValue
    BY <1>5, <1>7
  <2>2. W[l][i] # b
    BY <1>2, <1>5, <1>6
  <2>3. QED
    BY <1>4, <2>1, <2>2
<1>9. ASSUME NEW l \in Keys, NEW i \in 1..Len(W[l]),
             NEW m \in Keys, NEW j \in 1..Len(W[m]), W[m][j] = W[l][i]
      PROVE  m = l /\ j = i
  <2>1. i \in Nat /\ j \in Nat
    BY <1>3
  <2>2. i + shift(l) \in 1..Len(V[l]) /\ W[l][i] = V[l][i + shift(l)]
    BY <1>5
  <2>3. j + shift(m) \in 1..Len(V[m]) /\ W[m][j] = V[m][j + shift(m)]
    BY <1>5
  <2>4. m = l /\ j + shift(m) = i + shift(l)
    BY <1>6, <1>9, <2>2, <2>3
  <2>5. QED
    BY <2>1, <2>4
<1> HIDE DEF W, G, b
<1>10. QED
  BY <1>3, <1>8, <1>9 DEF Owned, W, G, b

\* A command of either protocol keeps stacks and heap together.
LEMMA RunOwned ==
    ASSUME Owned(versions, heap), NEW cmd \in Command, NEW protocol, NEW reply,
           Run(cmd, protocol, reply)
    PROVE  Owned(versions, heap)'
<1> DEFINE k == cmd.key
<1>1. k \in Keys
  BY DEF Command
<1>2. versions[k] # <<>> => Store!Top(k) = Head(versions[k])
  BY DEF Store!Top
<1>3. CASE cmd.op = "get" /\ handleGet(k, protocol, reply)
  BY <1>3 DEF handleGet, Store!Get, Owned
<1>4. CASE cmd.op = "set" /\ handleSet(k, cmd.value, reply)
  <2>1. cmd.value \in Values
    BY <1>4 DEF Command
  <2>2. PICK b \in Buffers :
           \/ heap[b] = NoValue /\ Store!Cover(k, b) /\ heap' = [heap EXCEPT ![b] = cmd.value]
           \/ /\ Free(k)[b] = NoValue /\ Store!Replace(k, b)
              /\ heap' = [Free(k) EXCEPT ![b] = cmd.value]
           \/ Store!Refuse(k, b) /\ UNCHANGED heap
    BY <1>4 DEF handleSet
  <2>3. CASE heap[b] = NoValue /\ Store!Cover(k, b) /\ heap' = [heap EXCEPT ![b] = cmd.value]
    <3>1. versions' = [versions EXCEPT ![k] = <<b>> \o @]
      BY <2>3 DEF Store!Cover
    <3>2. QED
      BY <1>1, <2>1, <2>3, <3>1, PushOwned, Zenon
  <2>4. CASE /\ Free(k)[b] = NoValue /\ Store!Replace(k, b)
             /\ heap' = [Free(k) EXCEPT ![b] = cmd.value]
    <3> DEFINE V == [versions EXCEPT ![k] = Tail(@)]
               H == [heap EXCEPT ![Head(versions[k])] = NoValue]
    <3>1. versions[k] # <<>> /\ versions' = [versions EXCEPT ![k] = <<b>> \o Tail(@)]
      BY <2>4 DEF Store!Replace
    <3>2. Free(k) = H
      BY <1>2, <3>1, Zenon DEF Free
    <3>3. Owned(V, H)
      BY <1>1, <3>1, PopOwned, Zenon
    <3>4. versions' = [V EXCEPT ![k] = <<b>> \o @]
      BY <1>1, <3>1, Zenon DEF Owned
    <3>5. heap' = [H EXCEPT ![b] = cmd.value] /\ H[b] = NoValue
      BY <2>4, <3>2
    <3> HIDE DEF V, H
    <3>6. Owned([V EXCEPT ![k] = <<b>> \o @], [H EXCEPT ![b] = cmd.value])
      BY <1>1, <2>1, <3>3, <3>5, PushOwned, Zenon
    <3>7. QED
      BY <3>4, <3>5, <3>6
  <2>5. CASE Store!Refuse(k, b) /\ UNCHANGED heap
    BY <2>5 DEF Store!Refuse, Owned
  <2>6. QED
    BY <2>2, <2>3, <2>4, <2>5
<1>5. CASE cmd.op = "del" /\ handleDel(k, protocol, reply)
  <2>1. versions' = [versions EXCEPT ![k] = IF @ = <<>> THEN @ ELSE Tail(@)]
    BY <1>5 DEF handleDel, Store!Del
  <2>2. CASE versions[k] = <<>>
    <3>1. heap' = heap /\ versions' = versions
      BY <1>1, <1>5, <2>1, <2>2 DEF handleDel, Owned
    <3>2. QED
      BY <3>1
  <2>3. CASE versions[k] # <<>>
    <3>1. /\ heap' = [heap EXCEPT ![Head(versions[k])] = NoValue]
          /\ versions' = [versions EXCEPT ![k] = Tail(@)]
      BY <1>2, <1>5, <2>1, <2>3 DEF handleDel, Free
    <3>2. QED
      BY <1>1, <2>3, <3>1, PopOwned, Zenon
  <2>4. QED
    BY <2>2, <2>3
<1>6. QED
  BY <1>3, <1>4, <1>5 DEF Run

\* Only commands touch the store, and each runs for a connection that exists.
LEMMA NextOwned ==
    TInv /\ ExecInv /\ Owned(versions, heap) /\ [Next]_vars => Owned(versions, heap)'
<1> SUFFICES ASSUME TInv, ExecInv, Owned(versions, heap), [Next]_vars
             PROVE  Owned(versions, heap)'
  OBVIOUS
<1>1. ASSUME NEW cmd \in Command, RespCommand(cmd) PROVE Owned(versions, heap)'
  BY <1>1, RunOwned DEF RespCommand
<1>2. ASSUME NEW req \in Command \cup {[op |-> "bad"]}, CustomRequest(req)
      PROVE  Owned(versions, heap)'
  <2>1. PICK reply \in Reply : Run(req, "custom", reply) \/ (req.op = "bad" /\ UNCHANGED store)
    BY <1>2 DEF CustomRequest
  <2>2. CASE Run(req, "custom", reply)
    <3>1. req \in Command
      BY <2>2 DEF Run
    <3>2. QED
      BY <2>2, <3>1, RunOwned
  <2>3. CASE UNCHANGED store
    BY <2>3 DEF store
  <2>4. QED
    BY <2>1, <2>2, <2>3
<1>3. CASE ExecCommand
  <2>1. /\ phase = "exec" /\ Len(results) < Len(tx[cur].queue)
        /\ \E reply \in Reply : Run(tx[cur].queue[Len(results) + 1], "resp", reply)
    BY <1>3 DEF ExecCommand
  <2>2. tx[cur].queue \in Seq(Command) /\ results \in Seq(Reply)
    BY <2>1 DEF TInv, ClosedIsEmpty, ExecInv, Tx
  <2>3. tx[cur].queue[Len(results) + 1] \in Command
    BY <2>1, <2>2
  <2>4. QED
    BY <2>1, <2>3, RunOwned
<1>4. CASE UNCHANGED store
  BY <1>4 DEF store
<1>5. QED
  BY <1>1, <1>2, <1>3, <1>4 DEF Next, vars, ReadRequests, NextReader, sendResponses,
     Multi, Discard, ExecRefused, BadRequest, RespControl, queueRespCommand,
     BeginExec, EndExec, CloseConnection

\* However values are set, deleted and replaced, by commands of either
\* protocol or by EXEC, no stored value shares its buffer or outlives it.
THEOREM ValuesOwnTheirBuffers == Spec => []BuffersOwned
<1>1. Init => Owned(versions, heap)
  BY DEF Init, Store!Init, Owned
<1>2. Init => ExecInv
  BY DEF Init, ExecInv
<1>3. Owned(versions, heap) => BuffersOwned
  <2> SUFFICES ASSUME Owned(versions, heap) PROVE BuffersOwned
    OBVIOUS
  <2>1. \A k \in Keys : DOMAIN versions[k] = 1..Len(versions[k])
    BY DEF Owned
  <2>2. QED
    BY <2>1 DEF Owned, BuffersOwned
<1>4. QED
  BY <1>1, <1>2, <1>3, InitTInv, NextTInv, NextExecInv, NextOwned, PTL DEF Spec

-----------------------------------------------------------------------------
(* Types: what TInv and Owned leave out.                                   *)

RepliesTyped ==
    /\ phase \in {"read", "process", "exec"}
    /\ responses \in [Conns -> Seq(Reply)]
    /\ results \in Seq(Reply)

\* A reply is added to those of the present connection, or all are sent.
LEMMA NextTyped == TInv /\ RepliesTyped /\ [Next]_vars => RepliesTyped'
<1> SUFFICES ASSUME TInv, RepliesTyped, [Next]_vars PROVE RepliesTyped'
  OBVIOUS
<1>0. MayProcess \/ phase = "exec" => cur \in Conns
  BY DEF MayProcess, TInv, ClosedIsEmpty
<1>1. ASSUME NEW reply \in Reply, Respond(reply), cur \in Conns
      PROVE  responses' \in [Conns -> Seq(Reply)]
  <2>1. Append(responses[cur], reply) \in Seq(Reply)
    BY <1>1 DEF RepliesTyped
  <2>2. QED
    BY <1>1, <2>1 DEF Respond, RepliesTyped
<1>2. \A t \in {"ok", "queued", "error", "one", "zero", "nil", "array"} : Just(t) \in Reply
  BY DEF Just, Reply
<1>3. ASSUME NEW op, NEW t, NEW reply \in {"ok", "error"}, RespControl(op, t, reply)
      PROVE  RepliesTyped'
  BY <1>0, <1>1, <1>2, <1>3 DEF RespControl, RepliesTyped
<1>4. CASE Multi \/ Discard \/ ExecRefused \/ BadRequest
  BY <1>3, <1>4 DEF Multi, Discard, ExecRefused, BadRequest
<1>5. ASSUME NEW cmd \in Command, queueRespCommand(cmd) PROVE RepliesTyped'
  BY <1>0, <1>1, <1>2, <1>5 DEF queueRespCommand, RepliesTyped
<1>6. ASSUME NEW cmd \in Command, RespCommand(cmd) PROVE RepliesTyped'
  BY <1>0, <1>1, <1>6 DEF RespCommand, RepliesTyped
<1>7. ASSUME NEW req, CustomRequest(req) PROVE RepliesTyped'
  BY <1>0, <1>1, <1>7 DEF CustomRequest, RepliesTyped
<1>8. CASE BeginExec
  BY <1>8 DEF BeginExec, RepliesTyped
<1>9. CASE ExecCommand
  <2>1. PICK reply \in Reply : results' = Append(results, reply)
    BY <1>9 DEF ExecCommand
  <2>2. QED
    BY <1>9, <2>1 DEF ExecCommand, RepliesTyped
<1>10. CASE EndExec
  BY <1>0, <1>1, <1>2, <1>10 DEF EndExec, RepliesTyped
<1>11. CASE ReadRequests \/ NextReader \/ sendResponses
  <2>1. CASE ReadRequests
    BY <2>1 DEF ReadRequests, RepliesTyped
  <2>2. CASE NextReader
    BY <2>2 DEF NextReader, RepliesTyped
  <2>3. CASE sendResponses
    BY <2>3 DEF sendResponses, RepliesTyped
  <2>4. QED
    BY <1>11, <2>1, <2>2, <2>3
<1>12. ASSUME NEW c \in Conns, CloseConnection(c) PROVE RepliesTyped'
  BY <1>12 DEF CloseConnection, RepliesTyped
<1>13. CASE UNCHANGED vars
  BY <1>13 DEF vars, RepliesTyped
<1>14. QED
  BY <1>4, <1>5, <1>6, <1>7, <1>8, <1>9, <1>10, <1>11, <1>12, <1>13 DEF Next

\* The handler's state keeps its types: in particular replies are only ever
\* gathered for the connections whose requests are being processed.
THEOREM HandlerTyped == Spec => []TypeOK
<1>1. Init => Owned(versions, heap)
  BY DEF Init, Store!Init, Owned
<1>2. Init => ExecInv /\ RepliesTyped
  BY DEF Init, ExecInv, RepliesTyped
<1>3. TInv /\ Owned(versions, heap) /\ RepliesTyped => TypeOK
  BY DEF TInv, ClosedIsEmpty, TransactionsAgree, Owned, RepliesTyped, TypeOK
<1>4. QED
  BY <1>1, <1>2, <1>3, InitTInv, NextTInv, NextExecInv, NextOwned, NextTyped, PTL DEF Spec

-----------------------------------------------------------------------------
(***************************************************************************)
(* The responses of the request thread never share inline storage and      *)
(* never lose it.  The argument: the number of free slots and of packets   *)
(* that hold one add up to all the slots, so "all slots are free", the     *)
(* arena's test before it replaces its storage, means that no packet       *)
(* points into it.                                                         *)
(***************************************************************************)

(* Capacities are positive once sanitizeCapacity() has seen them.          *)
LEMMA Sanitized == \A c \in Capacities : sanitizeCapacity(c) \in Nat \ {0}
  BY ArenaAssumption DEF sanitizeCapacity

(* The packets that hold a slot are finitely many.                         *)
LEMMA HoldersFinite ==
    ASSUME NEW idx PROVE IsFiniteSet(Holders(idx)) /\ Cardinality(Holders(idx)) \in Nat
  <1>1. IsFiniteSet(Holders(idx))
    BY FS_Subset, ArenaAssumption DEF Holders
  <1> QED BY <1>1, FS_CardinalityType

(* A fresh arena, with no slot in a packet, satisfies the invariant.       *)
LEMMA ResetInv ==
    ASSUME NEW c \in Nat \ {0},
           NEW idx \in [Packets -> Slots \union {RESP_INLINE_INVALID}],
           Holders(idx) = {}
    PROVE  ArenaInv(resetStorage(c), idx)
  <1>1. Cardinality(Holders(idx)) = 0
    BY FS_EmptySet
  <1>2. \A p \in Packets : idx[p] = RESP_INLINE_INVALID
    BY DEF Holders
  <1> QED
    BY <1>1, <1>2, ArenaAssumption DEF ArenaInv, resetStorage, Slots, RESP_INLINE_INVALID

(* ensureCapacity() replaces the storage only when nothing is held.        *)
LEMMA EnsureInv ==
    ASSUME NEW a, NEW idx, ArenaInv(a, idx), respInlineCapacity \in Nat \ {0}
    PROVE  /\ ArenaInv(ensureCapacity(a), idx)
           /\ Holders(idx) # {} => ensureCapacity(a) = a
  <1>1. CASE respInlineCapacity # a.slotSize /\ a.freeCount = RESP_INLINE_SLOTS
    <2>1. Cardinality(Holders(idx)) = 0
      BY <1>1, HoldersFinite, ArenaAssumption DEF ArenaInv
    <2>2. Holders(idx) = {}
      BY <2>1, HoldersFinite, FS_EmptySet
    <2>3. idx \in [Packets -> Slots \union {RESP_INLINE_INVALID}]
      BY DEF ArenaInv
    <2> QED BY <1>1, <2>2, <2>3, ResetInv DEF ensureCapacity
  <1>2. CASE ~(respInlineCapacity # a.slotSize /\ a.freeCount = RESP_INLINE_SLOTS)
    BY <1>2 DEF ensureCapacity
  <1> QED BY <1>1, <1>2

(* The packets that hold a slot after p has given up its own.              *)
LEMMA HoldersWithout ==
    ASSUME NEW idx \in [Packets -> Slots \union {RESP_INLINE_INVALID}],
           NEW p \in Packets
    PROVE  Holders([idx EXCEPT ![p] = RESP_INLINE_INVALID]) = Holders(idx) \ {p}
  BY DEF Holders

(* release() of the slot of p: p holds none, and the slot is free again.   *)
LEMMA ReleaseInv ==
    ASSUME NEW a, NEW idx, ArenaInv(a, idx), respInlineCapacity \in Nat \ {0},
           NEW p \in Packets
    PROVE  LET out == [idx EXCEPT ![p] = RESP_INLINE_INVALID]
           IN  /\ ArenaInv(release(a, idx[p]), out)
               /\ Holders(out) # {} => release(a, idx[p]).slotSize = a.slotSize
  <1> DEFINE out == [idx EXCEPT ![p] = RESP_INLINE_INVALID]
  <1> DEFINE b == [slotSize  |-> a.slotSize,
                   freelist  |-> [a.freelist EXCEPT ![a.freeCount] = idx[p]],
                   freeCount |-> a.freeCount + 1]
  <1>0. idx \in [Packets -> Slots \union {RESP_INLINE_INVALID}]
    BY DEF ArenaInv
  <1>1. CASE idx[p] = RESP_INLINE_INVALID
    <2>1. out = idx
      BY <1>0, <1>1
    <2>2. release(a, idx[p]) = a
      BY <1>1, ArenaAssumption DEF release, Slots, RESP_INLINE_INVALID
    <2> QED BY <2>1, <2>2
  <1>2. CASE idx[p] # RESP_INLINE_INVALID
    <2>1. idx[p] \in Slots /\ p \in Holders(idx)
      BY <1>0, <1>2 DEF Holders
    <2>2. Cardinality(Holders(out)) = Cardinality(Holders(idx)) - 1
      BY <1>0, <2>1, HoldersWithout, HoldersFinite, FS_RemoveElement, Zenon
    <2>3. a.freeCount < RESP_INLINE_SLOTS
      BY <2>2, HoldersFinite, ArenaAssumption DEF ArenaInv
    <2>4. ArenaInv(b, out)
      <3>1. b \in [slotSize : Nat \ {0}, freelist : [Slots -> Slots],
                   freeCount : 0..RESP_INLINE_SLOTS]
        <4>1. [a.freelist EXCEPT ![a.freeCount] = idx[p]] \in [Slots -> Slots]
          BY <2>1, Zenon DEF ArenaInv
        <4>2. a.freeCount + 1 \in 0..RESP_INLINE_SLOTS
          BY <2>3, ArenaAssumption DEF ArenaInv
        <4>3. a.slotSize \in Nat \ {0}
          BY DEF ArenaInv
        <4> QED BY <4>1, <4>2, <4>3
      <3>2. out \in [Packets -> Slots \union {RESP_INLINE_INVALID}]
        BY <1>0
      <3>3. \A i \in 0..(a.freeCount - 1) : b.freelist[i] = a.freelist[i]
        BY <2>3, ArenaAssumption DEF ArenaInv, Slots
      <3>4. b.freelist[a.freeCount] = idx[p] /\ b.freeCount - 1 = a.freeCount
        BY <2>3, ArenaAssumption DEF ArenaInv, Slots
      <3>5. \A i \in 0..(b.freeCount - 1) : i \in 0..(a.freeCount - 1) \/ i = a.freeCount
        BY <3>4, <2>3, ArenaAssumption DEF ArenaInv
      <3>6. \A i, j \in 0..(b.freeCount - 1) : i # j => b.freelist[i] # b.freelist[j]
        <4> HIDE DEF b
        <4> QED BY <3>3, <3>4, <3>5 DEF ArenaInv
      <3>7. \A q \in Packets : out[q] = IF q = p THEN RESP_INLINE_INVALID ELSE idx[q]
        BY <1>0
      <3>8. \A q \in Packets, i \in 0..(b.freeCount - 1) : out[q] # b.freelist[i]
        <4>1. \A i \in 0..(b.freeCount - 1) : b.freelist[i] # RESP_INLINE_INVALID
          <5>1. \A i \in 0..(b.freeCount - 1) : i \in Slots
            BY <3>1, <3>4, <2>3, ArenaAssumption DEF ArenaInv, Slots
          <5>2. RESP_INLINE_INVALID \notin Slots
            BY ArenaAssumption DEF Slots, RESP_INLINE_INVALID
          <5> HIDE DEF b
          <5> QED BY <5>1, <5>2, <3>1
        <4> HIDE DEF b, out
        <4> QED BY <4>1, <3>3, <3>4, <3>5, <3>7, <1>2 DEF ArenaInv
      <3>9. \A q, r \in Packets : q # r /\ out[q] # RESP_INLINE_INVALID => out[q] # out[r]
        <4> HIDE DEF out
        <4> QED BY <3>7 DEF ArenaInv
      <3>10. b.freeCount + Cardinality(Holders(out)) = RESP_INLINE_SLOTS
        BY <2>2, HoldersFinite, ArenaAssumption DEF ArenaInv
      <3> HIDE DEF b, out
      <3> QED BY <3>1, <3>2, <3>6, <3>8, <3>9, <3>10 DEF ArenaInv
    <2>5. release(a, idx[p]) = ensureCapacity(b)
      BY <2>1, <2>3 DEF release
    <2>6. b.slotSize = a.slotSize
      OBVIOUS
    <2> HIDE DEF b, out
    <2> QED BY <2>4, <2>5, <2>6, EnsureInv, Zenon DEF out
  <1> QED BY <1>0, <1>1, <1>2, Zenon DEF ArenaInv

(* acquire() for a packet without a slot: the top of the free list is its. *)
LEMMA AcquireInv ==
    ASSUME NEW a, NEW idx, ArenaInv(a, idx), NEW p \in Packets,
           idx[p] = RESP_INLINE_INVALID, a.freeCount > 0
    PROVE  /\ ArenaInv(acquire(a), [idx EXCEPT ![p] = TopSlot(a)])
           /\ TopSlot(a) \in Slots
           /\ acquire(a).slotSize = a.slotSize
  <1> DEFINE in == [idx EXCEPT ![p] = TopSlot(a)]
  <1> DEFINE b == acquire(a)
  <1>0. /\ idx \in [Packets -> Slots \union {RESP_INLINE_INVALID}]
        /\ a.freelist \in [Slots -> Slots] /\ a.freeCount \in 0..RESP_INLINE_SLOTS
        /\ a.slotSize \in Nat \ {0}
    BY DEF ArenaInv
  <1>1. a.freeCount - 1 \in Slots /\ a.freeCount - 1 \in 0..RESP_INLINE_SLOTS
    <2> DEFINE n == a.freeCount
    <2>1. n \in 0..RESP_INLINE_SLOTS /\ n > 0 /\ RESP_INLINE_SLOTS \in Nat
      BY <1>0, ArenaAssumption
    <2> HIDE DEF n
    <2>2. n - 1 \in Slots /\ n - 1 \in 0..RESP_INLINE_SLOTS
      BY <2>1 DEF Slots
    <2> QED BY <2>2 DEF n
  <1>2. TopSlot(a) \in Slots /\ RESP_INLINE_INVALID \notin Slots
    <2>1. TopSlot(a) \in Slots
      BY <1>0, <1>1 DEF TopSlot
    <2>2. RESP_INLINE_INVALID \notin Slots
      BY ArenaAssumption DEF Slots, RESP_INLINE_INVALID
    <2> QED BY <2>1, <2>2
  <1>3. /\ b.slotSize = a.slotSize /\ b.freelist = a.freelist
        /\ b.freeCount = a.freeCount - 1
    BY DEF acquire
  <1>4. b \in [slotSize : Nat \ {0}, freelist : [Slots -> Slots],
               freeCount : 0..RESP_INLINE_SLOTS]
    BY <1>0, <1>1 DEF acquire
  <1>5. in \in [Packets -> Slots \union {RESP_INLINE_INVALID}]
    BY <1>0, <1>2
  <1>6. \A q \in Packets : in[q] = IF q = p THEN TopSlot(a) ELSE idx[q]
    BY <1>0
  <1>7. \A i \in 0..(b.freeCount - 1) : /\ i \in 0..(a.freeCount - 1)
                                        /\ i # a.freeCount - 1
    BY <1>0, <1>3, ArenaAssumption
  <1>8. a.freeCount - 1 \in 0..(a.freeCount - 1)
    BY <1>0, ArenaAssumption
  <1>9. Holders(in) = Holders(idx) \union {p} /\ p \notin Holders(idx)
    BY <1>0, <1>2 DEF Holders
  <1>10. Cardinality(Holders(in)) = Cardinality(Holders(idx)) + 1
    BY <1>9, HoldersFinite, FS_AddElement, Zenon
  <1> HIDE DEF b, in
  <1>11. \A i, j \in 0..(b.freeCount - 1) : i # j => b.freelist[i] # b.freelist[j]
    BY <1>3, <1>7 DEF ArenaInv
  <1>12. \A q \in Packets, i \in 0..(b.freeCount - 1) : in[q] # b.freelist[i]
    BY <1>3, <1>6, <1>7, <1>8 DEF ArenaInv, TopSlot
  <1>13. \A q \in Packets : idx[q] # TopSlot(a)
    BY <1>8 DEF ArenaInv, TopSlot
  <1>14. \A q, r \in Packets : q # r /\ in[q] # RESP_INLINE_INVALID => in[q] # in[r]
    BY <1>6, <1>13 DEF ArenaInv
  <1>15. b.freeCount + Cardinality(Holders(in)) = RESP_INLINE_SLOTS
    BY <1>0, <1>3, <1>10, HoldersFinite, ArenaAssumption DEF ArenaInv
  <1> QED
    BY <1>2, <1>3, <1>4, <1>5, <1>11, <1>12, <1>14, <1>15 DEF ArenaInv, b, in

(* A slot passes from one packet to another that has none.                 *)
LEMMA PassInv ==
    ASSUME NEW a, NEW idx, ArenaInv(a, idx), NEW p \in Packets, NEW q \in Packets,
           p # q, idx[p] = RESP_INLINE_INVALID
    PROVE  ArenaInv(a, [idx EXCEPT ![p] = idx[q], ![q] = RESP_INLINE_INVALID])
  <1> DEFINE out == [idx EXCEPT ![p] = idx[q], ![q] = RESP_INLINE_INVALID]
  <1>0. idx \in [Packets -> Slots \union {RESP_INLINE_INVALID}]
    BY DEF ArenaInv
  <1>1. \A r \in Packets : out[r] = IF r = p THEN idx[q]
                                    ELSE IF r = q THEN RESP_INLINE_INVALID ELSE idx[r]
    BY <1>0
  <1>2. out \in [Packets -> Slots \union {RESP_INLINE_INVALID}]
    BY <1>0
  <1>3. Cardinality(Holders(out)) = Cardinality(Holders(idx))
    <2>1. CASE idx[q] = RESP_INLINE_INVALID
      <3>1. Holders(out) = Holders(idx)
        BY <1>1, <2>1, Zenon DEF Holders
      <3> QED BY <3>1
    <2>2. CASE idx[q] # RESP_INLINE_INVALID
      <3> DEFINE rest == Holders(idx) \ {q}
      <3>1. q \in Holders(idx) /\ p \notin rest
        BY <2>2 DEF Holders
      <3>2. Holders(out) = rest \union {p}
        BY <1>1, <2>2, Zenon DEF Holders
      <3>3. Cardinality(rest) = Cardinality(Holders(idx)) - 1 /\ IsFiniteSet(rest)
        BY <3>1, HoldersFinite, FS_RemoveElement
      <3>4. Cardinality(rest \union {p}) = Cardinality(rest) + 1
        BY <3>1, <3>3, FS_AddElement
      <3>5. Cardinality(Holders(idx)) \in Nat
        BY HoldersFinite
      <3> HIDE DEF rest, out
      <3> QED BY <3>2, <3>3, <3>4, <3>5
    <2> QED BY <2>1, <2>2
  <1>4. \A r \in Packets, i \in 0..(a.freeCount - 1) : out[r] # a.freelist[i]
    BY <1>0, <1>1 DEF ArenaInv
  <1>5. \A r, s \in Packets : r # s /\ out[r] # RESP_INLINE_INVALID => out[r] # out[s]
    BY <1>0, <1>1 DEF ArenaInv
  <1> HIDE DEF out
  <1>6. ArenaInv(a, out)
    BY <1>2, <1>3, <1>4, <1>5 DEF ArenaInv
  <1> QED BY <1>6 DEF out


-----------------------------------------------------------------------------
(* The parts of the invariant after a step.                                *)
LEMMA Assemble ==
    ASSUME respInlineCapacity' \in Nat \ {0},
           ArenaInv(arena', inlineIndex'),
           base' \in [Packets -> Nat], size' \in [Packets -> Nat],
           \A p \in Packets : inlineIndex'[p] # RESP_INLINE_INVALID =>
               base'[p] = arena'.slotSize /\ size'[p] <= arena'.slotSize
    PROVE  ArenaIInv'
  BY DEF ArenaIInv, ArenaTypeOK, ArenaInv, PointersValid, Holders

(* Every operation on the packets and every change of the capacity keeps   *)
(* the inductive invariant.                                                *)
LEMMA NextIInv == ArenaIInv /\ [ArenaNext]_arenaVars => ArenaIInv'
  <1> SUFFICES ASSUME ArenaIInv, [ArenaNext]_arenaVars PROVE ArenaIInv'
    OBVIOUS
  <1>0. /\ ArenaInv(arena, inlineIndex)
        /\ inlineIndex \in [Packets -> Slots \union {RESP_INLINE_INVALID}]
        /\ respInlineCapacity \in Nat \ {0}
        /\ base \in [Packets -> Nat] /\ size \in [Packets -> Nat]
        /\ Lengths \subseteq Nat
    BY ArenaAssumption DEF ArenaIInv, ArenaTypeOK
  <1>p. \A p \in Packets : inlineIndex[p] # RESP_INLINE_INVALID =>
               base[p] = arena.slotSize /\ size[p] <= arena.slotSize
    BY DEF ArenaIInv, PointersValid
  <1>t. \A a, idx : ArenaInv(a, idx) => a.slotSize \in Nat
    BY DEF ArenaInv
  <1>1. ASSUME NEW c \in Capacities, setRespInlineCapacity(c) PROVE ArenaIInv'
    <2>1. respInlineCapacity' \in Nat \ {0} /\ UNCHANGED <<arena, inlineIndex, base, size>>
      BY <1>1, Sanitized DEF setRespInlineCapacity
    <2> QED BY <1>0, <1>p, <2>1, Assemble
  \* The arena and the other packets after p has released its slot.
  <1>2. ASSUME NEW p \in Packets
        PROVE  LET out == [inlineIndex EXCEPT ![p] = RESP_INLINE_INVALID]
                   a == release(arena, inlineIndex[p])
               IN  /\ ArenaInv(a, out)
                   /\ \A q \in Packets \ {p} : inlineIndex[q] # RESP_INLINE_INVALID =>
                         Holders(out) # {} /\ a.slotSize = arena.slotSize
    <2> DEFINE out == [inlineIndex EXCEPT ![p] = RESP_INLINE_INVALID]
    <2>1. /\ ArenaInv(release(arena, inlineIndex[p]), out)
          /\ Holders(out) # {} => release(arena, inlineIndex[p]).slotSize = arena.slotSize
      BY <1>0, ReleaseInv, Zenon
    <2>2. Holders(out) = Holders(inlineIndex) \ {p}
      BY <1>0, HoldersWithout, Zenon
    <2>3. \A q \in Packets \ {p} : inlineIndex[q] # RESP_INLINE_INVALID => Holders(out) # {}
      BY <2>2 DEF Holders
    <2> QED BY <2>1, <2>3, Zenon
  <1>3. ASSUME NEW p \in Packets, ReleaseSlot(p) PROVE ArenaIInv'
    <2>1. /\ arena' = release(arena, inlineIndex[p])
          /\ inlineIndex' = [inlineIndex EXCEPT ![p] = RESP_INLINE_INVALID]
          /\ size' = [size EXCEPT ![p] = 0] /\ base' = base
          /\ respInlineCapacity' = respInlineCapacity
      BY <1>3 DEF ReleaseSlot
    <2>2. /\ ArenaInv(arena', inlineIndex')
          /\ \A q \in Packets \ {p} : inlineIndex[q] # RESP_INLINE_INVALID =>
                arena'.slotSize = arena.slotSize
      BY <1>2, <2>1, Zenon
    <2>3. size' \in [Packets -> Nat]
      BY <1>0, <2>1
    <2>4. \A q \in Packets : inlineIndex'[q] # RESP_INLINE_INVALID =>
               base'[q] = arena'.slotSize /\ size'[q] <= arena'.slotSize
      BY <1>0, <1>p, <2>1, <2>2
    <2> QED BY <1>0, <2>1, <2>2, <2>3, <2>4, Assemble
  <1>4. ASSUME NEW p \in Packets, NEW n \in Lengths, UseInline(p, n) \/ UseOwned(p, n)
        PROVE  ArenaIInv'
    <2> DEFINE out == [inlineIndex EXCEPT ![p] = RESP_INLINE_INVALID]
    <2> DEFINE a == ensureCapacity(release(arena, inlineIndex[p]))
    <2>1. /\ ArenaInv(a, out)
          /\ \A q \in Packets \ {p} : inlineIndex[q] # RESP_INLINE_INVALID =>
                a.slotSize = arena.slotSize
      BY <1>0, <1>2, EnsureInv, Zenon
    <2>2. n \in Nat /\ a.slotSize \in Nat
      BY <1>0, <1>t, <2>1
    <2>3. out[p] = RESP_INLINE_INVALID
      BY <1>0
    <2>4. CASE UseInline(p, n)
      <3>1. /\ n <= a.slotSize /\ a.freeCount > 0
            /\ arena' = acquire(a)
            /\ inlineIndex' = [inlineIndex EXCEPT ![p] = TopSlot(a)]
            /\ base' = [base EXCEPT ![p] = a.slotSize]
            /\ size' = [size EXCEPT ![p] = n]
            /\ respInlineCapacity' = respInlineCapacity
        BY <2>4 DEF UseInline, CanAcquire
      <3>2. [out EXCEPT ![p] = TopSlot(a)] = inlineIndex'
        <4> HIDE DEF a
        <4> QED BY <1>0, <3>1, Zenon
      <3> HIDE DEF a, out
      <3>3. ArenaInv(arena', inlineIndex') /\ arena'.slotSize = a.slotSize
        BY <2>1, <2>3, <3>1, <3>2, AcquireInv
      <3>4. base' \in [Packets -> Nat] /\ size' \in [Packets -> Nat]
        BY <1>0, <2>2, <3>1
      <3>5. \A q \in Packets : inlineIndex'[q] # RESP_INLINE_INVALID =>
                 base'[q] = arena'.slotSize /\ size'[q] <= arena'.slotSize
        BY <1>0, <1>p, <2>1, <2>2, <3>1, <3>3
      <3> QED BY <1>0, <3>1, <3>3, <3>4, <3>5, Assemble
    <2>5. CASE UseOwned(p, n)
      <3>1. /\ arena' = a /\ inlineIndex' = out
            /\ size' = [size EXCEPT ![p] = n]
            /\ base' = base /\ respInlineCapacity' = respInlineCapacity
        BY <2>5 DEF UseOwned
      <3>2. \A q \in Packets : inlineIndex'[q] # RESP_INLINE_INVALID =>
                 q # p /\ inlineIndex[q] # RESP_INLINE_INVALID
        BY <1>0, <3>1
      <3> HIDE DEF a, out
      <3>3. size' \in [Packets -> Nat]
        BY <1>0, <2>2, <3>1
      <3>4. \A q \in Packets : inlineIndex'[q] # RESP_INLINE_INVALID =>
                 base'[q] = arena'.slotSize /\ size'[q] <= arena'.slotSize
        BY <1>0, <1>p, <2>1, <3>1, <3>2
      <3> QED BY <1>0, <2>1, <3>1, <3>3, <3>4, Assemble
    <2> QED BY <1>4, <2>4, <2>5
  <1>5. ASSUME NEW p \in Packets, NEW q \in Packets, Move(p, q) PROVE ArenaIInv'
    <2> DEFINE out == [inlineIndex EXCEPT ![p] = RESP_INLINE_INVALID]
    <2> DEFINE a == release(arena, inlineIndex[p])
    <2>1. /\ p # q
          /\ arena' = IF inlineIndex[q] # RESP_INLINE_INVALID THEN ensureCapacity(a) ELSE a
          /\ inlineIndex' = [inlineIndex EXCEPT ![p] = inlineIndex[q],
                                                ![q] = RESP_INLINE_INVALID]
          /\ base' = [base EXCEPT ![p] = arena'.slotSize]
          /\ size' = [size EXCEPT ![p] = size[q], ![q] = 0]
          /\ respInlineCapacity' = respInlineCapacity
      BY <1>5 DEF Move
    <2>2. /\ ArenaInv(a, out)
          /\ \A r \in Packets \ {p} : inlineIndex[r] # RESP_INLINE_INVALID =>
                Holders(out) # {} /\ a.slotSize = arena.slotSize
      BY <1>2, Zenon
    <2>3. out[p] = RESP_INLINE_INVALID /\ out[q] = inlineIndex[q]
      BY <1>0, <2>1
    <2>4. inlineIndex' = [out EXCEPT ![p] = out[q], ![q] = RESP_INLINE_INVALID]
      BY <1>0, <2>1, Zenon
    <2> HIDE DEF a, out
    <2>5. arena' = a
      BY <1>0, <2>1, <2>2, EnsureInv
    <2>6. ArenaInv(arena', inlineIndex')
      <3>1. p # q /\ ArenaInv(a, out) /\ out[p] = RESP_INLINE_INVALID
        BY <2>1, <2>2, <2>3
      <3>2. ArenaInv(a, [out EXCEPT ![p] = out[q], ![q] = RESP_INLINE_INVALID])
        BY <3>1, PassInv
      <3> QED BY <2>4, <2>5, <3>2
    <2>7. arena'.slotSize \in Nat
      BY <1>t, <2>6
    <2>8. base' \in [Packets -> Nat] /\ size' \in [Packets -> Nat]
      BY <1>0, <2>1, <2>7
    <2>9. \A r \in Packets : inlineIndex'[r] # RESP_INLINE_INVALID =>
               base'[r] = arena'.slotSize /\ size'[r] <= arena'.slotSize
      BY <1>0, <1>p, <2>1, <2>2, <2>5
    <2> QED BY <1>0, <2>1, <2>6, <2>8, <2>9, Assemble
  <1>6. CASE UNCHANGED arenaVars
    BY <1>0, <1>p, <1>6, Assemble DEF arenaVars
  <1> QED BY <1>1, <1>3, <1>4, <1>5, <1>6 DEF ArenaNext

(* A new arena with packets that hold nothing.                             *)
LEMMA InitIInv == ArenaInit => ArenaIInv
  <1> SUFFICES ASSUME ArenaInit PROVE ArenaIInv
    OBVIOUS
  <1>1. respInlineCapacity \in Nat \ {0}
    BY Sanitized DEF ArenaInit
  <1>2. inlineIndex \in [Packets -> Slots \union {RESP_INLINE_INVALID}]
        /\ Holders(inlineIndex) = {}
    BY DEF ArenaInit, Holders
  <1>3. ArenaInv(arena, inlineIndex)
    BY <1>1, <1>2, ResetInv DEF ArenaInit
  <1>4. PointersValid
    BY DEF ArenaInit, PointersValid
  <1>5. ArenaTypeOK
    <2>1. base \in [Packets -> Nat] /\ size \in [Packets -> Nat]
      BY DEF ArenaInit
    <2>2. arena \in [slotSize : Nat \ {0}, freelist : [Slots -> Slots],
                    freeCount : 0..RESP_INLINE_SLOTS]
      BY <1>3 DEF ArenaInv
    <2> QED BY <1>1, <1>2, <2>1, <2>2 DEF ArenaTypeOK
  <1> QED BY <1>3, <1>4, <1>5 DEF ArenaIInv

(* The inductive invariant holds of every state of the arena.              *)
THEOREM ArenaInvariance == ArenaSpec => []ArenaIInv
  BY InitIInv, NextIInv, PTL DEF ArenaSpec

(* Two packets never share a slot, whatever the number of slots, of        *)
(* packets and of capacity changes.                                        *)
THEOREM SlotsAreExclusive == ArenaSpec => []SlotsExclusive
  <1>1. ArenaIInv => SlotsExclusive
    BY DEF ArenaIInv, ArenaInv, SlotsExclusive
  <1> QED BY <1>1, ArenaInvariance, PTL

(* resetStorage() never runs while a packet points into the storage, and a *)
(* response fits the slot it is in.                                        *)
THEOREM PointersStayValid == ArenaSpec => []PointersValid
  <1>1. ArenaIInv => PointersValid
    BY DEF ArenaIInv
  <1> QED BY <1>1, ArenaInvariance, PTL

(* No slot is ever lost: the free ones and the held ones are all of them.  *)
THEOREM SlotsAreConserved == ArenaSpec => []SlotsConserved
  <1>1. ArenaIInv => SlotsConserved
    BY DEF ArenaIInv, ArenaInv, SlotsConserved
  <1> QED BY <1>1, ArenaInvariance, PTL

=============================================================================
