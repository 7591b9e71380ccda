------------------------ MODULE KeyValueStoreProofs ------------------------
(***************************************************************************)
(* Proofs about KeyValueStore, for every table size, bucket size, number   *)
(* of attempts, hash function and set of keys and values: the inductive    *)
(* invariant IInv of the pool and the tables, Placement, which says where  *)
(* the live entries are, and the spread of the probes.                     *)
(***************************************************************************)
EXTENDS KeyValueStore, WellFoundedInduction, TLAPS

-----------------------------------------------------------------------------
(* What the helpers return.                                                *)

\* Every probe of a key falls into the table.
LEMMA ProbeInTable ==
    ASSUME NEW k \in Keys, NEW p \in Probes, NEW size \in Nat \ {0}
    PROVE  /\ calcIndex(Hash[k], p[1], size) \in 0..(size - 1)
           /\ p[2] \in Slots
<1>1. p[1] \in Nat /\ p[2] \in Slots
  BY SizesAssumption DEF Probes, Slots
<1>2. Hash[k] \in Nat
  BY HashAssumption
<1> DEFINE a == p[1] * p[1]
<1>3. a \in Nat
  BY <1>1
<1> HIDE DEF a
<1>4. (Hash[k] + a) % size \in 0..(size - 1)
  BY <1>2, <1>3
<1>5. QED
  BY <1>1, <1>4 DEF calcIndex, a

\* A slot read by a probe holds an index of the pool, or 0.
LEMMA IndexAtType ==
    ASSUME NEW k \in Keys, NEW p \in Probes, NEW size \in Nat \ {0},
           NEW cap \in Nat, NEW tbl \in Table(size, cap)
    PROVE  IndexAt(tbl, size, k, p) \in 0..(cap - 1)
BY ProbeInTable DEF IndexAt, Table

\* Writing an index of the pool through a probe keeps the table well formed.
LEMMA PutType ==
    ASSUME NEW k \in Keys, NEW p \in Probes, NEW size \in Nat \ {0},
           NEW cap \in Nat, NEW tbl \in Table(size, cap), NEW e \in 0..(cap - 1)
    PROVE  Put(tbl, size, k, p, e) \in Table(size, cap)
BY ProbeInTable DEF Put, Table

\* initializeTable() makes a well-formed table.
LEMMA EmptyTableType ==
    ASSUME NEW size \in Nat, NEW cap \in Nat \ {0}
    PROVE  EmptyTable(size) \in Table(size, cap)
BY DEF EmptyTable, Table

\* A table keeps its type when the pool grows.
LEMMA TableGrows ==
    ASSUME NEW size \in Nat, NEW cap \in Nat, NEW larger \in Nat, cap <= larger,
           NEW tbl \in Table(size, cap)
    PROVE  tbl \in Table(size, larger)
BY DEF Table

\* expandPool() links exactly the new entries, each once.
LEMMA ChainProperties ==
    ASSUME NEW lo \in Nat, NEW hi \in Nat, lo <= hi
    PROVE  /\ Chain(lo, hi) \in Seq(lo..hi)
           /\ Len(Chain(lo, hi)) = hi - lo + 1
           /\ \A i, j \in 1..(hi - lo + 1) :
                 Chain(lo, hi)[i] = Chain(lo, hi)[j] => i = j
<1> DEFINE n == hi - lo + 1
<1>1. n \in Nat
  OBVIOUS
<1>2. \A i \in 1..n : hi + 1 - i \in lo..hi
  OBVIOUS
<1>3. Chain(lo, hi) \in [1..n -> lo..hi]
  BY <1>2 DEF Chain
<1>4. Chain(lo, hi) \in Seq(lo..hi) /\ Len(Chain(lo, hi)) = n
  BY <1>1, <1>3
<1>5. QED
  BY <1>4 DEF Chain

\* A list over some indices is a list over any larger set of indices.
LEMMA SeqMonotone ==
    ASSUME NEW S, NEW T, S \subseteq T, NEW s \in Seq(S)
    PROVE  s \in Seq(T) /\ \A i \in DOMAIN s : s[i] \in S
<1>1. Len(s) \in Nat /\ s \in [1..Len(s) -> S]
  OBVIOUS
<1>2. s \in [1..Len(s) -> T]
  BY <1>1
<1>3. QED
  BY <1>1, <1>2

\* Taking the head off a free list: one entry less, the others unchanged.
LEMMA PopProperties ==
    ASSUME NEW S, NEW s \in Seq(S), s # <<>>
    PROVE  /\ Len(s) \in Nat \ {0}
           /\ s[Len(s)] \in S
           /\ SubSeq(s, 1, Len(s) - 1) \in Seq(S)
           /\ Len(SubSeq(s, 1, Len(s) - 1)) = Len(s) - 1
           /\ \A i \in 1..(Len(s) - 1) : SubSeq(s, 1, Len(s) - 1)[i] = s[i]
<1>1. Len(s) \in Nat \ {0} /\ DOMAIN s = 1..Len(s)
  OBVIOUS
<1>2. \A i \in 1..Len(s) : s[i] \in S
  OBVIOUS
<1>3. SubSeq(s, 1, Len(s) - 1) = [i \in 1..(Len(s) - 1) |-> s[i]]
  BY <1>1
<1>4. [i \in 1..(Len(s) - 1) |-> s[i]] \in [1..(Len(s) - 1) -> S]
  BY <1>1, <1>2
<1>5. SubSeq(s, 1, Len(s) - 1) \in Seq(S)
  BY <1>1, <1>3, <1>4
<1>6. QED
  BY <1>1, <1>2, <1>3, <1>5

-----------------------------------------------------------------------------
(* The inductive invariant.                                                *)

\* The next table size is larger than the present one.
LEMMA NextSizeGrows ==
    ASSUME IInv, pc = "idle", UsePrimeNumbers => popped < Len(Primes)
    PROVE  LET size == IF UsePrimeNumbers THEN Primes[popped + 1]
                       ELSE tableSize * 2
           IN  /\ size \in Nat
               /\ capacity < size
               /\ UsePrimeNumbers => size = SizeAfter(popped + 1)
<1>1. capacity \in Nat \ {0} /\ capacity = tableSize /\ popped \in 0..Len(Primes)
  BY DEF IInv, TypeOK, SizesAgree
<1>2. CASE UsePrimeNumbers
  <2>1. popped + 1 \in 1..Len(Primes)
    BY <1>1, <1>2
  <2>2. Primes[popped + 1] \in Nat
    BY <2>1, PrimesAssumption
  <2>3. Primes[popped + 1] > SizeAfter(popped)
    BY <1>1, <2>1, PrimesAssumption DEF SizeAfter
  <2>4. capacity = SizeAfter(popped)
    BY <1>2 DEF IInv, SizesAgree
  <2>5. QED
    BY <1>1, <1>2, <2>2, <2>3, <2>4 DEF SizeAfter
<1>3. CASE ~UsePrimeNumbers
  BY <1>1, <1>3
<1>4. QED
  BY <1>2, <1>3

\* The constructors of MemoryPool and KeyValueStore establish the invariant.
LEMMA InitIInv == Init => IInv
<1> SUFFICES ASSUME Init PROVE IInv
  OBVIOUS
<1> USE DEF Init
<1>1. InitialSize \in Nat \ {0} /\ InitialSize - 1 \in Nat /\ 1 <= InitialSize - 1
  BY SizesAssumption
<1>2. /\ freeList \in Seq(1..(InitialSize - 1))
      /\ Len(freeList) = InitialSize - 1
      /\ \A i, j \in 1..(InitialSize - 1) : freeList[i] = freeList[j] => i = j
  <2>1. (InitialSize - 1) - 1 + 1 = InitialSize - 1
    BY <1>1
  <2>2. QED
    BY <1>1, <2>1, ChainProperties, Zenon
<1>3. TypeOK
  <2>1. table \in Table(tableSize, capacity) /\ newTable \in Table(newTableSize, capacity)
    BY <1>1, EmptyTableType
  <2>2. pool \in [1..(capacity - 1) -> Entry]
    BY DEF Entry, DeadEntry
  <2>3. popped \in 0..Len(Primes)
    BY PrimesAssumption
  <2>4. cursor \in (0..tableSize) \X Slots
    BY <1>1, SizesAssumption DEF Slots
  <2>5. ret \in [op : {"none", "set", "get", "del"}, key : Keys \cup {NoKey},
                value : Values \cup {NoValue}, ok : BOOLEAN]
    BY DEF Result
  <2>6. QED
    BY <1>1, <1>2, <2>1, <2>2, <2>3, <2>4, <2>5, Zenon DEF TypeOK
<1>4. SizesAgree
  BY <1>1 DEF SizesAgree, SizeAfter
<1>5. ControlAgrees
  BY DEF ControlAgrees
<1>6. FreeListSuffices
  BY <1>1, <1>2 DEF FreeListSuffices, Threshold, RESIZE_THRESHOLD_PERCENTAGE
<1>7. FreeListSound
  <2> HIDE DEF Init
  <2>1. DOMAIN freeList = 1..(InitialSize - 1)
    BY <1>1, <1>2
  <2>2. \A i \in DOMAIN freeList : freeList[i] \in 1..(InitialSize - 1)
    BY <1>2
  <2>3. \A e \in 1..(InitialSize - 1) : pool[e] = DeadEntry
    BY DEF Init
  <2>4. QED
    BY <1>2, <2>1, <2>2, <2>3 DEF FreeListSound
<1>8. QED
  BY <1>3, <1>4, <1>5, <1>6, <1>7 DEF IInv

\* set()'s probing loop: it uses up at most one free entry per insertion.
LEMMA PlaceStore ==
    ASSUME TypeOK, FreeListSound, NEW k \in Keys, NEW v \in Values, Place(k, v)
    PROVE  /\ table' \in Table(tableSize, capacity)
           /\ pool' \in [1..(capacity - 1) -> Entry]
           /\ freeList' \in Seq(1..(capacity - 1))
           /\ numEntries' \in Nat
           /\ numEntries' >= numEntries
           /\ Len(freeList') >= Len(freeList) - (numEntries' - numEntries)
           /\ ret' \in [op : {"none", "set", "get", "del"},
                        key : Keys \cup {NoKey},
                        value : Values \cup {NoValue}, ok : BOOLEAN]
           /\ FreeListSound'
<1> USE DEF TypeOK
<1>1. CASE Claimable(k) = {} /\ ret' = Result("set", k, v, FALSE)
           /\ UNCHANGED <<table, pool, freeList, numEntries>>
  BY <1>1 DEF Result, FreeListSound
<1>2. ASSUME NEW p \in Probes, InsertEntry(k, v, p)
      PROVE  /\ table' \in Table(tableSize, capacity)
             /\ pool' \in [1..(capacity - 1) -> Entry]
             /\ freeList' \in Seq(1..(capacity - 1))
             /\ Len(freeList') >= Len(freeList) - 1
             /\ numEntries' = numEntries + 1
             /\ ret' = Result("set", k, v, TRUE)
             /\ FreeListSound'
  <2> DEFINE old  == IndexAt(table, tableSize, k, p)
             mine == old # 0 /\ pool[old].key = k
             free == IF mine THEN Append(freeList, old) ELSE freeList
             new  == free[Len(free)]
             rest == SubSeq(free, 1, Len(free) - 1)
  <2>1. /\ free # <<>>
        /\ pool' = [pool EXCEPT ![new] = [key |-> k, value |-> v]]
        /\ freeList' = rest
        /\ table' = Put(table, tableSize, k, p, new)
        /\ numEntries' = numEntries + 1
        /\ ret' = Result("set", k, v, TRUE)
    BY <1>2 DEF InsertEntry
  <2>2. old \in 0..(capacity - 1)
    BY IndexAtType
  <2> HIDE DEF old
  <2>3. free \in Seq(1..(capacity - 1))
    <3>1. CASE mine
      <4>1. old \in 1..(capacity - 1) /\ free = Append(freeList, old)
        BY <2>2, <3>1
      <4> HIDE DEF free
      <4>2. QED
        BY <4>1
    <3>2. CASE ~mine
      BY <3>2
    <3>3. QED
      BY <3>1, <3>2
  <2>4. /\ Len(free) \in Nat \ {0}
        /\ new \in 1..(capacity - 1)
        /\ rest \in Seq(1..(capacity - 1))
        /\ Len(rest) = Len(free) - 1
        /\ \A i \in 1..(Len(free) - 1) : rest[i] = free[i]
    <3> HIDE DEF free
    <3>1. QED
      BY <2>1, <2>3, PopProperties, Zenon
  <2>5. table' \in Table(tableSize, capacity)
    <3> HIDE DEF new
    <3>1. QED
      BY <2>1, <2>4, PutType
  <2>6. pool' \in [1..(capacity - 1) -> Entry]
    <3> HIDE DEF new
    <3>1. [key |-> k, value |-> v] \in Entry
      BY DEF Entry
    <3>2. QED
      BY <2>1, <2>4, <3>1
  <2>7. Len(free) >= Len(freeList)
    OBVIOUS
  <2>8. \A i \in 1..(Len(free) - 1) :
            /\ i \in DOMAIN freeList
            /\ free[i] = freeList[i]
            /\ free[i] # new
    <3>1. CASE mine
      <4>1. free = Append(freeList, old) /\ new = old /\ Len(free) = Len(freeList) + 1
        BY <2>2, <3>1
      <4>2. \A i \in 1..Len(freeList) : freeList[i] # old
        BY <3>1, KeysAssumption, SMTT(30) DEF FreeListSound, DeadEntry
      <4>3. QED
        BY <4>1, <4>2
    <3>2. CASE ~mine
      <4>1. free = freeList
        BY <3>2
      <4>2. new = freeList[Len(freeList)]
        BY <4>1
      <4>3. /\ DOMAIN freeList = 1..Len(freeList) /\ Len(freeList) \in Nat
            /\ \A i, j \in DOMAIN freeList : freeList[i] = freeList[j] => i = j
        BY <2>1 DEF FreeListSound
      <4> DEFINE n == Len(freeList)
      <4> HIDE DEF free, new, n, TypeOK
      <4>4. n \in Nat => \A i \in 1..(n - 1) : i \in 1..n /\ n \in 1..n /\ i # n
        OBVIOUS
      <4> USE DEF n
      <4>5. QED
        BY <4>1, <4>2, <4>3, <4>4, Zenon
    <3>3. QED
      BY <3>1, <3>2
  <2>9. FreeListSound'
    <3> HIDE DEF free, new, rest
    <3>1. DOMAIN freeList' = 1..(Len(free) - 1)
      BY <2>1, <2>4
    <3>2. \A i \in DOMAIN freeList' : freeList'[i] = free[i]
      BY <2>1, <2>4, <3>1, SMTT(30)
    <3>3. ASSUME NEW i \in DOMAIN freeList', NEW j \in DOMAIN freeList',
                 freeList'[i] = freeList'[j]
          PROVE  i = j
      <4>1. i \in DOMAIN freeList /\ j \in DOMAIN freeList
        BY <2>8, <3>1
      <4>2. freeList[i] = freeList[j]
        BY <2>8, <3>1, <3>2, <3>3, Zenon
      <4>3. QED
        BY <4>1, <4>2 DEF FreeListSound
    <3>4. ASSUME NEW i \in DOMAIN freeList'
          PROVE  pool'[freeList'[i]] = DeadEntry
      <4>1. freeList'[i] # new /\ freeList'[i] = freeList[i] /\ i \in DOMAIN freeList
        BY <2>8, <3>1, <3>2, Zenon
      <4>2. freeList[i] \in 1..(capacity - 1)
        BY <4>1
      <4>3. pool[freeList[i]] = DeadEntry
        BY <4>1 DEF FreeListSound
      <4>4. QED
        BY <2>1, <4>1, <4>2, <4>3
    <3>5. QED
      BY <3>3, <3>4 DEF FreeListSound
  <2>10. Len(freeList') >= Len(freeList) - 1
    <3> HIDE DEF free, rest
    <3>1. QED
      BY <2>1, <2>4, <2>7
  <2>11. QED
    <3> HIDE DEF free, rest, new
    <3>1. QED
      BY <2>1, <2>4, <2>5, <2>6, <2>9, <2>10
<1>3. \A ok \in BOOLEAN :
          Result("set", k, v, ok) \in [op : {"none", "set", "get", "del"},
                                      key : Keys \cup {NoKey},
                                      value : Values \cup {NoValue}, ok : BOOLEAN]
  BY DEF Result
<1>4. \/ \E p \in Probes : InsertEntry(k, v, p)
      \/ /\ Claimable(k) = {}
         /\ ret' = Result("set", k, v, FALSE)
         /\ UNCHANGED <<table, pool, freeList, numEntries>>
  BY Zenon DEF Place
<1>5. Len(freeList) \in Nat
  OBVIOUS
<1>6. CASE \E p \in Probes : InsertEntry(k, v, p)
  <2>1. PICK p \in Probes : InsertEntry(k, v, p)
    BY <1>6
  <2>2. /\ table' \in Table(tableSize, capacity)
        /\ pool' \in [1..(capacity - 1) -> Entry]
        /\ freeList' \in Seq(1..(capacity - 1))
        /\ Len(freeList') >= Len(freeList) - 1
        /\ numEntries' = numEntries + 1
        /\ ret' = Result("set", k, v, TRUE)
        /\ FreeListSound'
    BY <1>2, <2>1, Zenon
  <2>3. Len(freeList) - (numEntries' - numEntries) = Len(freeList) - 1
    BY <1>5, <2>2
  <2>4. numEntries' \in Nat /\ numEntries' >= numEntries
    BY <2>2
  <2>5. ret' \in [op : {"none", "set", "get", "del"}, key : Keys \cup {NoKey},
                 value : Values \cup {NoValue}, ok : BOOLEAN]
    BY <1>3, <2>2, Zenon
  <2> HIDE DEF TypeOK
  <2>6. QED
    BY <2>2, <2>3, <2>4, <2>5, Zenon
<1>7. QED
  BY <1>1, <1>4, <1>6, Zenon

\* A set() below the threshold inserts directly and keeps the invariant.
LEMMA SetIInv ==
    ASSUME IInv, NEW k \in Keys, NEW v \in Values, Set(k, v)
    PROVE  IInv'
<1> USE DEF IInv
<1>1. Place(k, v) /\ UNCHANGED <<resizeVars, pc, tableSize, capacity>>
  BY Zenon DEF Set, Place
<1>2. TypeOK'
  BY <1>1, PlaceStore DEF TypeOK, resizeVars
<1>3. SizesAgree' /\ ControlAgrees'
  BY <1>1 DEF SizesAgree, ControlAgrees, resizeVars
<1>4. FreeListSuffices'
  <2>1. pc' = "idle" /\ capacity' = capacity
    BY <1>1 DEF Set
  <2>2. Len(freeList') >= Len(freeList) - (numEntries' - numEntries)
    BY <1>1, PlaceStore
  <2>3. Len(freeList) >= Threshold(capacity) - numEntries
    BY DEF FreeListSuffices
  <2>4. Len(freeList) \in Nat /\ Len(freeList') \in Nat /\ numEntries \in Nat
        /\ numEntries' \in Nat /\ Threshold(capacity) \in Nat
    BY <1>1, <1>2, <2>1 DEF TypeOK, Threshold, RESIZE_THRESHOLD_PERCENTAGE
  <2>5. QED
    BY <2>1, <2>2, <2>3, <2>4 DEF FreeListSuffices
<1>5. QED
  BY <1>1, <1>2, <1>3, <1>4, PlaceStore

\* So does the insertion of a set() that resized first.
LEMMA FinishSetIInv ==
    ASSUME IInv, FinishSet
    PROVE  IInv'
<1> USE DEF IInv
<1> DEFINE k == arg[1]
           v == arg[2]
<1>1. k \in Keys /\ v \in Values
  BY DEF FinishSet, ControlAgrees
<1>2. Place(k, v) /\ pc = "insert" /\ pc' = "idle"
      /\ arg' = <<NoKey, NoValue>>
      /\ UNCHANGED <<popped, isResizing, newTable, newTableSize, cursor, lost,
                     tableSize, capacity>>
  BY Zenon DEF FinishSet, Place
<1> HIDE DEF k, v
<1>3. TypeOK'
  BY <1>1, <1>2, PlaceStore DEF TypeOK
<1>4. SizesAgree' /\ ControlAgrees'
  BY <1>2 DEF SizesAgree, ControlAgrees
<1>5. FreeListSuffices'
  <2>1. Len(freeList') >= Len(freeList) - (numEntries' - numEntries)
    BY <1>1, <1>2, PlaceStore
  <2>2. Len(freeList) >= Threshold(capacity) - numEntries
    BY DEF FreeListSuffices
  <2>3. Len(freeList) \in Nat /\ Len(freeList') \in Nat /\ numEntries \in Nat
        /\ numEntries' \in Nat /\ Threshold(capacity) \in Nat
    BY <1>2, <1>3 DEF TypeOK, Threshold, RESIZE_THRESHOLD_PERCENTAGE
  <2>4. QED
    BY <1>2, <2>1, <2>2, <2>3 DEF FreeListSuffices
<1>6. QED
  BY <1>1, <1>2, <1>3, <1>4, <1>5, PlaceStore

\* The arithmetic of the 70% rule: between two resizes the threshold moves by
\* no more than the table grows.
LEMMA ThresholdGrowth ==
    ASSUME NEW small \in Nat, NEW large \in Nat, small < large
    PROVE  /\ Threshold(small) \in Nat
           /\ Threshold(large) \in Nat
           /\ Threshold(large) - Threshold(small) <= large - small
BY DEF Threshold, RESIZE_THRESHOLD_PERCENTAGE

\* resize() up to its loop: the new pool has entries enough for the new table.
LEMMA ResizeIInv ==
    ASSUME IInv, NEW k \in Keys, NEW v \in Values, Resize(k, v)
    PROVE  IInv'
<1> DEFINE size == IF UsePrimeNumbers THEN Primes[popped + 1] ELSE tableSize * 2
<1>1. /\ pc = "idle" /\ pc' = "migrate"
      /\ MustResize
      /\ isResizing' = TRUE
      /\ arg' = <<k, v>>
      /\ popped' = (IF UsePrimeNumbers THEN popped + 1 ELSE popped)
      /\ UsePrimeNumbers => popped < Len(Primes)
      /\ pool' = [e \in 1..(size - 1) |-> IF e < capacity THEN pool[e] ELSE DeadEntry]
      /\ freeList' = Chain(capacity, size - 1)
      /\ capacity' = size
      /\ newTable' = EmptyTable(size)
      /\ newTableSize' = size
      /\ cursor' = <<0, 0>>
      /\ UNCHANGED <<table, tableSize, numEntries, lost, ret>>
  BY DEF Resize
<1>2. size \in Nat /\ capacity < size /\ (UsePrimeNumbers => size = SizeAfter(popped + 1))
  BY <1>1, NextSizeGrows
<1> HIDE DEF size
<1>3. TypeOK /\ capacity \in Nat \ {0} /\ capacity = tableSize /\ numEntries \in Nat
      /\ capacity >= InitialSize
  BY <1>1 DEF IInv, TypeOK, SizesAgree
<1>4. /\ freeList' \in Seq(capacity..(size - 1))
      /\ Len(freeList') = size - capacity
      /\ \A i, j \in 1..(size - capacity) : freeList'[i] = freeList'[j] => i = j
  <2>1. size - 1 \in Nat /\ capacity <= size - 1 /\ (size - 1) - capacity + 1 = size - capacity
    BY <1>2, <1>3
  <2> DEFINE hi == size - 1
  <2>2. hi \in Nat /\ capacity <= hi
    BY <2>1
  <2> HIDE DEF hi
  <2>3. /\ Chain(capacity, hi) \in Seq(capacity..hi)
        /\ Len(Chain(capacity, hi)) = hi - capacity + 1
        /\ \A i, j \in 1..(hi - capacity + 1) :
              Chain(capacity, hi)[i] = Chain(capacity, hi)[j] => i = j
    BY <1>3, <2>2, ChainProperties, Zenon
  <2>4. freeList' = Chain(capacity, hi) /\ hi - capacity + 1 = size - capacity
    BY <1>1, <2>1 DEF hi
  <2>5. QED
    BY <2>3, <2>4 DEF hi
<1>5. TypeOK'
  <2>1. table' \in Table(tableSize', capacity')
    BY <1>1, <1>2, <1>3, TableGrows DEF TypeOK
  <2>2. newTable' \in Table(newTableSize', capacity')
    BY <1>1, <1>2, <1>3, EmptyTableType
  <2>3. pool' \in [1..(capacity' - 1) -> Entry]
    <3>1. DeadEntry \in Entry
      BY DEF DeadEntry, Entry
    <3>2. \A e \in 1..(size - 1) : e < capacity => pool[e] \in Entry
      BY <1>3 DEF TypeOK
    <3>3. QED
      BY <1>1, <3>1, <3>2
  <2>4. freeList' \in Seq(1..(capacity' - 1))
    <3>1. capacity..(size - 1) \subseteq 1..(size - 1)
      BY <1>2, <1>3
    <3>2. freeList' \in Seq(1..(size - 1))
      BY <1>4, <3>1, SeqMonotone, Zenon
    <3>3. QED
      BY <1>1, <3>2
  <2>5. popped' \in 0..Len(Primes)
    BY <1>1, <1>3 DEF TypeOK
  <2>6. cursor' \in (0..tableSize') \X Slots
    BY <1>1, <1>3, SizesAssumption DEF Slots
  <2>7. lost' \subseteq 1..(capacity' - 1)
    BY <1>1, <1>2, <1>3 DEF TypeOK
  <2>8. QED
    BY <1>1, <1>2, <1>3, <2>1, <2>2, <2>3, <2>4, <2>5, <2>6, <2>7 DEF TypeOK
<1>6. SizesAgree'
  BY <1>1, <1>2, <1>3, SizesAssumption DEF SizesAgree, SizeAfter
<1>7. ControlAgrees'
  BY <1>1 DEF ControlAgrees
<1>8. FreeListSuffices'
  <2>1. numEntries >= Threshold(capacity)
    BY <1>1, <1>3 DEF MustResize
  <2>2. /\ Threshold(capacity) \in Nat /\ Threshold(size) \in Nat
        /\ Threshold(size) - Threshold(capacity) <= size - capacity
    BY <1>2, <1>3, ThresholdGrowth
  <2>3. size - capacity >= Threshold(size) - numEntries /\ size - capacity >= 1
    BY <1>2, <1>3, <2>1, <2>2
  <2>4. QED
    BY <1>1, <1>4, <2>3 DEF FreeListSuffices
<1>9. FreeListSound'
  <2>1. DOMAIN freeList' = 1..(size - capacity)
    BY <1>2, <1>3, <1>4
  <2>2. \A i \in DOMAIN freeList' : freeList'[i] \in capacity..(size - 1)
    BY <1>4, SeqMonotone, Zenon
  <2>3. \A e \in capacity..(size - 1) : pool'[e] = DeadEntry
    BY <1>1, <1>2, <1>3
  <2>4. QED
    BY <1>4, <2>1, <2>2, <2>3 DEF FreeListSound
<1>10. QED
  BY <1>5, <1>6, <1>7, <1>8, <1>9 DEF IInv

\* Migrating an entry, or dropping it, touches neither pool nor free list.
LEMMA MigrateEntryIInv ==
    ASSUME IInv, MigrateEntry
    PROVE  IInv'
<1> DEFINE e == table[cursor[1]][cursor[2]]
           k == pool[e].key
<1>1. /\ pc = "migrate"
      /\ cursor[1] < tableSize
      /\ cursor' = After(cursor)
      /\ UNCHANGED <<storeVars, popped, isResizing, arg, newTableSize, pc, ret>>
  BY Zenon DEF MigrateEntry
<1>2. /\ cursor[1] \in 0..(tableSize - 1) /\ cursor[2] \in Slots
      /\ tableSize \in Nat \ {0} /\ capacity \in Nat \ {0}
      /\ newTableSize \in Nat \ {0}
      /\ newTable \in Table(newTableSize, capacity)
      /\ pool \in [1..(capacity - 1) -> Entry]
      /\ lost \subseteq 1..(capacity - 1)
  BY <1>1 DEF IInv, TypeOK, SizesAgree
<1>3. e \in 0..(capacity - 1)
  BY <1>2 DEF IInv, TypeOK, Table
<1>4. cursor' \in (0..tableSize) \X Slots
  <2>1. 0 \in Slots /\ cursor[1] \in 0..tableSize /\ cursor[1] + 1 \in 0..tableSize
    BY <1>2, SizesAssumption DEF Slots
  <2>2. cursor[2] + 1 < BUCKET_SIZE => cursor[2] + 1 \in Slots
    BY <1>2, SizesAssumption, SMTT(30) DEF Slots
  <2>3. QED
    BY <1>1, <2>1, <2>2 DEF After
<1>5. /\ newTable' \in Table(newTableSize, capacity)
      /\ lost' \subseteq 1..(capacity - 1)
  <2>1. CASE UNCHANGED <<newTable, lost>>
    BY <1>2, <2>1
  <2>2. CASE Live(e) /\ lost' = lost \cup {e} /\ UNCHANGED newTable
    <3> HIDE DEF e
    <3>1. e \in 1..(capacity - 1)
      BY <1>3, <2>2 DEF Live
    <3>2. QED
      BY <1>2, <2>2, <3>1
  <2>3. ASSUME NEW p \in Probes, Live(e),
               newTable' = Put(newTable, newTableSize, k, p, e), UNCHANGED lost
        PROVE  /\ newTable' \in Table(newTableSize, capacity)
               /\ lost' \subseteq 1..(capacity - 1)
    <3> HIDE DEF e
    <3>1. k \in Keys
      BY <1>2, <1>3, <2>3 DEF Live, Entry
    <3>2. QED
      BY <1>2, <1>3, <2>3, <3>1, PutType
  <2>4. QED
    BY <2>1, <2>2, <2>3, Zenon DEF MigrateEntry
<1>6. TypeOK'
  BY <1>1, <1>4, <1>5 DEF IInv, TypeOK, storeVars
<1>7. SizesAgree' /\ ControlAgrees' /\ FreeListSuffices' /\ FreeListSound'
  BY <1>1 DEF IInv, SizesAgree, ControlAgrees, FreeListSuffices, FreeListSound,
              storeVars
<1>8. QED
  BY <1>6, <1>7 DEF IInv

\* The new table takes the place of the old one.
LEMMA FinishResizeIInv ==
    ASSUME IInv, FinishResize
    PROVE  IInv'
<1> USE DEF IInv, FinishResize
<1>1. TypeOK'
  <2>1. newTable' \in Table(newTableSize', capacity')
    BY EmptyTableType DEF TypeOK
  <2>2. tableSize' \in Nat \ {0} /\ cursor' \in (0..tableSize') \X Slots
    BY SizesAssumption DEF TypeOK, SizesAgree, Slots
  <2>3. QED
    BY <2>1, <2>2, Zenon DEF TypeOK, SizesAgree
<1>2. SizesAgree' /\ ControlAgrees'
  BY DEF SizesAgree, ControlAgrees
<1>3. FreeListSuffices' /\ FreeListSound'
  BY DEF FreeListSuffices, FreeListSound
<1>4. QED
  BY <1>1, <1>2, <1>3

\* del() returns one live entry to the free list.
LEMMA DelIInv ==
    ASSUME IInv, NEW k \in Keys, Del(k)
    PROVE  IInv'
<1>1. pc = "idle" /\ UNCHANGED <<table, tableSize, capacity, numEntries, resizeVars, pc>>
  BY DEF Del
<1>2. TypeOK /\ FreeListSound /\ Len(freeList) \in Nat
  BY DEF IInv, TypeOK
<1>3. ASSUME NEW p \in Probes, IsFirst(p, Matches(k)),
             pool' = [pool EXCEPT ![IndexAt(table, tableSize, k, p)] = DeadEntry],
             freeList' = Append(freeList, IndexAt(table, tableSize, k, p))
      PROVE  /\ pool' \in [1..(capacity - 1) -> Entry]
             /\ freeList' \in Seq(1..(capacity - 1))
             /\ Len(freeList') = Len(freeList) + 1
             /\ FreeListSound'
  <2> DEFINE e == IndexAt(table, tableSize, k, p)
  <2>1. e \in 0..(capacity - 1) /\ e # 0 /\ pool[e].key = k
    BY <1>2, <1>3, IndexAtType DEF TypeOK, IsFirst, Matches
  <2>2. pool' = [pool EXCEPT ![e] = DeadEntry] /\ freeList' = Append(freeList, e)
    BY <1>3
  <2> HIDE DEF e
  <2>3. e \in 1..(capacity - 1)
    BY <1>2, <2>1 DEF TypeOK
  <2>4. pool' \in [1..(capacity - 1) -> Entry]
    BY <1>2, <2>2, <2>3 DEF TypeOK, Entry, DeadEntry
  <2>5. /\ freeList' \in Seq(1..(capacity - 1))
        /\ Len(freeList') = Len(freeList) + 1
        /\ DOMAIN freeList' = 1..(Len(freeList) + 1)
        /\ freeList'[Len(freeList) + 1] = e
        /\ \A i \in 1..Len(freeList) : freeList'[i] = freeList[i]
    BY <1>2, <2>2, <2>3 DEF TypeOK
  <2>6. \A i \in 1..Len(freeList) :
            pool[freeList[i]] = DeadEntry /\ freeList[i] # e
    <3>1. \A i \in 1..Len(freeList) : pool[freeList[i]] = DeadEntry
      BY <1>2 DEF TypeOK, FreeListSound
    <3>2. pool[e] # DeadEntry
      BY <2>1, KeysAssumption DEF DeadEntry
    <3>3. QED
      BY <3>1, <3>2
  <2>7. \A i, j \in 1..Len(freeList) : freeList[i] = freeList[j] => i = j
    BY <1>2 DEF TypeOK, FreeListSound
  <2>8. ASSUME NEW i \in DOMAIN freeList', NEW j \in DOMAIN freeList',
               freeList'[i] = freeList'[j]
        PROVE  i = j
    BY <1>2, <2>5, <2>6, <2>7, <2>8
  <2>9. ASSUME NEW i \in DOMAIN freeList'
        PROVE  pool'[freeList'[i]] = DeadEntry
    <3>1. freeList'[i] \in 1..(capacity - 1)
      BY <2>5, SeqMonotone, Zenon
    <3>2. freeList'[i] # e => pool[freeList'[i]] = DeadEntry
      BY <1>2, <2>5, <2>6
    <3>3. pool \in [1..(capacity - 1) -> Entry]
      BY <1>2 DEF TypeOK
    <3>4. QED
      BY <2>2, <2>3, <3>1, <3>2, <3>3
  <2>10. QED
    BY <2>4, <2>5, <2>8, <2>9 DEF FreeListSound
<1>4. /\ pool' \in [1..(capacity - 1) -> Entry]
      /\ freeList' \in Seq(1..(capacity - 1))
      /\ Len(freeList') >= Len(freeList)
      /\ FreeListSound'
  <2>1. CASE UNCHANGED <<pool, freeList>>
    BY <1>2, <2>1 DEF TypeOK, FreeListSound
  <2>2. CASE \E p \in Probes :
               /\ IsFirst(p, Matches(k))
               /\ pool' = [pool EXCEPT ![IndexAt(table, tableSize, k, p)] = DeadEntry]
               /\ freeList' = Append(freeList, IndexAt(table, tableSize, k, p))
    <3>1. /\ pool' \in [1..(capacity - 1) -> Entry]
          /\ freeList' \in Seq(1..(capacity - 1))
          /\ Len(freeList') = Len(freeList) + 1
          /\ FreeListSound'
      BY <1>3, <2>2, Zenon
    <3>2. QED
      BY <1>2, <3>1
  <2>3. QED
    BY <2>1, <2>2, Zenon DEF Del
<1>5. ret' \in [op : {"none", "set", "get", "del"}, key : Keys \cup {NoKey},
               value : Values \cup {NoValue}, ok : BOOLEAN]
  <2>1. \E ok \in BOOLEAN : ret' = Result("del", k, NoValue, ok)
    BY Zenon DEF Del
  <2>2. QED
    BY <2>1 DEF Result
<1>6. TypeOK'
  BY <1>1, <1>2, <1>4, <1>5 DEF TypeOK, resizeVars
<1>7. SizesAgree' /\ ControlAgrees'
  BY <1>1 DEF IInv, SizesAgree, ControlAgrees, resizeVars
<1>8. FreeListSuffices'
  <2>1. numEntries \in Nat /\ Threshold(capacity) \in Nat /\ Len(freeList') \in Nat
    BY <1>2, <1>4 DEF TypeOK, Threshold, RESIZE_THRESHOLD_PERCENTAGE
  <2>2. QED
    BY <1>1, <1>2, <1>4, <2>1 DEF IInv, FreeListSuffices
<1>9. QED
  BY <1>4, <1>6, <1>7, <1>8 DEF IInv

\* get() changes nothing but its result.
LEMMA GetIInv ==
    ASSUME IInv, NEW k \in Keys, Get(k)
    PROVE  IInv'
<1>1. UNCHANGED <<storeVars, resizeVars, pc>>
  BY DEF Get
<1>2. \E v \in Values \cup {NoValue}, ok \in BOOLEAN : ret' = Result("get", k, v, ok)
  <2>1. ASSUME NEW p \in Probes, IsFirst(p, Matches(k))
        PROVE  pool[IndexAt(table, tableSize, k, p)].value \in Values \cup {NoValue}
    <3> DEFINE e == IndexAt(table, tableSize, k, p)
    <3>1. e \in 0..(capacity - 1) /\ e # 0
      BY <2>1, IndexAtType DEF IInv, TypeOK, IsFirst, Matches
    <3> HIDE DEF e
    <3>2. pool[e] \in Entry
      BY <3>1 DEF IInv, TypeOK
    <3>3. QED
      BY <3>2 DEF Entry, e
  <2>2. QED
    BY <2>1, Zenon DEF Get
<1>3. ret' \in [op : {"none", "set", "get", "del"}, key : Keys \cup {NoKey},
               value : Values \cup {NoValue}, ok : BOOLEAN]
  BY <1>2 DEF Result
<1>4. TypeOK'
  BY <1>1, <1>3 DEF IInv, TypeOK, storeVars, resizeVars
<1>5. SizesAgree' /\ ControlAgrees' /\ FreeListSuffices' /\ FreeListSound'
  BY <1>1 DEF IInv, SizesAgree, ControlAgrees, FreeListSuffices, FreeListSound,
              storeVars, resizeVars
<1>6. QED
  BY <1>4, <1>5 DEF IInv

\* No operation of the store breaks the inductive invariant.
LEMMA NextIInv == IInv /\ [Next]_vars => IInv'
<1> SUFFICES ASSUME IInv, [Next]_vars PROVE IInv'
  OBVIOUS
<1>1. ASSUME NEW k \in Keys, NEW v \in Values, Set(k, v) PROVE IInv'
  BY <1>1, SetIInv
<1>2. ASSUME NEW k \in Keys, NEW v \in Values, Resize(k, v) PROVE IInv'
  BY <1>2, ResizeIInv
<1>3. CASE ResizeThrows
  BY <1>3 DEF ResizeThrows, IInv, TypeOK, SizesAgree, ControlAgrees,
              FreeListSuffices, FreeListSound, storeVars
<1>4. CASE MigrateEntry
  BY <1>4, MigrateEntryIInv
<1>5. CASE FinishResize
  BY <1>5, FinishResizeIInv
<1>6. CASE FinishSet
  BY <1>6, FinishSetIInv
<1>7. ASSUME NEW k \in Keys, Get(k) PROVE IInv'
  BY <1>7, GetIInv
<1>8. ASSUME NEW k \in Keys, Del(k) PROVE IInv'
  BY <1>8, DelIInv
<1>9. CASE UNCHANGED vars
  BY <1>9 DEF vars, storeVars, resizeVars, IInv, TypeOK, SizesAgree,
              ControlAgrees, FreeListSuffices, FreeListSound
<1>10. QED
  BY <1>1, <1>2, <1>3, <1>4, <1>5, <1>6, <1>7, <1>8, <1>9 DEF Next

\* The inductive invariant holds of every behaviour of set(), get(), del() and
\* resize(): well-formed table and pool, a sound free list, and a free list
\* long enough for the insertions left before the next resize.
THEOREM Invariance == Spec => []IInv
<1>1. QED
  BY InitIInv, NextIInv, PTL DEF Spec

-----------------------------------------------------------------------------
(* The properties that follow.                                             *)

\* The variables of the store always have their types: in particular every
\* slot of a table in use or under construction holds 0 or an index of the
\* present pool, so pool[...] is never read out of bounds.
THEOREM TypeCorrect == Spec => []TypeOK
<1>1. IInv => TypeOK
  BY DEF IInv
<1>2. QED
  BY <1>1, Invariance, PTL

\* del() and set() never put an entry on the free list twice or while it is
\* live, for any sequence of operations and resizes.
THEOREM FreeListIsSound == Spec => []FreeListSound
<1>1. IInv => FreeListSound
  BY DEF IInv
<1>2. QED
  BY <1>1, Invariance, PTL

\* MemoryPool::allocate() is never called on an empty free list.
THEOREM AllocateNeverExpands == Spec => []AllocateFindsEntry
<1>1. IInv => AllocateFindsEntry
  <2> SUFFICES ASSUME IInv, pc = "insert" \/ (pc = "idle" /\ ~MustResize)
               PROVE  freeList # <<>>
    BY DEF AllocateFindsEntry
  <2>1. Len(freeList) \in Nat /\ numEntries \in Nat /\ Threshold(capacity) \in Nat
    BY DEF IInv, TypeOK, Threshold, RESIZE_THRESHOLD_PERCENTAGE
  <2>2. CASE pc = "insert"
    BY <2>1, <2>2 DEF IInv, FreeListSuffices
  <2>3. CASE pc = "idle" /\ ~MustResize
    <3>1. capacity = tableSize /\ ~isResizing
      BY <2>3 DEF IInv, SizesAgree, ControlAgrees
    <3>2. numEntries < Threshold(capacity)
      BY <2>1, <2>3, <3>1 DEF MustResize
    <3>3. Len(freeList) > 0
      BY <2>1, <3>2 DEF IInv, FreeListSuffices
    <3>4. QED
      BY <3>3
  <2>4. QED
    BY <2>2, <2>3
<1>2. QED
  BY <1>1, Invariance, PTL

-----------------------------------------------------------------------------
(* Reading a table after one slot of it was written.                       *)

\* Put changes one slot and no other.
LEMMA PutSlot ==
    ASSUME NEW k \in Keys, NEW p \in Probes, NEW size \in Nat \ {0},
           NEW cap \in Nat, NEW tbl \in Table(size, cap), NEW e,
           NEW b \in 0..(size - 1), NEW s \in Slots
    PROVE  Put(tbl, size, k, p, e)[b][s] =
               IF b = calcIndex(Hash[k], p[1], size) /\ s = p[2] THEN e
               ELSE tbl[b][s]
BY ProbeInTable DEF Put, Table

\* What a probe of any key reads after Put: the new index, or what was there.
LEMMA PutIndexAt ==
    ASSUME NEW k \in Keys, NEW p \in Probes, NEW size \in Nat \ {0},
           NEW cap \in Nat, NEW tbl \in Table(size, cap), NEW e,
           NEW l \in Keys, NEW q \in Probes
    PROVE  /\ \/ /\ IndexAt(Put(tbl, size, k, p, e), size, l, q) = e
                 /\ IndexAt(tbl, size, l, q) = IndexAt(tbl, size, k, p)
              \/ IndexAt(Put(tbl, size, k, p, e), size, l, q) = IndexAt(tbl, size, l, q)
           /\ l = k /\ q = p => IndexAt(Put(tbl, size, k, p, e), size, l, q) = e
<1> DEFINE b == calcIndex(Hash[l], q[1], size)
<1>1. b \in 0..(size - 1) /\ q[2] \in Slots
  BY ProbeInTable
<1>2. Put(tbl, size, k, p, e)[b][q[2]] =
          IF b = calcIndex(Hash[k], p[1], size) /\ q[2] = p[2] THEN e
          ELSE tbl[b][q[2]]
  <2> HIDE DEF b
  <2>1. QED
    BY <1>1, PutSlot
<1>3. QED
  BY <1>2 DEF IndexAt

\* A table names after Put what it named before, but for the overwritten index.
LEMMA PutHolds ==
    ASSUME NEW k \in Keys, NEW p \in Probes, NEW size \in Nat \ {0},
           NEW cap \in Nat, NEW tbl \in Table(size, cap), NEW e \in 0..(cap - 1)
    PROVE  /\ Holds(Put(tbl, size, k, p, e), e)
           /\ \A d : Holds(Put(tbl, size, k, p, e), d) => d = e \/ Holds(tbl, d)
           /\ \A d : Holds(tbl, d) /\ d # IndexAt(tbl, size, k, p)
                        => Holds(Put(tbl, size, k, p, e), d)
<1> DEFINE new == Put(tbl, size, k, p, e)
           c   == calcIndex(Hash[k], p[1], size)
<1>1. c \in 0..(size - 1) /\ p[2] \in Slots
  BY ProbeInTable
<1>2. DOMAIN tbl = 0..(size - 1) /\ DOMAIN new = 0..(size - 1)
  <2>1. new \in Table(size, cap)
    BY PutType
  <2> HIDE DEF new
  <2>2. QED
    BY <2>1 DEF Table
<1>3. \A b \in 0..(size - 1), s \in Slots :
          new[b][s] = IF b = c /\ s = p[2] THEN e ELSE tbl[b][s]
  BY PutSlot
<1>4. IndexAt(tbl, size, k, p) = tbl[c][p[2]]
  BY DEF IndexAt
<1> HIDE DEF new, c
<1>5. Holds(new, e)
  BY <1>1, <1>2, <1>3 DEF Holds
<1>6. ASSUME NEW d, Holds(new, d) PROVE d = e \/ Holds(tbl, d)
  BY <1>2, <1>3, <1>6 DEF Holds
<1>7. ASSUME NEW d, Holds(tbl, d), d # IndexAt(tbl, size, k, p) PROVE Holds(new, d)
  BY <1>2, <1>3, <1>4, <1>7 DEF Holds
<1>8. QED
  BY <1>5, <1>6, <1>7 DEF new

\* The order of the probes is a strict total order.
LEMMA ProbeOrder ==
    ASSUME NEW p \in Probes, NEW q \in Probes
    PROVE  /\ ~Before(p, p)
           /\ ~(Before(p, q) /\ Before(q, p))
           /\ p = q \/ Before(p, q) \/ Before(q, p)
           /\ \A r \in Probes : Before(p, q) /\ Before(q, r) => Before(p, r)
<1>1. \A r \in Probes : r[1] \in Int /\ r[2] \in Int /\ r = <<r[1], r[2]>>
  BY SizesAssumption DEF Probes, Slots
<1>2. QED
  BY <1>1 DEF Before

-----------------------------------------------------------------------------
(* set(), get() and del().                                                 *)

\* insertEntry() takes a dead entry, or the one deallocate() just freed, and
\* overwrites no slot through which a live entry of another key is named.
LEMMA InsertFacts ==
    ASSUME TypeOK, FreeListSound, NEW k \in Keys, NEW v \in Values,
           NEW p \in Probes, p \in Claimable(k), InsertEntry(k, v, p)
    PROVE  \E new \in 1..(capacity - 1) :
              LET old == IndexAt(table, tableSize, k, p)
              IN  /\ pool' = [pool EXCEPT ![new] = [key |-> k, value |-> v]]
                  /\ table' = Put(table, tableSize, k, p, new)
                  /\ ret' = Result("set", k, v, TRUE)
                  /\ Live(new) => new = old /\ pool[new].key = k
                  /\ Live(old) => new = old
<1> DEFINE old  == IndexAt(table, tableSize, k, p)
           mine == old # 0 /\ pool[old].key = k
           free == IF mine THEN Append(freeList, old) ELSE freeList
           new  == free[Len(free)]
<1>1. /\ free # <<>>
      /\ pool' = [pool EXCEPT ![new] = [key |-> k, value |-> v]]
      /\ table' = Put(table, tableSize, k, p, new)
      /\ ret' = Result("set", k, v, TRUE)
  BY DEF InsertEntry
<1>2. old \in 0..(capacity - 1)
  BY IndexAtType DEF TypeOK
<1>3. old # 0 => pool[old].key \in {NoKey, k}
  BY DEF Claimable
<1> HIDE DEF old
<1>4. /\ new \in 1..(capacity - 1)
      /\ Live(new) => new = old /\ pool[new].key = k
      /\ Live(old) => new = old
  <2>1. freeList \in Seq(1..(capacity - 1))
    BY DEF TypeOK
  <2>2. CASE mine
    <3>1. new = old /\ old \in 1..(capacity - 1)
      BY <1>2, <2>1, <2>2
    <3> HIDE DEF new
    <3>2. QED
      BY <2>2, <3>1
  <2>3. CASE ~mine
    <3>1. new = freeList[Len(freeList)] /\ freeList # <<>>
      BY <1>1, <2>3
    <3> HIDE DEF new, free
    <3>2. Len(freeList) \in DOMAIN freeList
      BY <2>1, <3>1
    <3>3. new \in 1..(capacity - 1)
      BY <2>1, <3>1, PopProperties, Zenon
    <3>4. pool[new] = DeadEntry
      BY <3>1, <3>2 DEF FreeListSound
    <3>5. ~Live(new)
      BY <3>4 DEF Live, DeadEntry
    <3>6. ~Live(old)
      BY <1>3, <2>3 DEF Live
    <3>7. QED
      BY <3>3, <3>5, <3>6
  <2>4. QED
    BY <2>2, <2>3
<1> HIDE DEF new
<1>5. QED
  BY <1>1, <1>4, Zenon DEF old

\* No slot before the one set() takes is empty, names a dead entry, or names an
\* entry of the same key.
LEMMA BeforeFirstClaimable ==
    ASSUME NEW k \in Keys, NEW p \in Probes, IsFirst(p, Claimable(k)),
           NEW q \in Probes, Before(q, p)
    PROVE  LET e == IndexAt(table, tableSize, k, q)
           IN  Live(e) /\ pool[e].key # k
<1>1. q \notin Claimable(k)
  BY ProbeOrder DEF IsFirst
<1>2. QED
  BY <1>1 DEF Claimable, Live

\* The probing loop of set() keeps every live entry where its probes find it.
LEMMA PlacePlacement ==
    ASSUME TypeOK, FreeListSound, Placement, NEW k \in Keys, NEW v \in Values,
           Place(k, v), lost' = lost, pc' # "migrate"
    PROVE  Placement'
<1>1. tableSize' = tableSize /\ tableSize \in Nat \ {0} /\ capacity \in Nat \ {0}
      /\ table \in Table(tableSize, capacity) /\ pool \in [1..(capacity - 1) -> Entry]
  BY DEF TypeOK, Place
<1>2. CASE UNCHANGED <<table, pool>>
  BY <1>1, <1>2 DEF Placement, Live, Holds, WellPlaced
<1>3. CASE \E p \in Probes : IsFirst(p, Claimable(k)) /\ InsertEntry(k, v, p)
  <2>1. PICK p \in Probes : IsFirst(p, Claimable(k)) /\ InsertEntry(k, v, p)
    BY <1>3
  <2>a. p \in Claimable(k)
    BY <2>1 DEF IsFirst
  <2> DEFINE old == IndexAt(table, tableSize, k, p)
  <2>2. PICK new \in 1..(capacity - 1) :
            /\ pool' = [pool EXCEPT ![new] = [key |-> k, value |-> v]]
            /\ table' = Put(table, tableSize, k, p, new)
            /\ ret' = Result("set", k, v, TRUE)
            /\ Live(new) => new = old /\ pool[new].key = k
            /\ Live(old) => new = old
    BY <2>1, <2>a, InsertFacts, Zenon
  <2>3. \A l \in Keys, q \in Probes :
            \/ /\ IndexAt(table', tableSize, l, q) = new
               /\ IndexAt(table, tableSize, l, q) = old
            \/ IndexAt(table', tableSize, l, q) = IndexAt(table, tableSize, l, q)
    BY <1>1, <2>2, PutIndexAt
  <2>4. IndexAt(table', tableSize, k, p) = new
    BY <1>1, <2>2, PutIndexAt
  <2>5. /\ Holds(table', new)
        /\ \A d : Holds(table', d) => d = new \/ Holds(table, d)
        /\ \A d : Holds(table, d) /\ d # old => Holds(table', d)
    BY <1>1, <2>2, PutHolds
  <2> HIDE DEF old
  <2>6. DOMAIN pool' = DOMAIN pool /\ DOMAIN pool = 1..(capacity - 1)
        /\ pool'[new] = [key |-> k, value |-> v]
        /\ \A e \in DOMAIN pool : e # new => pool'[e] = pool[e]
    BY <1>1, <2>2
  <2>7. WellPlaced(table, tableSize, new)'
    <3>1. ASSUME NEW q \in Probes, Before(q, p)
          PROVE  IndexAt(table', tableSize, k, q) # 0
      BY <2>1, <2>2, <2>3, <3>1, BeforeFirstClaimable DEF Live
    <3>2. QED
      BY <1>1, <2>4, <2>6, <3>1 DEF WellPlaced
  <2>8. ASSUME NEW e \in DOMAIN pool, e # new, Live(e)'
        PROVE  /\ Holds(table', e) => WellPlaced(table, tableSize, e)'
               /\ e \notin lost => Holds(table', e)
    <3>1. pool'[e] = pool[e] /\ Live(e) /\ pool[e].key \in Keys
      BY <1>1, <2>6, <2>8 DEF Live, Entry
    <3>2. e # old
      BY <2>2, <2>8, <3>1
    <3>3. ASSUME Holds(table', e) PROVE WellPlaced(table, tableSize, e)'
      <4>1. WellPlaced(table, tableSize, e)
        BY <2>5, <2>8, <3>1, <3>3 DEF Placement
      <4>2. PICK r \in Probes :
                /\ IndexAt(table, tableSize, pool[e].key, r) = e
                /\ \A q \in Probes :
                      Before(q, r) => IndexAt(table, tableSize, pool[e].key, q) # 0
        BY <4>1 DEF WellPlaced
      <4>3. IndexAt(table', tableSize, pool[e].key, r) = e
        BY <2>3, <3>1, <3>2, <4>2
      <4>4. \A q \in Probes :
                Before(q, r) => IndexAt(table', tableSize, pool[e].key, q) # 0
        BY <2>2, <2>3, <3>1, <4>2
      <4>5. QED
        BY <1>1, <3>1, <4>3, <4>4 DEF WellPlaced
    <3>4. e \notin lost => Holds(table', e)
      BY <2>5, <3>1, <3>2 DEF Placement
    <3>5. QED
      BY <3>3, <3>4
  <2>9. QED
    BY <2>5, <2>6, <2>7, <2>8 DEF Placement
<1>4. QED
  BY <1>2, <1>3, Zenon DEF Place

\* del() makes one entry dead and moves none.
LEMMA DelPlacement ==
    ASSUME TypeOK, Placement, NEW k \in Keys, Del(k)
    PROVE  Placement'
<1>1. pc = "idle" /\ UNCHANGED <<table, tableSize, lost, pc>>
  BY DEF Del, resizeVars
<1>2. /\ DOMAIN pool' = DOMAIN pool
      /\ \A d \in DOMAIN pool : Live(d)' => Live(d) /\ pool'[d] = pool[d]
  <2>1. CASE UNCHANGED pool
    BY <2>1 DEF Live
  <2>2. ASSUME NEW e, pool' = [pool EXCEPT ![e] = DeadEntry]
        PROVE  /\ DOMAIN pool' = DOMAIN pool
               /\ \A d \in DOMAIN pool : Live(d)' => Live(d) /\ pool'[d] = pool[d]
    BY <2>2, SMTT(30) DEF Live, DeadEntry, TypeOK
  <2>3. QED
    BY <2>1, <2>2, Zenon DEF Del
<1>3. ASSUME NEW d \in DOMAIN pool', Live(d)'
      PROVE  /\ Holds(table, d)' => WellPlaced(table, tableSize, d)'
             /\ d \notin lost' => Holds(table, d)'
  BY <1>1, <1>2, <1>3 DEF Placement, Holds, WellPlaced
<1>4. QED
  BY <1>1, <1>3 DEF Placement

-----------------------------------------------------------------------------
(* resize().                                                               *)

\* Every slot of the old table lies ahead when the walk begins.
LEMMA ResizePlacement ==
    ASSUME IInv, Placement, NEW k \in Keys, NEW v \in Values, Resize(k, v)
    PROVE  Placement'
<1> DEFINE size == IF UsePrimeNumbers THEN Primes[popped + 1] ELSE tableSize * 2
<1>1. /\ pc = "idle" /\ pc' = "migrate"
      /\ UsePrimeNumbers => popped < Len(Primes)
      /\ pool' = [e \in 1..(size - 1) |-> IF e < capacity THEN pool[e] ELSE DeadEntry]
      /\ newTable' = EmptyTable(size)
      /\ cursor' = <<0, 0>>
      /\ UNCHANGED <<table, tableSize, lost>>
  BY DEF Resize
<1>2. size \in Nat /\ capacity < size
  BY <1>1, NextSizeGrows
<1> HIDE DEF size
<1>3. /\ capacity \in Nat /\ pool \in [1..(capacity - 1) -> Entry]
      /\ tableSize \in Nat \ {0} /\ DOMAIN table = 0..(tableSize - 1)
  BY DEF IInv, TypeOK, Table
<1>4. ASSUME NEW d \in DOMAIN pool', Live(d)'
      PROVE  d \in DOMAIN pool /\ Live(d) /\ pool'[d] = pool[d]
  BY <1>1, <1>2, <1>3, <1>4 DEF Live, DeadEntry
<1>5. ASSUME NEW d, Holds(newTable', d) PROVE d = 0
  BY <1>1, <1>2, <1>5 DEF Holds, EmptyTable
<1>6. ASSUME NEW d, Holds(table, d) PROVE Ahead(d)'
  <2>1. PICK b \in DOMAIN table, s \in Slots : table[b][s] = d
    BY <1>6 DEF Holds
  <2>2. b \in Nat /\ s \in Nat
    BY <1>3, SizesAssumption DEF Slots
  <2>3. ~Before(<<b, s>>, cursor')
    BY <1>1, <2>2 DEF Before
  <2>4. QED
    BY <1>1, <2>1, <2>3 DEF Ahead
<1>7. ASSUME NEW d \in DOMAIN pool', Live(d)'
      PROVE  /\ Holds(table, d)' => WellPlaced(table, tableSize, d)'
             /\ d \notin lost' => Holds(table, d)
             /\ ~Holds(newTable', d)
  <2>1. d \in DOMAIN pool /\ Live(d) /\ pool'[d] = pool[d] /\ d # 0
    BY <1>4, <1>7 DEF Live
  <2>2. Holds(table, d)' => WellPlaced(table, tableSize, d)'
    BY <1>1, <2>1 DEF Placement, Holds, WellPlaced
  <2>3. d \notin lost' => Holds(table, d)
    BY <1>1, <2>1 DEF Placement
  <2>4. QED
    BY <1>5, <2>1, <2>2, <2>3
<1>8. \A d : Holds(table, d)' <=> Holds(table, d)
  BY <1>1
<1>9. QED
  BY <1>1, <1>6, <1>7, <1>8 DEF Placement

\* After is the next slot: what is not behind the cursor, and not under it, is
\* not behind the next cursor either.
LEMMA AfterIsNext ==
    ASSUME NEW b \in Nat, NEW s \in Slots, NEW c \in Nat \X Slots,
           ~Before(<<b, s>>, c), <<b, s>> # c
    PROVE  ~Before(<<b, s>>, After(c))
<1>1. c[1] \in Nat /\ c[2] \in 0..(BUCKET_SIZE - 1) /\ s \in 0..(BUCKET_SIZE - 1)
      /\ c = <<c[1], c[2]>> /\ BUCKET_SIZE \in Nat
  BY SizesAssumption DEF Slots
<1>2. b > c[1] \/ (b = c[1] /\ s > c[2])
  BY <1>1 DEF Before
<1>3. CASE c[2] + 1 < BUCKET_SIZE
  <2>1. After(c) = <<c[1], c[2] + 1>>
    BY <1>3 DEF After
  <2>2. QED
    BY <1>1, <1>2, <2>1 DEF Before
<1>4. CASE ~(c[2] + 1 < BUCKET_SIZE)
  <2>1. After(c) = <<c[1] + 1, 0>>
    BY <1>4 DEF After
  <2>2. b > c[1]
    BY <1>1, <1>2, <1>4
  <2>3. QED
    BY <1>1, <2>1, <2>2 DEF Before
<1>5. QED
  BY <1>3, <1>4

\* Filling the first hole on an entry's probes places it well and disturbs no
\* entry already in the new table.
LEMMA FillHole ==
    ASSUME TypeOK, newTableSize \in Nat \ {0},
           NEW e \in 1..(capacity - 1), pool[e].key \in Keys,
           NEW p \in Probes, IsFirst(p, Holes(pool[e].key)),
           NEW tbl, tbl = Put(newTable, newTableSize, pool[e].key, p, e)
    PROVE  /\ WellPlaced(tbl, newTableSize, e)
           /\ Holds(tbl, e)
           /\ \A d : Holds(tbl, d) => d = e \/ Holds(newTable, d)
           /\ \A d : Holds(newTable, d) /\ d # 0 => Holds(tbl, d)
           /\ \A d \in DOMAIN pool :
                 Live(d) /\ WellPlaced(newTable, newTableSize, d)
                     => WellPlaced(tbl, newTableSize, d)
<1> DEFINE k == pool[e].key
<1>1. IndexAt(newTable, newTableSize, k, p) = 0
  BY DEF IsFirst, Holes
<1>2. newTable \in Table(newTableSize, capacity) /\ capacity \in Nat
      /\ e \in 0..(capacity - 1)
  BY DEF TypeOK
<1>3. \A l \in Keys, q \in Probes :
          \/ /\ IndexAt(tbl, newTableSize, l, q) = e
             /\ IndexAt(newTable, newTableSize, l, q) = 0
          \/ IndexAt(tbl, newTableSize, l, q) = IndexAt(newTable, newTableSize, l, q)
  BY <1>1, <1>2, PutIndexAt
<1>4. IndexAt(tbl, newTableSize, k, p) = e
  BY <1>2, PutIndexAt
<1>5. ASSUME NEW q \in Probes, Before(q, p)
      PROVE  IndexAt(tbl, newTableSize, k, q) # 0
  <2>1. q \notin Holes(k)
    BY <1>5, ProbeOrder DEF IsFirst
  <2>2. IndexAt(newTable, newTableSize, k, q) # 0
    BY <2>1 DEF Holes
  <2>3. QED
    BY <1>3, <2>2
<1>6. WellPlaced(tbl, newTableSize, e)
  BY <1>4, <1>5 DEF WellPlaced
<1>7. /\ Holds(tbl, e)
      /\ \A d : Holds(tbl, d) => d = e \/ Holds(newTable, d)
      /\ \A d : Holds(newTable, d) /\ d # 0 => Holds(tbl, d)
  BY <1>1, <1>2, PutHolds
<1>8. ASSUME NEW d \in DOMAIN pool, Live(d), WellPlaced(newTable, newTableSize, d)
      PROVE  WellPlaced(tbl, newTableSize, d)
  <2>1. PICK r \in Probes :
            /\ IndexAt(newTable, newTableSize, pool[d].key, r) = d
            /\ \A q \in Probes : Before(q, r) =>
                  IndexAt(newTable, newTableSize, pool[d].key, q) # 0
    BY <1>8 DEF WellPlaced
  <2>2. pool[d].key \in Keys /\ d # 0
    BY <1>8 DEF TypeOK, Entry, Live
  <2>3. IndexAt(tbl, newTableSize, pool[d].key, r) = d
    BY <1>3, <2>1, <2>2
  <2>4. \A q \in Probes :
            Before(q, r) => IndexAt(tbl, newTableSize, pool[d].key, q) # 0
    BY <1>3, <2>1, <2>2, SMTT(30)
  <2>5. QED
    BY <2>3, <2>4 DEF WellPlaced
<1>9. QED
  BY <1>6, <1>7, <1>8

\* One step of the walk: the entry under the cursor is placed, or given up, and
\* every other one stays where it was.
LEMMA MigratePlacement ==
    ASSUME IInv, Placement, MigrateEntry
    PROVE  Placement'
<1> DEFINE e == table[cursor[1]][cursor[2]]
<1>1. /\ pc = "migrate" /\ cursor[1] < tableSize /\ cursor' = After(cursor)
      /\ UNCHANGED <<table, tableSize, pool, newTableSize, pc>>
  BY Zenon DEF MigrateEntry, storeVars
<1>2. /\ TypeOK /\ newTableSize \in Nat \ {0} /\ tableSize \in Nat \ {0}
      /\ cursor \in Nat \X Slots /\ DOMAIN table = 0..(tableSize - 1)
      /\ pool \in [1..(capacity - 1) -> Entry] /\ capacity \in Nat
  <2>1. TypeOK /\ tableSize < newTableSize
    BY <1>1 DEF IInv, SizesAgree
  <2>2. /\ newTableSize \in Nat /\ tableSize \in Nat \ {0} /\ capacity \in Nat
        /\ cursor \in (0..tableSize) \X Slots /\ table \in Table(tableSize, capacity)
        /\ pool \in [1..(capacity - 1) -> Entry]
    BY <2>1 DEF TypeOK
  <2>3. DOMAIN table = 0..(tableSize - 1)
    BY <2>2 DEF Table
  <2>4. QED
    BY <2>1, <2>2, <2>3
<1>3. e \in 0..(capacity - 1)
  BY <1>1, <1>2 DEF TypeOK, Table
<1>4. ASSUME NEW d, Ahead(d), d # e PROVE Ahead(d)'
  <2>1. PICK b \in DOMAIN table, s \in Slots :
            table[b][s] = d /\ ~Before(<<b, s>>, cursor)
    BY <1>4 DEF Ahead
  <2>2. <<b, s>> # cursor
    BY <1>4, <2>1
  <2>3. b \in Nat
    BY <1>2
  <2>4. ~Before(<<b, s>>, cursor')
    BY <1>1, <1>2, <2>1, <2>2, <2>3, AfterIsNext
  <2>5. QED
    BY <1>1, <2>1, <2>4 DEF Ahead
<1>a. Holds(table, e)
  <2>1. cursor[1] \in DOMAIN table /\ cursor[2] \in Slots
    BY <1>1, <1>2
  <2>2. QED
    BY <2>1 DEF Holds
<1> HIDE DEF e
<1>5. ASSUME NEW d \in DOMAIN pool, Live(d)
      PROVE  /\ Holds(newTable, d) => Holds(table, d) /\ WellPlaced(newTable, newTableSize, d)
             /\ d \notin lost => Holds(newTable, d) \/ Ahead(d)
  BY <1>1, <1>5 DEF Placement
<1>6. ASSUME NEW d \in DOMAIN pool, Live(d)
      PROVE  /\ (Holds(newTable, d) => Holds(table, d) /\ WellPlaced(newTable, newTableSize, d))'
             /\ (d \notin lost => Holds(newTable, d) \/ Ahead(d))'
  <2>1. CASE ~Live(e) /\ UNCHANGED <<newTable, lost>>
    BY <1>1, <1>4, <1>5, <1>6, <2>1, SMTT(30) DEF Holds, WellPlaced
  <2>2. CASE lost' = lost \cup {e} /\ UNCHANGED newTable
    BY <1>1, <1>4, <1>5, <1>6, <2>2 DEF Holds, WellPlaced
  <2>3. ASSUME Live(e), lost' = lost, NEW p \in Probes,
               IsFirst(p, Holes(pool[e].key)),
               newTable' = Put(newTable, newTableSize, pool[e].key, p, e)
        PROVE  /\ (Holds(newTable, d) => Holds(table, d) /\ WellPlaced(newTable, newTableSize, d))'
               /\ (d \notin lost => Holds(newTable, d) \/ Ahead(d))'
    <3>1. e \in 1..(capacity - 1) /\ pool[e].key \in Keys /\ d # 0
      BY <1>2, <1>3, <1>6, <2>3 DEF Live, Entry
    <3>2. /\ WellPlaced(newTable', newTableSize, e)
          /\ Holds(newTable', e)
          /\ Holds(newTable', d) => d = e \/ Holds(newTable, d)
          /\ Holds(newTable, d) => Holds(newTable', d)
          /\ WellPlaced(newTable, newTableSize, d)
                => WellPlaced(newTable', newTableSize, d)
      BY <1>2, <1>6, <2>3, <3>1, FillHole
    <3>3. WellPlaced(newTable', newTableSize, d) => WellPlaced(newTable, newTableSize, d)'
      BY <1>1, SMTT(30) DEF WellPlaced
    <3>4. QED
      BY <1>1, <1>4, <1>5, <1>6, <1>a, <2>3, <3>2, <3>3
  <2>4. \/ ~Live(e) /\ UNCHANGED <<newTable, lost>>
        \/ lost' = lost \cup {e} /\ UNCHANGED newTable
        \/ /\ Live(e) /\ lost' = lost
           /\ \E p \in Probes :
                /\ IsFirst(p, Holes(pool[e].key))
                /\ newTable' = Put(newTable, newTableSize, pool[e].key, p, e)
    BY ZenonT(30) DEF MigrateEntry, e
  <2>5. QED
    BY <2>1, <2>2, <2>3, <2>4, SMTT(30)
<1>7. lost \subseteq lost'
  BY ZenonT(30) DEF MigrateEntry
<1>8. ASSUME NEW d \in DOMAIN pool, Live(d)
      PROVE  /\ (Holds(table, d) => WellPlaced(table, tableSize, d))'
             /\ (d \notin lost => Holds(table, d))'
  <2>1. Holds(table, d)' <=> Holds(table, d)
    BY <1>1, Zenon DEF Holds
  <2>2. WellPlaced(table, tableSize, d)' <=> WellPlaced(table, tableSize, d)
    BY <1>1, Zenon DEF WellPlaced
  <2>3. /\ Holds(table, d) => WellPlaced(table, tableSize, d)
        /\ d \notin lost => Holds(table, d)
    BY <1>8, Zenon DEF Placement
  <2>4. QED
    BY <1>7, <2>1, <2>2, <2>3, Zenon
<1>9. DOMAIN pool' = DOMAIN pool /\ \A d : Live(d)' <=> Live(d)
  BY <1>1 DEF Live
<1>10. QED
  BY <1>6, <1>8, <1>9, SMTT(30) DEF Placement

\* When the walk is over nothing lies ahead: what was true of the new table is
\* true of the table.
LEMMA FinishResizePlacement ==
    ASSUME IInv, Placement, FinishResize
    PROVE  Placement'
<1>1. /\ pc = "migrate" /\ pc' = "insert" /\ cursor[1] = tableSize
      /\ table' = newTable /\ tableSize' = newTableSize
      /\ UNCHANGED <<pool, lost>>
  BY DEF FinishResize
<1>2. ASSUME NEW d PROVE ~Ahead(d)
  <2>1. DOMAIN table = 0..(tableSize - 1) /\ tableSize \in Nat
    BY DEF IInv, TypeOK, Table
  <2>2. \A b \in 0..(tableSize - 1), s \in Slots : Before(<<b, s>>, cursor)
    BY <1>1, <2>1, SMTT(30) DEF Before
  <2>3. QED
    BY <2>1, <2>2, Zenon DEF Ahead
<1>3. ASSUME NEW d \in DOMAIN pool, Live(d)
      PROVE  /\ (Holds(table, d) => WellPlaced(table, tableSize, d))'
             /\ (d \notin lost => Holds(table, d))'
  BY <1>1, <1>2, <1>3 DEF Placement, Holds, WellPlaced
<1>4. DOMAIN pool' = DOMAIN pool /\ \A d : Live(d)' <=> Live(d)
  BY <1>1 DEF Live
<1>5. QED
  BY <1>1, <1>3, <1>4 DEF Placement

-----------------------------------------------------------------------------
(* The invariant, and what follows from it.                                *)

\* An empty table names no entry.
LEMMA InitPlacement == Init => Placement
<1> SUFFICES ASSUME Init PROVE Placement
  OBVIOUS
<1>1. \A e \in DOMAIN pool : ~Live(e)
  BY DEF Init, Live, DeadEntry
<1>2. QED
  BY <1>1 DEF Placement

\* What a step that leaves table and pool alone leaves alone.
LEMMA UnmovedPlaced ==
  ASSUME UNCHANGED <<table, tableSize, pool, lost>>, NEW e
  PROVE  /\ Live(e)' <=> Live(e)
         /\ Holds(table, e)' <=> Holds(table, e)
         /\ WellPlaced(table, tableSize, e)' <=> WellPlaced(table, tableSize, e)
<1>1. table' = table /\ tableSize' = tableSize /\ pool' = pool
  OBVIOUS
<1>2. Live(e)' <=> Live(e)
  BY <1>1, Zenon DEF Live
<1>3. Holds(table, e)' <=> Holds(table, e)
  BY <1>1, Zenon DEF Holds
<1>4. WellPlaced(table, tableSize, e)' <=> WellPlaced(table, tableSize, e)
  BY <1>1, Zenon DEF WellPlaced
<1>5. QED
  BY <1>2, <1>3, <1>4, Zenon

\* Every step keeps Placement.
LEMMA NextPlacement == IInv /\ Placement /\ [Next]_vars => Placement'
<1> SUFFICES ASSUME IInv, Placement, [Next]_vars PROVE Placement'
  OBVIOUS
<1>1. TypeOK /\ FreeListSound /\ ControlAgrees
  BY DEF IInv
<1>2. ASSUME NEW k \in Keys, NEW v \in Values, Set(k, v) PROVE Placement'
  <2>1. Place(k, v) /\ lost' = lost /\ pc' # "migrate"
    BY <1>2 DEF Set, resizeVars
  <2>2. QED
    BY <1>1, <2>1, PlacePlacement
<1>3. CASE FinishSet
  <2>1. arg[1] \in Keys /\ arg[2] \in Values
    BY <1>1, <1>3 DEF FinishSet, ControlAgrees
  <2>2. Place(arg[1], arg[2]) /\ lost' = lost /\ pc' # "migrate"
    BY <1>3 DEF FinishSet
  <2>3. QED
    BY <1>1, <2>1, <2>2, PlacePlacement
<1>4. ASSUME NEW k \in Keys, NEW v \in Values, Resize(k, v) PROVE Placement'
  BY <1>4, ResizePlacement
<1>5. CASE MigrateEntry
  BY <1>5, MigratePlacement
<1>6. CASE FinishResize
  BY <1>6, FinishResizePlacement
<1>7. ASSUME NEW k \in Keys, Del(k) PROVE Placement'
  BY <1>1, <1>7, DelPlacement, ZenonT(30)
<1>8. CASE ResizeThrows
  <2>1. UNCHANGED <<table, tableSize, pool, lost>> /\ pc' # "migrate"
    BY <1>8, SMTT(30) DEF ResizeThrows, storeVars
  <2>2. \A e : /\ Live(e)' <=> Live(e)
               /\ Holds(table, e)' <=> Holds(table, e)
               /\ WellPlaced(table, tableSize, e)' <=> WellPlaced(table, tableSize, e)
    BY <2>1, UnmovedPlaced, Zenon
  <2>3. \A e \in DOMAIN pool :
           Live(e) => /\ Holds(table, e) => WellPlaced(table, tableSize, e)
                      /\ e \notin lost => Holds(table, e)
    BY Zenon DEF Placement
  <2>4. QED
    BY <2>1, <2>2, <2>3, Zenon DEF Placement
<1>9. CASE \/ \E k \in Keys : Get(k)
           \/ UNCHANGED vars
  <2>1. UNCHANGED <<table, tableSize, pool, pc, lost, newTable, newTableSize, cursor>>
    BY <1>9, Zenon DEF Get, vars, storeVars, resizeVars
  <2>2. QED
    BY <2>1 DEF Placement, Live, Holds, WellPlaced, Ahead
<1>10. QED
  BY <1>2, <1>3, <1>4, <1>5, <1>6, <1>7, <1>8, <1>9 DEF Next

\* set(), del() and resize() keep every live entry that a table names where the
\* probes of its key meet it before an empty slot, for every hash function,
\* table size, bucket size and number of attempts.
THEOREM PlacementHolds == Spec => []Placement
<1>1. QED
  BY InitIInv, NextIInv, InitPlacement, NextPlacement, PTL DEF Spec

\* resize() strands no entry but those migrateEntry() reports it gave up on, and
\* nothing else strands one at all.
THEOREM NoEntryStranded == Spec => []LiveEntriesReachable
<1>1. Placement => LiveEntriesReachable
  BY DEF Placement, LiveEntriesReachable, WellPlaced, ReachedIn
<1>2. QED
  BY <1>1, PlacementHolds, PTL

\* set() never passes over an older copy of its key by stopping at an empty slot.
THEOREM KeyBeforeHoles == Spec => []NoHoleBeforeKey
<1>1. TypeOK /\ Placement => NoHoleBeforeKey
  <2> SUFFICES ASSUME TypeOK, Placement, NEW k \in Keys,
                      NEW p \in Probes, NEW q \in Probes,
                      IsFirst(p, Matches(k)), Before(q, p)
               PROVE  IndexAt(table, tableSize, k, q) # 0
    BY DEF NoHoleBeforeKey
  <2> DEFINE e == IndexAt(table, tableSize, k, p)
  <2>1. e # 0 /\ pool[e].key = k
    BY DEF IsFirst, Matches
  <2>2. e \in 0..(capacity - 1) /\ Holds(table, e)
    <3>1. e \in 0..(capacity - 1)
      BY IndexAtType DEF TypeOK
    <3>2. Holds(table, e)
      BY ProbeInTable, Zenon DEF TypeOK, Table, Holds, IndexAt
    <3>3. QED
      BY <3>1, <3>2
  <2> HIDE DEF e
  <2>3. e \in DOMAIN pool /\ Live(e)
    BY <2>1, <2>2, KeysAssumption DEF TypeOK, Live
  <2>4. WellPlaced(table, tableSize, e)
    BY <2>2, <2>3 DEF Placement
  <2>5. PICK r \in Probes :
            /\ IndexAt(table, tableSize, k, r) = e
            /\ \A t \in Probes : Before(t, r) => IndexAt(table, tableSize, k, t) # 0
    BY <2>1, <2>4 DEF WellPlaced
  <2>6. r \in Matches(k)
    BY <2>1, <2>5 DEF Matches
  <2>7. r = p \/ Before(p, r)
    BY <2>6 DEF IsFirst
  <2>8. Before(q, r)
    BY <2>7, ProbeOrder
  <2>9. QED
    BY <2>5, <2>8
<1>2. QED
  BY <1>1, TypeCorrect, PlacementHolds, PTL

\* The first of a set of probes is unique, so Lookup reads the slot get() does.
LEMMA FirstUnique ==
    ASSUME NEW S, S \subseteq Probes, NEW p \in Probes, IsFirst(p, S)
    PROVE  First(S) = p
<1>1. \A q : IsFirst(q, S) => q = p
  BY ProbeOrder DEF IsFirst
<1>2. QED
  BY <1>1 DEF First

\* Entry new holds k and v, in the slot of k's probe p, which is now the first
\* to meet k; every other probe meets the entry it met before.
Inserted(k, v, p, new) ==
    LET old == IndexAt(table, tableSize, k, p)
    IN  /\ old \in 0..(capacity - 1)
        /\ old # 0 => pool[old].key \in {NoKey, k}
        /\ Live(new) => new = old /\ pool[new].key = k
        /\ Live(old) => new = old
        /\ pool'[new] = [key |-> k, value |-> v]
        /\ \A e \in 1..(capacity - 1) : e # new => pool'[e] = pool[e]
        /\ \A l \in Keys, q \in Probes :
              LET e == IndexAt(table, tableSize, l, q)
                  d == IndexAt(table', tableSize', l, q)
              IN  /\ e \in 0..(capacity - 1) /\ (d = e \/ (d = new /\ e = old))
                  /\ l = k /\ q = p => d = new
        /\ IsFirst(p, Matches(k)')

\* What insertEntry() does, given the first slot it may take.
LEMMA InsertEffect ==
    ASSUME TypeOK, FreeListSound, NEW k \in Keys, NEW v \in Values,
           NEW p \in Probes, IsFirst(p, Claimable(k)), InsertEntry(k, v, p),
           tableSize' = tableSize
    PROVE  \E new \in 1..(capacity - 1) : Inserted(k, v, p, new)
<1>1. /\ tableSize \in Nat \ {0} /\ capacity \in Nat \ {0}
      /\ table \in Table(tableSize, capacity) /\ pool \in [1..(capacity - 1) -> Entry]
  BY DEF TypeOK
<1>3. p \in Claimable(k)
  BY DEF IsFirst
<1> DEFINE old == IndexAt(table, tableSize, k, p)
<1>4. PICK new \in 1..(capacity - 1) :
          /\ pool' = [pool EXCEPT ![new] = [key |-> k, value |-> v]]
          /\ table' = Put(table, tableSize, k, p, new)
          /\ ret' = Result("set", k, v, TRUE)
          /\ Live(new) => new = old /\ pool[new].key = k
          /\ Live(old) => new = old
  BY <1>3, InsertFacts, Zenon
<1>2. old \in 0..(capacity - 1) /\ (old # 0 => pool[old].key \in {NoKey, k})
  BY <1>1, <1>3, IndexAtType DEF Claimable
<1>5. ASSUME NEW l \in Keys, NEW q \in Probes
      PROVE  LET e == IndexAt(table, tableSize, l, q)
                 d == IndexAt(table', tableSize', l, q)
             IN  /\ e \in 0..(capacity - 1) /\ (d = e \/ (d = new /\ e = old))
                 /\ l = k /\ q = p => d = new
  BY <1>1, <1>4, PutIndexAt, IndexAtType
<1> HIDE DEF old
<1>7. pool'[new] = [key |-> k, value |-> v] /\ new # 0
      /\ \A e \in 1..(capacity - 1) : e # new => pool'[e] = pool[e]
  BY <1>1, <1>4
<1>8. ASSUME NEW q \in Probes, Before(q, p)
      PROVE  q \notin Matches(k)'
  <2> DEFINE e == IndexAt(table, tableSize, k, q)
  <2>1. Live(e) /\ pool[e].key # k
    BY <1>8, BeforeFirstClaimable, Zenon
  <2>2. e \in 0..(capacity - 1)
    BY <1>5
  <2>3. IndexAt(table', tableSize', k, q) = e
    BY <1>4, <1>5, <2>1
  <2> HIDE DEF e
  <2>4. e # new /\ e # 0
    BY <1>4, <2>1, Zenon DEF Live
  <2>5. e \in 1..(capacity - 1)
    BY <1>1, <2>2, <2>4
  <2>6. pool'[e].key # k
    BY <1>7, <2>1, <2>4, <2>5, Zenon
  <2>7. QED
    BY <2>3, <2>6 DEF Matches
<1>9. p \in Matches(k)' /\ Matches(k)' \subseteq Probes
  <2>1. IndexAt(table', tableSize', k, p) = new
    BY <1>5, Zenon
  <2>2. new # 0 /\ pool'[new].key = k
    BY <1>7
  <2>3. QED
    BY <2>1, <2>2, Zenon DEF Matches
<1>10. IsFirst(p, Matches(k)')
  BY <1>8, <1>9, ProbeOrder DEF IsFirst
<1>11. QED
  BY <1>2, <1>4, <1>5, <1>7, <1>10 DEF old, Inserted

\* After insertEntry() get() finds what was written.
LEMMA InsertIsFound ==
    ASSUME TypeOK, FreeListSound, NEW k \in Keys, NEW v \in Values,
           Place(k, v), ret'.ok
    PROVE  Lookup(k)' = v
<1>1. PICK p \in Probes : IsFirst(p, Claimable(k)) /\ InsertEntry(k, v, p)
  BY DEF Place, Result
<1>2. tableSize' = tableSize
  BY SMTT(30) DEF Place
<1>a. PICK new \in 1..(capacity - 1) : Inserted(k, v, p, new)
  BY <1>1, <1>2, InsertEffect, ZenonT(30)
<1>3. IsFirst(p, Matches(k)') /\ pool'[IndexAt(table', tableSize', k, p)].value = v
  <2>1. IsFirst(p, Matches(k)') /\ pool'[new] = [key |-> k, value |-> v]
    BY <1>a, Zenon DEF Inserted
  <2>2. IndexAt(table', tableSize', k, p) = new
    BY <1>a, Zenon DEF Inserted
  <2>3. [key |-> k, value |-> v].value = v
    OBVIOUS
  <2>4. QED
    BY <2>1, <2>2, <2>3, Zenon
<1>4. Matches(k)' # {} /\ Matches(k)' \subseteq Probes
  BY <1>3 DEF IsFirst, Matches
<1>5. First(Matches(k)') = p
  BY <1>3, <1>4, FirstUnique
<1>6. Lookup(k)' = pool'[IndexAt(table', tableSize', k, p)].value
  BY <1>4, <1>5 DEF Lookup
<1>7. QED
  BY <1>3, <1>6

\* A successful set() is read back by a get() that follows it at once, and a
\* del() that found nothing is followed by a get() that finds nothing.
THEOREM ReadsItsWrite == Spec => []ReadYourWrite
<1>1. Init => ReadYourWrite
  BY DEF Init, ReadYourWrite, Result
<1>2. IInv /\ ReadYourWrite /\ [Next]_vars => ReadYourWrite'
  <2> SUFFICES ASSUME IInv, ReadYourWrite, [Next]_vars PROVE ReadYourWrite'
    OBVIOUS
  <2>1. ASSUME NEW k \in Keys, NEW v \in Values, Place(k, v) PROVE ReadYourWrite'
    <3>1. ret'.op = "set" /\ ret'.key = k /\ ret'.value = v
      BY <2>1 DEF Place, InsertEntry, Result
    <3>2. ret'.ok => Lookup(k)' = v
      BY <2>1, InsertIsFound DEF IInv
    <3>3. Lookup(ret.key)' = Lookup(k)'
      BY <3>1
    <3>4. QED
      BY <3>1, <3>2, <3>3, SMTT(30) DEF ReadYourWrite
  <2>2. ASSUME NEW k \in Keys, Del(k) PROVE ReadYourWrite'
    <3>1. CASE ret' = Result("del", k, NoValue, TRUE)
      BY <3>1 DEF ReadYourWrite, Result
    <3>2. CASE /\ Matches(k) = {} /\ ret' = Result("del", k, NoValue, FALSE)
               /\ UNCHANGED <<pool, table, tableSize>>
      <4>1. Matches(k)' = {}
        BY <3>2 DEF Matches
      <4>2. ret'.key = k /\ ret'.op = "del"
        BY <3>2 DEF Result
      <4>3. Lookup(ret.key)' = NoValue
        BY <4>1, <4>2 DEF Lookup
      <4>4. QED
        BY <4>2, <4>3 DEF ReadYourWrite
    <3>3. QED
      BY <2>2, <3>1, <3>2, Zenon DEF Del
  <2>3. ASSUME NEW k \in Keys, Get(k) PROVE ReadYourWrite'
    BY <2>3 DEF Get, Result, ReadYourWrite
  <2>4. CASE pc' # "idle"
    BY <2>4, SMTT(30) DEF ReadYourWrite
  <2>5. CASE UNCHANGED vars
    BY <2>5, Zenon DEF vars, storeVars, ReadYourWrite, Lookup, Matches
  <2>6. CASE FinishSet
    <3>1. arg[1] \in Keys /\ arg[2] \in Values /\ Place(arg[1], arg[2])
      BY <2>6 DEF FinishSet, IInv, ControlAgrees
    <3>2. QED
      BY <2>1, <3>1
  <2>7. QED
    BY <2>1, <2>2, <2>3, <2>4, <2>5, <2>6, Zenon
       DEF Next, Set, Resize, ResizeThrows, MigrateEntry, FinishResize
<1>3. QED
  BY <1>1, <1>2, Invariance, PTL DEF Spec

-----------------------------------------------------------------------------
(* Where calcIndex() leads in a table of prime size.  Two attempts i and j *)
(* that meet make the size divide (i - j) * (i + j); a prime then divides  *)
(* one of the factors, and both are too small for that.                    *)

\* Of some natural numbers one is the least.
LEMMA LeastNumber ==
    ASSUME NEW T \in SUBSET Nat, T # {}
    PROVE  \E x \in T : \A y \in T : x <= y
<1>. DEFINE R == OpToRel(<, Nat)
<1>1. IsWellFoundedOn(R, Nat)
    BY NatLessThanWellFounded, Zenon
<1>. HIDE DEF R
<1>2. \E x \in T : \A y \in T : ~ (<<y, x>> \in R)
    BY <1>1, WFMin, Zenon
<1>3. PICK x \in T : \A y \in T : ~ (<<y, x>> \in R)
    BY <1>2
<1>4. ASSUME NEW y \in T, y < x PROVE FALSE
  <2>1. <<y, x>> \in R
    BY <1>4 DEF R, OpToRel
  <2>. QED BY <1>3, <2>1
<1>. QED BY <1>4

\* Quotient and remainder.
Divided(a, n, q, r) == q \in Nat /\ r \in 0..(n - 1) /\ a = n * q + r

LEMMA Division ==
    ASSUME NEW a \in Nat, NEW n \in Nat \ {0}
    PROVE  Divided(a, n, a \div n, a % n)
<1>. DEFINE q == a \div n
            r == a % n
            m == n * q
<1>1. q \in Nat
    OBVIOUS
<1>2. r \in 0..(n - 1)
    OBVIOUS
<1>3. a - m = r
    OBVIOUS
<1>4. m \in Int
    BY <1>1
<1>. HIDE DEF q, r, m
<1>5. a = m + r
    BY <1>2, <1>3, <1>4
<1>6. Divided(a, n, q, r)
    BY <1>1, <1>2, <1>5, Zenon DEF Divided, m
<1>. QED BY <1>6, Zenon DEF q, r

\* Nothing between 0 and n is a multiple of n.
Multiple(n, x) == \E q \in Int : x = n * q

LEMMA NoneBetween ==
    ASSUME NEW n \in Nat \ {0}, NEW x \in 1..(n - 1)
    PROVE  ~Multiple(n, x)
BY DEF Multiple

\* A prime that divides a product divides one of the factors.
LEMMA Euclid ==
    ASSUME NEW n \in Nat, IsPrime(n), NEW a \in 1..(n - 1), NEW b \in 1..(n - 1)
    PROVE  ~Multiple(n, a * b)
<1>. DEFINE T == {c \in 1..(n - 1) : Multiple(n, c * b)}
<1>1. SUFFICES ASSUME Multiple(n, a * b) PROVE FALSE
    OBVIOUS
<1>2. T \in SUBSET Nat /\ T # {}
  <2>1. a \in T
    BY <1>1, Zenon
  <2>2. T \subseteq 1..(n - 1) /\ 1..(n - 1) \subseteq Nat
    OBVIOUS
  <2>. HIDE DEF T
  <2>. QED BY <2>1, <2>2, Zenon
<1>3. PICK m \in T : \A y \in T : m <= y
    BY <1>2, LeastNumber, Zenon
<1>4. m \in 1..(n - 1) /\ Multiple(n, m * b)
    OBVIOUS
<1>5. PICK k \in Int : m * b = n * k
    BY <1>4 DEF Multiple
<1>. DEFINE q == n \div m
            r == n % m
<1>6. q \in Nat /\ r \in 0..(m - 1) /\ n = m * q + r
  <2>1. m \in Nat \ {0}
    BY <1>4
  <2>. QED BY <2>1, Division, Zenon DEF Divided
<1>7. CASE r = 0
  <2>1. m = 1
    BY <1>4, <1>7 DEF IsPrime
  <2>2. Multiple(n, b)
    BY <1>4, <2>1
  <2>. QED BY <2>2, NoneBetween DEF IsPrime
<1>8. CASE r # 0
  <2>. HIDE DEF q, r, T
  <2>1. r \in 1..(n - 1) /\ r < m
    BY <1>4, <1>6, <1>8
  <2>2. r * b = n * (b - q * k)
    <3>1. n * b = (m * q + r) * b
      BY <1>6
    <3>2. (m * q + r) * b = q * (m * b) + r * b
      BY <1>4, <1>6
    <3>3. q * (m * b) = q * (n * k)
      BY <1>5
    <3>4. q * (n * k) = n * (q * k)
      BY <1>6
    <3>5. n * (b - q * k) = n * b - n * (q * k)
      BY <1>6
    <3>. DEFINE x == n * b
                y == r * b
                z == n * (q * k)
    <3>6. x \in Int /\ y \in Int /\ z \in Int
      BY <1>6, <2>1
    <3>7. x = z + y
      BY <3>1, <3>2, <3>3, <3>4
    <3>. HIDE DEF x, y, z
    <3>8. y = x - z
      BY <3>6, <3>7
    <3>. QED BY <3>5, <3>8 DEF x, y, z
  <2>3. b - q * k \in Int
    BY <1>6
  <2>4. Multiple(n, r * b)
    BY <2>2, <2>3 DEF Multiple
  <2>5. r \in T
    BY <2>1, <2>4 DEF T
  <2>. QED BY <1>3, <1>4, <2>1, <2>5
<1>. QED BY <1>6, <1>7, <1>8

\* The attempts of calcIndex() up to half a prime size do not meet.
LEMMA PrimeSpreads ==
    ASSUME NEW n \in Nat, IsPrime(n), NEW h \in Nat,
           NEW i \in 0..(n \div 2), NEW j \in 0..(n \div 2), j < i
    PROVE  calcIndex(h, i, n) # calcIndex(h, j, n)
<1>1. n \in Nat \ {0} /\ n > 1
    BY DEF IsPrime
<1>2. i \in Nat /\ j \in Nat /\ i + j \in 1..(n - 1) /\ i - j \in 1..(n - 1)
    BY <1>1
<1>. DEFINE a == h + i * i
            b == h + j * j
            r == a % n
            p == a \div n
            q == b \div n
<1>3. a \in Nat /\ b \in Nat
    BY <1>2
<1>. SUFFICES ASSUME r = b % n PROVE FALSE
    BY DEF calcIndex
<1>4. p \in Nat /\ q \in Nat /\ r \in 0..(n - 1) /\ a = n * p + r /\ b = n * q + r
  <2>. HIDE DEF a, b
  <2>. QED BY <1>1, <1>3, Division, Zenon DEF Divided
<1>5. a - b = n * (p - q)
  <2>. HIDE DEF a, b, r, p, q
  <2>. QED BY <1>1, <1>3, <1>4
<1>6. a - b = (i - j) * (i + j)
    BY <1>2
<1>. HIDE DEF a, b, p, q, r
<1>7. Multiple(n, (i - j) * (i + j))
  <2>1. p - q \in Int
    BY <1>4
  <2>. QED BY <1>5, <1>6, <2>1, Zenon DEF Multiple
<1>. QED BY <1>2, <1>7, Euclid, Zenon

\* In a table of prime size no two attempts up to half of it probe the same
\* bucket, for every hash and every size.
THEOREM ProbesMeetDistinctBuckets == Spec => []ProbesSpread
<1>1. TypeOK => ProbesSpread
  <2> SUFFICES ASSUME TypeOK, IsPrime(tableSize), NEW k \in Keys,
                      NEW i \in 0..(tableSize \div 2), NEW j \in 0..(tableSize \div 2),
                      calcIndex(Hash[k], i, tableSize) = calcIndex(Hash[k], j, tableSize)
               PROVE  i = j
    BY DEF ProbesSpread
  <2>1. tableSize \in Nat /\ Hash[k] \in Nat
    BY HashAssumption DEF TypeOK
  <2>2. ~(j < i) /\ ~(i < j)
    BY <2>1, PrimeSpreads
  <2>3. i \in Int /\ j \in Int
    BY <2>1
  <2>4. QED
    BY <2>2, <2>3
<1>2. QED
  BY <1>1, TypeCorrect, PTL

=============================================================================
