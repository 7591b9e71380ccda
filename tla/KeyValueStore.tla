--------------------------- MODULE KeyValueStore ---------------------------
(***************************************************************************)
(* The hash table and entry pool of one shard (kvs.hpp, kvs.cpp).          *)
(*                                                                         *)
(* A store is used by one thread, so an operation is one step, except a    *)
(* set() that finds the table too full: its resize() walks the old table   *)
(* slot by slot, and each slot is a step of its own.  While it runs no     *)
(* other operation is enabled.                                             *)
(*                                                                         *)
(* The free list, a chain of nextFree links in the code, is the sequence   *)
(* of the indices on it; its last element is freeListHead.                 *)
(***************************************************************************)
EXTENDS Integers, Sequences, FiniteSets

CONSTANTS
    Keys, Values,
    NoKey,      \* nullptr in Entry::key: the entry is dead
    NoValue,    \* nullptr in Entry::value, and what get() answers on a miss
    Hash,       \* hashFunc, on Keys
    InitialSize,
    UsePrimeNumbers,
    Primes,     \* what successive calls of primegen.PopNext() return
    MaxTableSize,   \* bound on doubling, when prime numbers are not used
    BUCKET_SIZE, MAX_READ_WRITE_ATTEMPTS

RESIZE_THRESHOLD_PERCENTAGE == 70

ASSUME KeysAssumption == NoKey \notin Keys /\ NoValue \notin Values
ASSUME HashAssumption == Hash \in [Keys -> Nat]
ASSUME SizesAssumption ==
    /\ InitialSize \in Nat /\ InitialSize >= 2
    /\ BUCKET_SIZE \in Nat \ {0}
    /\ MAX_READ_WRITE_ATTEMPTS \in Nat \ {0}
    /\ UsePrimeNumbers \in BOOLEAN
    /\ MaxTableSize \in Nat
\* initGenerator() queues ever larger numbers, the first at least 2 * 2053.
ASSUME PrimesAssumption ==
    /\ Primes \in Seq(Nat)
    /\ \A i \in 1..Len(Primes) :
          Primes[i] > (IF i = 1 THEN InitialSize ELSE Primes[i - 1])

VARIABLES
    table,        \* bucket -> slot -> index of an entry of the pool, or 0
    tableSize,
    pool,         \* index -> Entry; index 0 is never used
    capacity,
    freeList,
    numEntries,
    popped,       \* how many numbers were taken from primegen
    isResizing,
    pc,           \* where the thread is: "idle" between operations
    arg,          \* key and value of the set() that is resizing
    newTable, newTableSize,
    cursor,       \* <<bucket, slot>> of the old table to migrate next
    lost,         \* history: entries resize() could not place
    ret           \* what the last operation returned

storeVars == <<table, tableSize, pool, capacity, freeList, numEntries>>
resizeVars == <<popped, isResizing, arg, newTable, newTableSize, cursor, lost>>
vars == <<storeVars, resizeVars, pc, ret>>

-----------------------------------------------------------------------------
Entry == [key : Keys \cup {NoKey}, value : Values \cup {NoValue}]
DeadEntry == [key |-> NoKey, value |-> NoValue]

Slots == 0..(BUCKET_SIZE - 1)
Table(size, cap) == [0..(size - 1) -> [Slots -> 0..(cap - 1)]]
EmptyTable(size) == [b \in 0..(size - 1) |-> [s \in Slots |-> 0]]

\* Seeded fault: the chain misses its first entry.
ChainSkipsFirst(lo, hi) == [i \in 1..(hi - lo) |-> hi + 1 - i]
\* The chain lo -> lo+1 -> ... -> hi, as a free list whose head is lo.
Chain(lo, hi) == [i \in 1..(hi - lo + 1) |-> hi + 1 - i]

Threshold(size) == (size * RESIZE_THRESHOLD_PERCENTAGE) \div 100

\* Seeded fault: triangular probing whose steps are not halved.
calcIndexTriangular(hash, attempt, size) == (hash + attempt * (attempt + 1)) % size
calcIndex(hash, attempt, size) == (hash + attempt * attempt) % size

\* The slots an operation on a key visits, in order of attempt, then slot.
Probes == (0..(MAX_READ_WRITE_ATTEMPTS - 1)) \X Slots
Before(p, q) == p[1] < q[1] \/ (p[1] = q[1] /\ p[2] < q[2])
IsFirst(p, S) == p \in S /\ \A q \in S : q = p \/ Before(p, q)

IndexAt(tbl, size, k, p) == tbl[calcIndex(Hash[k], p[1], size)][p[2]]
Put(tbl, size, k, p, e) ==
    [tbl EXCEPT ![calcIndex(Hash[k], p[1], size)] =
                    [@ EXCEPT ![p[2]] = e]]

Live(e) == e # 0 /\ pool[e].key # NoKey

\* Seeded fault: get() and del() try one bucket less than set().
MatchesOneShort(k) ==
    {p \in Probes : LET e == IndexAt(table, tableSize, k, p)
                    IN  /\ p[1] < MAX_READ_WRITE_ATTEMPTS - 1
                        /\ e # 0 /\ pool[e].key = k}
\* Where get() and del() find a key; the first of these is the one they use.
Matches(k) ==
    {p \in Probes : LET e == IndexAt(table, tableSize, k, p)
                    IN  e # 0 /\ pool[e].key = k}
\* Where set() may write: an empty slot, a dead entry, or the key itself.
Claimable(k) ==
    {p \in Probes : LET e == IndexAt(table, tableSize, k, p)
                    IN  e # 0 => pool[e].key \in {NoKey, k}}
\* Seeded fault: migrateEntry() does not look whether the slot is taken.
HolesAnywhere(k) == Probes
\* Where migrateEntry() may write in the new table.
Holes(k) == {p \in Probes : IndexAt(newTable, newTableSize, k, p) = 0}

\* What a get() issued now would answer.
First(S) == CHOOSE p \in S : IsFirst(p, S)
Lookup(k) ==
    IF Matches(k) = {} THEN NoValue
    ELSE pool[IndexAt(table, tableSize, k, First(Matches(k)))].value

Result(op, k, v, ok) == [op |-> op, key |-> k, value |-> v, ok |-> ok]

-----------------------------------------------------------------------------
Init ==
    /\ table = EmptyTable(InitialSize)
    /\ tableSize = InitialSize
    /\ pool = [e \in 1..(InitialSize - 1) |-> DeadEntry]
    /\ capacity = InitialSize
    /\ freeList = Chain(1, InitialSize - 1)
    /\ numEntries = 0
    /\ popped = 0
    /\ isResizing = FALSE
    /\ pc = "idle"
    /\ arg = <<NoKey, NoValue>>
    /\ newTable = EmptyTable(0)
    /\ newTableSize = 0
    /\ cursor = <<0, 0>>
    /\ lost = {}
    /\ ret = Result("none", NoKey, NoValue, FALSE)

\* Seeded fault: set() deallocates whatever entry it finds, dead ones too.
InsertEntryFreesDead(k, v, p) ==
    LET old  == IndexAt(table, tableSize, k, p)
        free == IF old # 0 THEN Append(freeList, old) ELSE freeList
        new  == free[Len(free)]
    IN  /\ free # <<>>
        /\ pool' = [pool EXCEPT ![new] = [key |-> k, value |-> v]]
        /\ freeList' = SubSeq(free, 1, Len(free) - 1)
        /\ table' = Put(table, tableSize, k, p, new)
        /\ numEntries' = numEntries + 1
        /\ ret' = Result("set", k, v, TRUE)

\* insertEntry() into the slot of probe p, after the deallocate() of the entry
\* found there when it is the key's own.
InsertEntry(k, v, p) ==
    LET old  == IndexAt(table, tableSize, k, p)
        mine == old # 0 /\ pool[old].key = k
        free == IF mine THEN Append(freeList, old) ELSE freeList
        new  == free[Len(free)]
    IN  /\ free # <<>>
        /\ pool' = [pool EXCEPT ![new] = [key |-> k, value |-> v]]
        /\ freeList' = SubSeq(free, 1, Len(free) - 1)
        /\ table' = Put(table, tableSize, k, p, new)
        /\ numEntries' = numEntries + 1
        /\ ret' = Result("set", k, v, TRUE)

\* The probing loop of set().
Place(k, v) ==
    /\ UNCHANGED <<tableSize, capacity>>
    /\ \/ \E p \in Probes : IsFirst(p, Claimable(k)) /\ InsertEntry(k, v, p)
       \/ /\ Claimable(k) = {}
          /\ ret' = Result("set", k, v, FALSE)
          /\ UNCHANGED <<table, pool, freeList, numEntries>>

MustResize == numEntries >= Threshold(tableSize) /\ ~isResizing

\* set() on a table with room.
Set(k, v) ==
    /\ pc = "idle"
    /\ ~MustResize
    /\ Place(k, v)
    /\ UNCHANGED <<resizeVars, pc>>

\* set() on a full table, up to the first slot to migrate: the pool grows and
\* its free list becomes the chain of the new entries only.
Resize(k, v) ==
    LET size == IF UsePrimeNumbers THEN Primes[popped + 1] ELSE tableSize * 2
    IN  /\ pc = "idle"
        /\ MustResize
        /\ IF UsePrimeNumbers THEN popped < Len(Primes) ELSE size <= MaxTableSize
        /\ pc' = "migrate"
        /\ isResizing' = TRUE
        /\ arg' = <<k, v>>
        /\ popped' = IF UsePrimeNumbers THEN popped + 1 ELSE popped
        /\ pool' = [e \in 1..(size - 1) |->
                       IF e < capacity THEN pool[e] ELSE DeadEntry]
        /\ freeList' = Chain(capacity, size - 1)
        /\ capacity' = size
        /\ newTable' = EmptyTable(size)
        /\ newTableSize' = size
        /\ cursor' = <<0, 0>>
        /\ UNCHANGED <<table, tableSize, numEntries, lost, ret>>

\* set() on a full table once the generator is exhausted: PopNext() throws
\* inside resize(), and nothing between it and the request loop's coroutine
\* catches the exception.
ResizeThrows ==
    /\ pc = "idle"
    /\ MustResize
    /\ UsePrimeNumbers /\ popped = Len(Primes)
    /\ pc' = "threw"
    /\ isResizing' = TRUE
    /\ UNCHANGED <<storeVars, popped, arg, newTable, newTableSize, cursor,
                   lost, ret>>

After(c) == IF c[2] + 1 < BUCKET_SIZE THEN <<c[1], c[2] + 1>> ELSE <<c[1] + 1, 0>>

\* One iteration of resize()'s loops, with migrateEntry() of what it finds.
MigrateEntry ==
    LET e == table[cursor[1]][cursor[2]]
        k == pool[e].key
    IN  /\ pc = "migrate"
        /\ cursor[1] < tableSize
        /\ cursor' = After(cursor)
        /\ \/ /\ ~Live(e)
              /\ UNCHANGED <<newTable, lost>>
           \/ /\ Live(e)
              /\ \E p \in Probes :
                    /\ IsFirst(p, Holes(k))
                    /\ newTable' = Put(newTable, newTableSize, k, p, e)
              /\ UNCHANGED lost
           \/ /\ Live(e)
              /\ Holes(k) = {}
              /\ lost' = lost \cup {e}
              /\ UNCHANGED newTable
        /\ UNCHANGED <<storeVars, popped, isResizing, arg, newTableSize, pc, ret>>

\* Seeded fault: isResizing is left set.
FinishResizeKeepsFlag ==
    /\ pc = "migrate"
    /\ cursor[1] = tableSize
    /\ table' = newTable
    /\ tableSize' = newTableSize
    /\ newTable' = EmptyTable(0)
    /\ newTableSize' = 0
    /\ cursor' = <<0, 0>>
    /\ pc' = "insert"
    /\ UNCHANGED <<isResizing, pool, capacity, freeList, numEntries, popped,
                   arg, lost, ret>>

\* Seeded fault: the loop over the old table stops one bucket early.
FinishResizeEarly ==
    /\ pc = "migrate"
    /\ cursor[1] = tableSize - 1
    /\ table' = newTable
    /\ tableSize' = newTableSize
    /\ newTable' = EmptyTable(0)
    /\ newTableSize' = 0
    /\ cursor' = <<0, 0>>
    /\ isResizing' = FALSE
    /\ pc' = "insert"
    /\ UNCHANGED <<pool, capacity, freeList, numEntries, popped, arg, lost, ret>>

\* The end of resize(): the new table takes the place of the old one.
FinishResize ==
    /\ pc = "migrate"
    /\ cursor[1] = tableSize
    /\ table' = newTable
    /\ tableSize' = newTableSize
    /\ newTable' = EmptyTable(0)
    /\ newTableSize' = 0
    /\ cursor' = <<0, 0>>
    /\ isResizing' = FALSE
    /\ pc' = "insert"
    /\ UNCHANGED <<pool, capacity, freeList, numEntries, popped, arg, lost, ret>>

\* The set() that caused the resize goes on.
FinishSet ==
    /\ pc = "insert"
    /\ Place(arg[1], arg[2])
    /\ pc' = "idle"
    /\ arg' = <<NoKey, NoValue>>
    /\ UNCHANGED <<popped, isResizing, newTable, newTableSize, cursor, lost>>

\* Seeded fault: get() stops at a dead entry instead of passing over it.
GetStopsAtDead(k) ==
    LET Dead == {p \in Probes : LET e == IndexAt(table, tableSize, k, p)
                                IN  e # 0 /\ pool[e].key = NoKey}
        Seen == {p \in Matches(k) : \A q \in Dead : Before(p, q)}
    IN  /\ pc = "idle"
        /\ \/ \E p \in Probes :
                 LET e == IndexAt(table, tableSize, k, p)
                 IN  /\ IsFirst(p, Seen)
                     /\ ret' = Result("get", k, pool[e].value, TRUE)
           \/ /\ Seen = {}
              /\ ret' = Result("get", k, NoValue, FALSE)
        /\ UNCHANGED <<storeVars, resizeVars, pc>>

Get(k) ==
    /\ pc = "idle"
    /\ \/ \E p \in Probes :
             LET e == IndexAt(table, tableSize, k, p)
             IN  /\ IsFirst(p, Matches(k))
                 /\ ret' = Result("get", k, pool[e].value, TRUE)
       \/ /\ Matches(k) = {}
          /\ ret' = Result("get", k, NoValue, FALSE)
    /\ UNCHANGED <<storeVars, resizeVars, pc>>

\* Seeded fault: del() empties the slot as well.
DelEmptiesSlot(k) ==
    /\ pc = "idle"
    /\ \/ \E p \in Probes :
             LET e == IndexAt(table, tableSize, k, p)
             IN  /\ IsFirst(p, Matches(k))
                 /\ pool' = [pool EXCEPT ![e] = DeadEntry]
                 /\ freeList' = Append(freeList, e)
                 /\ table' = Put(table, tableSize, k, p, 0)
                 /\ ret' = Result("del", k, NoValue, TRUE)
       \/ /\ Matches(k) = {}
          /\ ret' = Result("del", k, NoValue, FALSE)
          /\ UNCHANGED <<table, pool, freeList>>
    /\ UNCHANGED <<tableSize, capacity, numEntries, resizeVars, pc>>

\* del() frees the pool entry; the table slot keeps its index.
Del(k) ==
    /\ pc = "idle"
    /\ \/ \E p \in Probes :
             LET e == IndexAt(table, tableSize, k, p)
             IN  /\ IsFirst(p, Matches(k))
                 /\ pool' = [pool EXCEPT ![e] = DeadEntry]
                 /\ freeList' = Append(freeList, e)
                 /\ ret' = Result("del", k, NoValue, TRUE)
       \/ /\ Matches(k) = {}
          /\ ret' = Result("del", k, NoValue, FALSE)
          /\ UNCHANGED <<pool, freeList>>
    /\ UNCHANGED <<table, tableSize, capacity, numEntries, resizeVars, pc>>

Next ==
    \/ \E k \in Keys, v \in Values : Set(k, v) \/ Resize(k, v)
    \/ ResizeThrows
    \/ MigrateEntry
    \/ FinishResize
    \/ FinishSet
    \/ \E k \in Keys : Get(k) \/ Del(k)

Spec == Init /\ [][Next]_vars

-----------------------------------------------------------------------------
(* Types: every slot of a table holds 0 or an index of the present pool.   *)
TypeOK ==
    /\ tableSize \in Nat \ {0}
    /\ capacity \in Nat \ {0}
    /\ table \in Table(tableSize, capacity)
    /\ pool \in [1..(capacity - 1) -> Entry]
    /\ freeList \in Seq(1..(capacity - 1))
    /\ numEntries \in Nat
    /\ popped \in 0..Len(Primes)
    /\ isResizing \in BOOLEAN
    /\ pc \in {"idle", "migrate", "insert", "threw"}
    /\ arg \in (Keys \cup {NoKey}) \X (Values \cup {NoValue})
    /\ newTableSize \in Nat
    /\ newTable \in Table(newTableSize, capacity)
    /\ cursor \in (0..tableSize) \X Slots
    /\ lost \subseteq 1..(capacity - 1)
    /\ ret \in [op : {"none", "set", "get", "del"}, key : Keys \cup {NoKey},
                value : Values \cup {NoValue}, ok : BOOLEAN]

\* The size the pool has after the numbers taken so far from the generator.
SizeAfter(n) == IF n = 0 THEN InitialSize ELSE Primes[n]

\* The pool and the table in use, or being built, have the same size, and it
\* is what the generator gave last.
SizesAgree ==
    /\ capacity = IF pc = "migrate" THEN newTableSize ELSE tableSize
    /\ pc = "migrate" => tableSize < newTableSize
    /\ capacity >= InitialSize
    /\ UsePrimeNumbers => capacity = SizeAfter(popped)

\* The control state of resize() and of the set() that called it.
ControlAgrees ==
    /\ isResizing <=> pc \in {"migrate", "threw"}
    /\ pc \in {"migrate", "insert"} => arg \in Keys \X Values

\* The free list is long enough for the insertions that may still happen
\* before the next resize, the one in progress included.
FreeListSuffices ==
    /\ Len(freeList) >= Threshold(capacity) - numEntries
    /\ pc \in {"migrate", "insert"} => Len(freeList) >= 1

\* An entry is on the free list at most once, and never while it holds a key:
\* allocate() hands no live entry out a second time, although del() leaves the
\* index of a freed entry in the table, where later calls find it again.
FreeListSound ==
    /\ \A i, j \in DOMAIN freeList : freeList[i] = freeList[j] => i = j
    /\ \A i \in DOMAIN freeList : pool[freeList[i]] = DeadEntry

\* allocate() never meets an empty free list, so its own expandPool(), fed by
\* a generator that knows nothing of the table's resizes, never runs.  This
\* holds because every resize grows the pool by as much as the table, and
\* numEntries counts insertions, which del() does not take back.
AllocateFindsEntry ==
    (pc = "insert" \/ (pc = "idle" /\ ~MustResize)) => freeList # <<>>

\* What the proofs show to be inductive.
IInv == TypeOK /\ SizesAgree /\ ControlAgrees /\ FreeListSuffices /\ FreeListSound

\* An entry that holds a key can be reached by the probes of that key in the
\* table in use, unless migrateEntry() gave up on it: no other operation
\* strands an entry, however many resizes move it.
ReachedIn(tbl, size, e) ==
    \E p \in Probes : IndexAt(tbl, size, pool[e].key, p) = e
LiveEntriesReachable ==
    \A e \in DOMAIN pool :
        Live(e) /\ e \notin lost => ReachedIn(table, tableSize, e)

\* Right after set() returned true get() finds the value just written, and
\* right after del() returned false it finds nothing, whatever stale or
\* duplicated slots earlier operations left behind.
ReadYourWrite ==
    pc = "idle" =>
        /\ ret.op = "set" /\ ret.ok => Lookup(ret.key) = ret.value
        /\ ret.op = "del" /\ ~ret.ok => Lookup(ret.key) = NoValue

\* kvs_test.cpp:145-146: once del() of a key returned true, get() of that key
\* answers nullptr.
DeletedIsGone ==
    pc = "idle" /\ ret.op = "del" /\ ret.ok => Lookup(ret.key) = NoValue

\* A key is never found behind an empty slot: set() takes the first slot it may
\* write, migrateEntry() the first hole, and del() empties none.  So a set() that
\* stops at an empty slot has not passed over the key, and only the slots of
\* deleted entries can make it store a key twice.
NoHoleBeforeKey ==
    \A k \in Keys : \A p, q \in Probes :
        IsFirst(p, Matches(k)) /\ Before(q, p) => IndexAt(table, tableSize, k, q) # 0

\* Some slot of a table names the entry.
Holds(tbl, e) == \E b \in DOMAIN tbl, s \in Slots : tbl[b][s] = e
\* The entry stands on the probes of its key with no empty slot before it.
WellPlaced(tbl, size, e) ==
    \E p \in Probes :
        /\ IndexAt(tbl, size, pool[e].key, p) = e
        /\ \A q \in Probes :
              Before(q, p) => IndexAt(tbl, size, pool[e].key, q) # 0
\* resize() has still to come to a slot that names the entry.
Ahead(e) ==
    \E b \in DOMAIN table, s \in Slots :
        table[b][s] = e /\ ~Before(<<b, s>>, cursor)

\* A live entry that a table names anywhere, be it by a slot it was left in
\* under another key, also stands where the probes of its present key meet it
\* before any empty slot.  While resize() runs the same holds of the new table,
\* which names nothing the old one does not, and every live entry is named there,
\* was given up, or is still to come.
Placement ==
    /\ \A e \in DOMAIN pool :
          Live(e) => /\ Holds(table, e) => WellPlaced(table, tableSize, e)
                     /\ e \notin lost => Holds(table, e)
    /\ pc = "migrate" =>
          \A e \in DOMAIN pool :
              Live(e) => /\ Holds(newTable, e) =>
                               Holds(table, e) /\ WellPlaced(newTable, newTableSize, e)
                         /\ e \notin lost => Holds(newTable, e) \/ Ahead(e)

\* In a table of prime size, as initGenerator() means them to be, the attempts
\* of calcIndex() up to half the size meet different buckets whatever the hash:
\* no attempt of set(), get() or del() is spent on a bucket seen before.
IsPrime(n) == n > 1 /\ \A d \in 2..(n - 1) : n % d # 0
ProbesSpread ==
    IsPrime(tableSize) =>
        \A k \in Keys, i, j \in 0..(tableSize \div 2) :
            calcIndex(Hash[k], i, tableSize) = calcIndex(Hash[k], j, tableSize) => i = j

-----------------------------------------------------------------------------
(* What a caller of the store may rely on: see VersionedMap.               *)

\* The probes of a key that meet an entry of it which no earlier one has met.
Firsts(k) ==
    {p \in Matches(k) :
        \A q \in Matches(k) :
            IndexAt(table, tableSize, k, q) = IndexAt(table, tableSize, k, p)
                => q = p \/ Before(p, q)}

\* s lists the probes of F in their order.
Lists(s, F) ==
    /\ \A i, j \in DOMAIN s : i < j => Before(s[i], s[j])
    /\ F = {s[i] : i \in DOMAIN s}
InOrder(F) == CHOOSE s \in [1..Cardinality(F) -> F] : Lists(s, F)

\* The versions of a key: the values of its entries, in the order in which the
\* key's probes first meet them.
Versions(k) ==
    LET sorted == InOrder(Firsts(k))
    IN  [i \in DOMAIN sorted |-> pool[IndexAt(table, tableSize, k, sorted[i])].value]

VM == INSTANCE VersionedMap WITH versions <- [k \in Keys |-> Versions(k)]

\* Every operation of the store acts on the stack of versions of its own key
\* as VersionedMap says, and a resize() only reorders or drops versions: stale
\* slots, entries that change hands and slots that name one entry twice are
\* never seen by a caller in any other way.
RefinesVersionedMap == VM!Spec
=============================================================================
