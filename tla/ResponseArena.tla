--------------------------- MODULE ResponseArena ---------------------------
(***************************************************************************)
(* The inline storage of RESP responses: RespInlineArena and the packets   *)
(* that hold its slots.  The arena belongs to the request thread; the      *)
(* capacity it is to have is a global that any thread may set at any time. *)
(* A new capacity is taken over by replacing the storage, which must not   *)
(* happen under a packet whose data pointer leads into it.                 *)
(*                                                                         *)
(* A storage is known by its slot size: a reset always changes it.         *)
(***************************************************************************)
EXTENDS Integers, FiniteSets

CONSTANTS Packets,             \* the ResponsePacket objects
          RESP_INLINE_SLOTS,
          Capacities,          \* what setRespInlineCapacity() is given
          Lengths              \* sizes of responses

ASSUME ArenaAssumption ==
    /\ IsFiniteSet(Packets)
    /\ RESP_INLINE_SLOTS \in Nat \ {0}
    /\ Capacities \subseteq Nat /\ Capacities # {}
    /\ Lengths \subseteq Nat

Slots == 0..(RESP_INLINE_SLOTS - 1)
RESP_INLINE_INVALID == RESP_INLINE_SLOTS

VARIABLES respInlineCapacity,  \* g_respInlineCapacity
          arena,               \* slotSize, freelist and freeCount
          inlineIndex,         \* of each packet
          base,                \* the storage each packet's data leads into
          size                 \* of each packet's data

arenaVars == <<respInlineCapacity, arena, inlineIndex, base, size>>

sanitizeCapacity(c) == IF c = 0 THEN 1 ELSE c

resetStorage(c) == [slotSize  |-> c,
                    freelist  |-> [i \in Slots |-> RESP_INLINE_SLOTS - 1 - i],
                    freeCount |-> RESP_INLINE_SLOTS]

\* Seeded fault: the storage is replaced while slots of it are in use.
ensureCapacityAtOnce(a) ==
    IF respInlineCapacity # a.slotSize
    THEN [slotSize |-> respInlineCapacity, freelist |-> a.freelist, freeCount |-> a.freeCount]
    ELSE a

ensureCapacity(a) ==
    IF respInlineCapacity # a.slotSize /\ a.freeCount = RESP_INLINE_SLOTS
    THEN resetStorage(respInlineCapacity)
    ELSE a

CanAcquire(a, required) == required <= a.slotSize /\ a.freeCount > 0

\* The slot acquire() takes, and the arena without it.
TopSlot(a) == a.freelist[a.freeCount - 1]
acquire(a) == [slotSize  |-> a.slotSize, freelist |-> a.freelist,
               freeCount |-> a.freeCount - 1]

\* Seeded fault: the free list grows, and the slot is not written to it.
releaseUnwritten(a, index) ==
    IF index \in Slots /\ a.freeCount < RESP_INLINE_SLOTS
    THEN ensureCapacity([slotSize  |-> a.slotSize, freelist |-> a.freelist,
                         freeCount |-> a.freeCount + 1])
    ELSE a

release(a, index) ==
    IF index \in Slots /\ a.freeCount < RESP_INLINE_SLOTS
    THEN ensureCapacity([slotSize  |-> a.slotSize,
                         freelist  |-> [a.freelist EXCEPT ![a.freeCount] = index],
                         freeCount |-> a.freeCount + 1])
    ELSE a

-----------------------------------------------------------------------------
ArenaInit ==
    /\ respInlineCapacity \in {sanitizeCapacity(c) : c \in Capacities}
    /\ arena = resetStorage(respInlineCapacity)
    /\ inlineIndex = [p \in Packets |-> RESP_INLINE_INVALID]
    /\ base = [p \in Packets |-> 0]
    /\ size = [p \in Packets |-> 0]

setRespInlineCapacity(c) ==
    /\ respInlineCapacity' = sanitizeCapacity(c)
    /\ UNCHANGED <<arena, inlineIndex, base, size>>

\* tryUseInline() finds a slot.
UseInline(p, required) ==
    LET a == ensureCapacity(release(arena, inlineIndex[p]))
    IN  /\ CanAcquire(a, required)
        /\ arena' = acquire(a)
        /\ inlineIndex' = [inlineIndex EXCEPT ![p] = TopSlot(a)]
        /\ base' = [base EXCEPT ![p] = a.slotSize]
        /\ size' = [size EXCEPT ![p] = required]
        /\ UNCHANGED respInlineCapacity

\* tryUseInline() finds none, and setOwnedBuffer() takes memory instead.
UseOwned(p, required) ==
    LET a == ensureCapacity(release(arena, inlineIndex[p]))
    IN  /\ ~CanAcquire(a, required)
        /\ arena' = a
        /\ inlineIndex' = [inlineIndex EXCEPT ![p] = RESP_INLINE_INVALID]
        /\ size' = [size EXCEPT ![p] = required]
        /\ UNCHANGED <<respInlineCapacity, base>>

\* Seeded fault: the packet forgets its slot without releasing it.
ReleaseSlotForgets(p) ==
    /\ inlineIndex' = [inlineIndex EXCEPT ![p] = RESP_INLINE_INVALID]
    /\ size' = [size EXCEPT ![p] = 0]
    /\ UNCHANGED <<respInlineCapacity, arena, base>>

\* setStaticData() and ~ResponsePacket().
ReleaseSlot(p) ==
    /\ arena' = release(arena, inlineIndex[p])
    /\ inlineIndex' = [inlineIndex EXCEPT ![p] = RESP_INLINE_INVALID]
    /\ size' = [size EXCEPT ![p] = 0]
    /\ UNCHANGED <<respInlineCapacity, base>>

\* Seeded fault: the packet moved from keeps its slot.
MoveKeepsIndex(p, other) ==
    LET a == release(arena, inlineIndex[p])
        b == IF inlineIndex[other] # RESP_INLINE_INVALID THEN ensureCapacity(a) ELSE a
    IN  /\ p # other
        /\ arena' = b
        /\ inlineIndex' = [inlineIndex EXCEPT ![p] = inlineIndex[other]]
        /\ base' = [base EXCEPT ![p] = b.slotSize]
        /\ size' = [size EXCEPT ![p] = size[other], ![other] = 0]
        /\ UNCHANGED respInlineCapacity

\* operator=(ResponsePacket&&); pointer() of the slot ensures the capacity.
Move(p, other) ==
    LET a == release(arena, inlineIndex[p])
        b == IF inlineIndex[other] # RESP_INLINE_INVALID THEN ensureCapacity(a) ELSE a
    IN  /\ p # other
        /\ arena' = b
        /\ inlineIndex' = [inlineIndex EXCEPT ![p] = inlineIndex[other],
                                              ![other] = RESP_INLINE_INVALID]
        /\ base' = [base EXCEPT ![p] = b.slotSize]
        /\ size' = [size EXCEPT ![p] = size[other], ![other] = 0]
        /\ UNCHANGED respInlineCapacity

ArenaNext ==
    \/ \E c \in Capacities : setRespInlineCapacity(c)
    \/ \E p \in Packets : ReleaseSlot(p)
    \/ \E p \in Packets, n \in Lengths : UseInline(p, n) \/ UseOwned(p, n)
    \/ \E p, q \in Packets : Move(p, q)

ArenaSpec == ArenaInit /\ [][ArenaNext]_arenaVars

-----------------------------------------------------------------------------
Holders(idx) == {p \in Packets : idx[p] # RESP_INLINE_INVALID}

(* Types of the arena and of the packets' slot indices.                    *)
ArenaTypeOK ==
    /\ respInlineCapacity \in Nat \ {0}
    /\ arena \in [slotSize : Nat \ {0}, freelist : [Slots -> Slots],
                  freeCount : 0..RESP_INLINE_SLOTS]
    /\ inlineIndex \in [Packets -> Slots \union {RESP_INLINE_INVALID}]
    /\ base \in [Packets -> Nat] /\ size \in [Packets -> Nat]

(* Two responses that wait to be sent never share a slot of the arena, so  *)
(* the bytes of one are never overwritten by the other, whichever packets  *)
(* are moved, reused and destroyed in between.                             *)
SlotsExclusive ==
    \A p, q \in Packets :
        p # q /\ inlineIndex[p] # RESP_INLINE_INVALID => inlineIndex[p] # inlineIndex[q]

(* A packet that holds a slot points into the storage the arena has now,   *)
(* and its data fits the slot: a change of the capacity never replaces the *)
(* storage under a response, and never makes its slot smaller.             *)
PointersValid ==
    \A p \in Packets : inlineIndex[p] # RESP_INLINE_INVALID =>
        base[p] = arena.slotSize /\ size[p] <= arena.slotSize

(* The slots are conserved: those on the free list and those in packets    *)
(* are all of them, so release() never drops one at its freeCount guard    *)
(* and the arena never runs dry for good.                                  *)
SlotsConserved ==
    arena.freeCount + Cardinality(Holders(inlineIndex)) = RESP_INLINE_SLOTS

-----------------------------------------------------------------------------
(* The inductive invariant, of an arena a and the slots idx of the packets. *)
ArenaInv(a, idx) ==
    /\ a \in [slotSize : Nat \ {0}, freelist : [Slots -> Slots],
              freeCount : 0..RESP_INLINE_SLOTS]
    /\ idx \in [Packets -> Slots \union {RESP_INLINE_INVALID}]
    /\ \A i, j \in 0..(a.freeCount - 1) : i # j => a.freelist[i] # a.freelist[j]
    /\ \A p \in Packets, i \in 0..(a.freeCount - 1) : idx[p] # a.freelist[i]
    /\ \A p, q \in Packets : p # q /\ idx[p] # RESP_INLINE_INVALID => idx[p] # idx[q]
    /\ a.freeCount + Cardinality(Holders(idx)) = RESP_INLINE_SLOTS

ArenaIInv ==
    /\ ArenaTypeOK
    /\ ArenaInv(arena, inlineIndex)
    /\ PointersValid
=============================================================================
