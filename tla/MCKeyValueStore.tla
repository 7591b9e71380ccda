-------------------------- MODULE MCKeyValueStore --------------------------
(* Small instances of the store, with the table sizes a small instance of  *)
(* Primegen generates.                                                     *)
EXTENDS KeyValueStore, TLC

CONSTANTS k1, k2, k3

\* k1 and k2 collide in every table; k3 meets them at some sizes only.
CollidingHash == k1 :> 0 @@ k2 :> 0 @@ k3 :> 6
\* In a table of 5 buckets the probes of k1 and k2 wrap around its end and k3
\* is apart; in one of 7 all three keys share two buckets.
GatheringHash == k1 :> 4 @@ k2 :> 4 @@ k3 :> 11

\* A generator whose factors fall as its numbers grow, as the code's do.
Generator(limit, segment) ==
    INSTANCE Primegen WITH
        maxLimit <- limit, SEGMENT_SIZE <- segment, FirstStored <- 2,
        GrowthSteps <- <<[below |-> 5, percent |-> 400], [below |-> 20, percent |-> 120]>>,
        LastGrowth <- 105

OneResize == <<7>>
TwoResizes == Generator(8, 5)!primeQueue

Queues == {Generator(limit, segment)!primeQueue : limit \in 4..32, segment \in 3..32}
Growing(queue) == \A i \in 2..Len(queue) : queue[i] > queue[i - 1]

\* Whatever the limit and the segment size, the numbers queued grow, as
\* PrimesAssumption wants them to.
ASSUME GeneratorAssumption == \A queue \in Queues : Growing(queue)

\* With a segment that reaches to the limit, all numbers queued are prime.
ASSUME FirstSegmentAssumption ==
    \A limit \in 4..32 :
        LET queue == Generator(limit, limit)!primeQueue
        IN  \A i \in DOMAIN queue : IsPrime(queue[i])
=============================================================================
