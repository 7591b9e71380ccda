------------------------------ MODULE Primegen ------------------------------
(***************************************************************************)
(* The generator of table sizes (primegen.cpp): initGenerator() sieves     *)
(* 2..maxLimit-1 in segments and queues, of the numbers a segment leaves   *)
(* set, each that is at least growthFactor times the one queued before.    *)
(*                                                                         *)
(* Only the first segment is sieved: the loop skips divisors smaller than  *)
(* the segment's start, and those are all it has in later ones.  So what   *)
(* is crossed out always begins at the square of the divisor.              *)
(***************************************************************************)
EXTENDS Loops, Sequences

CONSTANTS
    maxLimit, SEGMENT_SIZE,
    FirstStored,    \* lastStored at the start
    GrowthSteps,    \* factors in percent, each for primes below a bound
    LastGrowth      \* the factor for larger ones

\* What the constants of the code are.
Parameters ==
    /\ maxLimit \in Nat /\ maxLimit >= 2
    /\ SEGMENT_SIZE \in Nat \ {0} /\ FirstStored \in Nat \ {0}
    /\ GrowthSteps \in Seq([below : Nat, percent : Nat]) /\ LastGrowth \in Nat

Multiples(i, end) == {j \in (i * i)..(end - 1) : j % i = 0}

\* What is set of a segment after divisor i.
CrossOut(isPrime, i, start, end) ==
    IF i * i > end \/ i < start \/ i \notin isPrime THEN isPrime
    ELSE isPrime \ Multiples(i, end)
\* What the sieve leaves of start..end-1, after the divisors up to n.
SievedUpTo(start, end, n) ==
    Loop([i \in 1..end |-> [isPrime \in SUBSET Nat |-> CrossOut(isPrime, i, start, end)]],
         start..(end - 1), n)
Sieved(start, end) == SievedUpTo(start, end, end)

SegmentStart(n) == 2 + SEGMENT_SIZE * ((n - 2) \div SEGMENT_SIZE)
SegmentEnd(start) ==
    IF start + SEGMENT_SIZE < maxLimit THEN start + SEGMENT_SIZE ELSE maxLimit

growthFactor(prime) ==
    LET steps == {i \in DOMAIN GrowthSteps : prime < GrowthSteps[i].below}
    IN  IF steps = {} THEN LastGrowth
        ELSE GrowthSteps[CHOOSE i \in steps : \A j \in steps : i <= j].percent

\* The generator between two numbers, and after it has looked at n.
Generators == [queue : Seq(Nat), lastStored : Nat, percent : Nat]
LookAt(g, n) ==
    LET start == SegmentStart(n)
    IN  IF /\ n \in Sieved(start, SegmentEnd(start))
           /\ n >= (g.lastStored * g.percent) \div 100
        THEN [queue |-> Append(g.queue, n), lastStored |-> n, percent |-> growthFactor(n)]
        ELSE g
\* The generator after the numbers 2..n+1.
GeneratedUpTo(n) ==
    Loop([i \in 1..(maxLimit - 2) |-> [g \in Generators |-> LookAt(g, i + 1)]],
         [queue |-> <<>>, lastStored |-> FirstStored, percent |-> 200], n)

primeQueue == GeneratedUpTo(maxLimit - 2).queue

-----------------------------------------------------------------------------
(* The reference.                                                          *)
IsPrime(n) == n > 1 /\ \A d \in 2..(n - 1) : n % d # 0
=============================================================================
