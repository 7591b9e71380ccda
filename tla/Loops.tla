------------------------------- MODULE Loops -------------------------------
(* Loops of the code as functions.  The i-th pass through a loop takes the *)
(* loop's variables x to passes[i][x].                                     *)
EXTENDS Integers

\* The loop's variables after the first n passes.
Loop(passes, x, n) ==
    LET after[i \in 0..n] == IF i = 0 THEN x ELSE passes[i][after[i - 1]]
    IN  after[n]

\* A loop whose passes are all the same.  One that is over is at a value
\* that its pass leaves alone.
Repeat(pass, x, n) == Loop([i \in 1..n |-> pass], x, n)
=============================================================================
