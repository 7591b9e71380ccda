---------------------------- MODULE VersionedMap ----------------------------
(***************************************************************************)
(* What a store promises its caller.  Every key has a stack of versions:   *)
(* set() covers or replaces the top one, get() reads it, del() takes it    *)
(* away and uncovers the one below.  A reorganisation of the store may     *)
(* reorder and drop versions.  A map is the case of stacks of height one.  *)
(***************************************************************************)
EXTENDS Integers, Sequences

CONSTANTS Keys, Values, NoKey, NoValue

VARIABLES versions, ret

vars == <<versions, ret>>

Top(k) == IF versions[k] = <<>> THEN NoValue ELSE Head(versions[k])
Result(op, k, v, ok) == [op |-> op, key |-> k, value |-> v, ok |-> ok]

Init ==
    /\ versions = [k \in Keys |-> <<>>]
    /\ ret = Result("none", NoKey, NoValue, FALSE)

Cover(k, v) ==
    /\ ret' = Result("set", k, v, TRUE)
    /\ versions' = [versions EXCEPT ![k] = <<v>> \o @]

Replace(k, v) ==
    /\ ret' = Result("set", k, v, TRUE)
    /\ versions[k] # <<>>
    /\ versions' = [versions EXCEPT ![k] = <<v>> \o Tail(@)]

\* A set() may be refused, but only of a key that has no value.
Refuse(k, v) ==
    /\ ret' = Result("set", k, v, FALSE)
    /\ versions[k] = <<>>
    /\ UNCHANGED versions

Get(k) ==
    /\ ret' = Result("get", k, Top(k), versions[k] # <<>>)
    /\ UNCHANGED versions

Del(k) ==
    /\ ret' = Result("del", k, NoValue, versions[k] # <<>>)
    /\ versions' = [versions EXCEPT ![k] = IF @ = <<>> THEN @ ELSE Tail(@)]

\* t is made of some of the elements of s, in any order.
TakenFrom(t, s) ==
    /\ Len(t) <= Len(s)
    /\ \E f \in [DOMAIN t -> DOMAIN s] :
          /\ \A i \in DOMAIN t : t[i] = s[f[i]]
          /\ \A i, j \in DOMAIN t : f[i] = f[j] => i = j

Reorganise ==
    /\ UNCHANGED ret
    /\ DOMAIN versions' = Keys
    /\ \A k \in Keys : TakenFrom(versions'[k], versions[k])

Next ==
    \/ \E k \in Keys, v \in Values : Cover(k, v) \/ Replace(k, v) \/ Refuse(k, v)
    \/ \E k \in Keys : Get(k) \/ Del(k)
    \/ Reorganise

Spec == Init /\ [][Next]_vars
=============================================================================
