------------------------------- MODULE RandPool -------------------------------
(***************************************************************************)
(* The pooled random generator that spreads out the deliveries of reports  *)
(* (class RandPool): numbers are drawn without replacement from a pool of  *)
(* 0 .. size - 1 that is filled again when it is empty.  The pool is kept  *)
(* shuffled and its last element is drawn, so that any of its elements may *)
(* come next: here the pool is the set of its elements.                    *)
(***************************************************************************)
EXTENDS Integers, FiniteSets

CONSTANTS
    size,    \* option spread_out_delivery
    MaxGets  \* bound: the number of draws

ASSUME SizeAssumption == size \in Nat /\ MaxGets \in Nat

Values == 0 .. size - 1

VARIABLES
    pool,    \* the values left
    counts,  \* history: how often each value was drawn
    gets     \* history: the number of draws

poolVars == <<pool, counts, gets>>

\* faulty: the pool is filled again while one value is left
FilledEarly(p) == IF Cardinality(p) <= 1 THEN Values ELSE p

Filled(p) == IF p = {} THEN Values ELSE p

\* With a pool of size 0 there is nothing to draw, and pop raises IndexError.
Get(value) ==
    /\ gets < MaxGets
    /\ value \in Filled(pool)
    /\ pool' = Filled(pool) \ {value}
    /\ counts' = [counts EXCEPT ![value] = @ + 1]
    /\ gets' = gets + 1

PoolInit ==
    /\ pool = {}
    /\ counts = [value \in Values |-> 0]
    /\ gets = 0

PoolNext == \E value \in Values : Get(value)

PoolSpec == PoolInit /\ [][PoolNext]_poolVars

\* "Counts over the returned values are flat after each multiple of the pool
\* size and differ at most by one otherwise": however unlucky the draws, the
\* seconds after which reports are delivered are used evenly.
Flat ==
    /\ \A v, w \in Values : counts[v] <= counts[w] + 1
    /\ pool = {} => \A v, w \in Values : counts[v] = counts[w]

\* The whole state is known from the draws: what is left in the pool are the
\* values that were drawn once less than the others.
FlatInv ==
    /\ pool \subseteq Values
    /\ counts \in [Values -> Nat]
    /\ \A v, w \in pool : counts[v] = counts[w]
    /\ \A v, w \in Values \ pool : counts[v] = counts[w]
    /\ \A v \in Values \ pool, w \in pool : counts[v] = counts[w] + 1

=============================================================================
