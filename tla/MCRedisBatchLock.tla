-------------------------- MODULE MCRedisBatchLock --------------------------
(* RedisBatchLock for TLC: the clients lock the same keys in other orders.    *)
EXTENDS RedisBatchLock

CONSTANTS a, b, c, x, y

\* Two clients that lock two keys in opposite orders.
TwoClients == {x, y}
TwoKeys    == {a, b}
Crossed    == [i \in {x, y} |-> IF i = x THEN <<a, b>> ELSE <<b, a>>]

\* Two clients whose lists of keys overlap in one key.
ThreeKeys == {a, b, c}
Overlapping == [i \in {x, y} |-> IF i = x THEN <<a, b, c>> ELSE <<c, a>>]
=============================================================================
