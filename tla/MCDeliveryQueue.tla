-------------------------- MODULE MCDeliveryQueue --------------------------
(* Small instances of DeliveryQueue.                                       *)
EXTENDS DeliveryQueue, TLC

CONSTANTS m1, m2, m3, w1, w2

OneMessage == {m1}
TwoMessages == {m1, m2}
ThreeMessages == {m1, m2, m3}
OneWorker == {w1}
TwoWorkers == {w1, w2}
BothModes == {0, 1}
QueueMode == {0}
HybridMode == {1}

\* A retry delay per attempt already made, each at least one tick.
ShortBackoff == [a \in 1..MaxAttempts |-> a]
UnitBackoff == [a \in 1..MaxAttempts |-> 1]

Symmetry == Permutations(Messages) \cup Permutations(Workers)
=============================================================================
