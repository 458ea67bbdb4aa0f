--------------------------- MODULE MCQueueWakeup ---------------------------
(* A small instance of QueueWakeup.                                        *)
EXTENDS QueueWakeup, TLC

CONSTANTS m1, m2, m3, w1, w2, w3

ThreeMessages == {m1, m2, m3}
ThreeWorkers == {w1, w2, w3}

\* A retry within the cap of a wait, and one beyond it.
ShortAndLong == {1, MaxIdle + 1}

Symmetry == Permutations(Messages) \cup Permutations(Workers)
=============================================================================
