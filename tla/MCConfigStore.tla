--------------------------- MODULE MCConfigStore ---------------------------
(* One relay configured at first, a second id to add, two users, two requests at *)
(* a time.                                                                        *)
EXTENDS ConfigStore, TLC

CONSTANTS a, b, u, v, h1, h2

TwoIds == {a, b}
TwoUsers == {u, v}
OneRelay == {a}
OneHandler == {h1}
TwoHandlers == {h1, h2}

Alike == Permutations(TwoHandlers) \cup Permutations(TwoUsers)
=============================================================================
