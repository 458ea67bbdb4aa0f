-------------------------- MODULE MCRelayRuntime --------------------------
(* Small instances of RelayRuntime.                                        *)
EXTENDS RelayRuntime, TLC

CONSTANTS d1, d2, o1

OneDelivery == {d1}
TwoDeliveries == {d1, d2}
OneOperator == {o1}
NoOperator == {}

\* A window a reload forgets (the minute) and one it carries over (the hour).
MinuteAndHour == {1, 2}
OnlyHour == {2} \cap Windows
HourOnly == {2}
NoWindow == {}
OneEach == [w \in Windows |-> 1]

Symmetry == Permutations(Deliveries)
=============================================================================
