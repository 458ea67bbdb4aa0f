----------------------------- MODULE MCDispatch -----------------------------
(* Two recipients, one of them of Yahoo, two endpoints or servers to ask, two relays. *)
EXTENDS Dispatch

CONSTANTS y, g, s1, s2, r1, r2

TwoRecipients == {y, g}
OneYahoo == {y}
OneServer == {s1}
TwoServers == {s1, s2}
TwoRelays == {r1, r2}
=============================================================================
