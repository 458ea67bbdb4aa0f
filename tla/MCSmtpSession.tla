---------------------------- MODULE MCSmtpSession ----------------------------
(* Instances of SmtpSession for TLC.                                       *)
EXTENDS SmtpSession, TLC

CONSTANTS s1, s2, s3, a1, a2, r1, r2, r3

OneSession == {s1}
TwoSessions == {s1, s2}
ThreeSessions == {s1, s2, s3}
OneSender == {a1}
TwoSenders == {a1, a2}
OneRecipient == {r1}
ThreeRecipients == {r1, r2, r3}

\* Places for connections are alike, and so are addresses.
Symmetry == Permutations(Sessions) \cup Permutations(Senders) \cup Permutations(Recipients)
=============================================================================
