---------------------------- MODULE MailPromise ----------------------------
(***************************************************************************)
(* What the relay promises about mail it has taken over.  A submitted      *)
(* message is refused, or kept until its fate is settled; it can only be   *)
(* lost while the single copy of it is in the memory of the process.  A    *)
(* settled message stays settled, with one exception: a process that dies  *)
(* between settling it and removing its copy from disk leaves a stale      *)
(* copy, and a later process may take that copy for mail still owed.       *)
(***************************************************************************)
CONSTANT Messages

VARIABLES
  up,        \* a process is running, past its start-up
  fate,      \* per message: "new", "refused", "kept", "settled" or "lost"
  exposed,   \* messages of which only the process holds a usable copy
  lingering, \* settled, and a task is on its way to remove the copy on disk
  stale      \* settled, with a copy on disk that nobody is going to remove

vars == <<up, fate, exposed, lingering, stale>>

Init ==
  /\ up = TRUE
  /\ fate = [m \in Messages |-> "new"]
  /\ exposed \in SUBSET Messages
  /\ lingering = {} /\ stale = {}

Change(m, from, to) == fate[m] = from /\ fate' = [fate EXCEPT ![m] = to]

Accept(m) ==
  /\ up /\ Change(m, "new", "kept")
  /\ exposed' \in SUBSET Messages
  /\ UNCHANGED <<up, lingering, stale>>

Refuse(m) ==
  /\ up /\ Change(m, "new", "refused")
  /\ exposed' \in SUBSET Messages
  /\ UNCHANGED <<up, lingering, stale>>

Settle(m) ==
  /\ up /\ Change(m, "kept", "settled")
  /\ lingering' \in {lingering, lingering \cup {m}}
  /\ UNCHANGED <<up, exposed, stale>>

\* The copy of a settled message is removed from disk.
Erase(m) ==
  /\ up /\ m \in lingering /\ lingering' = lingering \ {m}
  /\ UNCHANGED <<up, fate, exposed, stale>>

\* Writing a message down, or failing to, changes no fate.
Rewrite == exposed' \in SUBSET Messages /\ UNCHANGED <<up, fate, lingering, stale>>

\* The process ends.  Of what it kept, only exposed messages can go; a message
\* whose submission it was busy with has not been promised anything.
Ends ==
  /\ up' = FALSE
  /\ exposed' \in SUBSET Messages
  /\ \E gone \in SUBSET (exposed' \cap {m \in Messages : fate[m] = "kept"}),
        dropped \in SUBSET {m \in Messages : fate[m] = "new"} :
       fate' = [m \in Messages |-> IF m \in gone THEN "lost"
                                   ELSE IF m \in dropped THEN "refused"
                                   ELSE fate[m]]

\* An orderly stop waits for the removals it has begun; a crash does not.
Stop  == up /\ lingering = {} /\ Ends /\ UNCHANGED <<lingering, stale>>
Crash == Ends /\ lingering' = {} /\ stale' \in SUBSET (stale \cup lingering)

\* Start-up takes a stale copy for mail that is still owed.
Reopen(m) ==
  /\ ~up /\ m \in stale /\ Change(m, "settled", "kept")
  /\ stale' = stale \ {m}
  /\ UNCHANGED <<up, exposed, lingering>>

Start == ~up /\ up' = TRUE /\ UNCHANGED <<fate, exposed, lingering, stale>>

Next ==
  \/ \E m \in Messages : Accept(m) \/ Refuse(m) \/ Settle(m) \/ Erase(m) \/ Reopen(m)
  \/ Rewrite
  \/ Stop \/ Crash \/ Start

Spec == Init /\ [][Next]_vars
=============================================================================
