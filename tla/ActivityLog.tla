---------------------------- MODULE ActivityLog ----------------------------
(***************************************************************************)
(* The activity log (metrics.rs) as one message sees it: the status it     *)
(* shows for the message, kept in a cache of recent records and in files    *)
(* that are only appended to.  Other messages push the record out of the   *)
(* cache; the operator clears records.  Renaming the files at midnight     *)
(* keeps every line and their order, so the files are the last line they   *)
(* hold of the message.  Without logging.directory the log is one list     *)
(* under one lock, and none of this can happen.                            *)
(***************************************************************************)
EXTENDS Integers

CONSTANT Clears  \* the operator may clear records, once

ASSUME ActivityLogAssumption == Clears \in BOOLEAN

VARIABLES
  live,      \* status in the cache
  filed,     \* status in the last line written to the files
  clearing   \* the operator's clear: how far it is, the status it will write back,
             \* and, read by properties only, whether it missed an update

logVars == <<live, filed, clearing>>

Statuses == {"accepted", "queued", "sending", "delivered", "deferred", "failed", "rejected"}

LogInit ==
  /\ live = "none" /\ filed = "none"
  /\ clearing = [step |-> IF Clears THEN "may" ELSE "no", copy |-> "none", missed |-> FALSE]

\* get: the cache, else the files.
Shown == IF live # "none" THEN live ELSE filed

Missed == clearing' = [clearing EXCEPT !.missed = @ \/ clearing.step \in {"read", "cached"}]

\* push caches and appends a new record.  update reads the record, changes it, caches
\* and appends it; everyone who updates sets the status whatever it was, so that only the last step counts.
Store(status) == live' = status /\ filed' = status /\ Missed

\* remember, or push, of so many other messages that the cache drops this one.
Evict == live # "none" /\ live' = "none" /\ UNCHANGED <<filed, clearing>>

\* rewrite_jsonl reads everything, drops the records of one status or all, and
\* replaces the cache, then the files: what is stored meanwhile is written over.
ClearReads(kept) ==
  /\ clearing.step = "may" /\ kept \in {Shown, "none"}
  /\ clearing' = [step |-> "read", copy |-> kept, missed |-> FALSE]
  /\ UNCHANGED <<live, filed>>

\* Only LIVE_CACHE of the records kept go back to the cache.
ClearCache(cached) ==
  /\ clearing.step = "read" /\ cached \in {clearing.copy, "none"}
  /\ live' = cached
  /\ clearing' = [clearing EXCEPT !.step = "cached"]
  /\ UNCHANGED filed

ClearFiles ==
  /\ clearing.step = "cached"
  /\ filed' = clearing.copy
  /\ clearing' = [clearing EXCEPT !.step = "done"]
  /\ UNCHANGED live

LogStep ==
  \/ Evict \/ ClearFiles
  \/ \E kept \in Statuses \cup {"none"} : ClearReads(kept) \/ ClearCache(kept)
=============================================================================
