--------------------------- MODULE DeliveryQueue ---------------------------
(***************************************************************************)
(* The retry queue of the relay (queue.rs), the workers that drain it      *)
(* (dispatch.rs, run_queue_worker), its on-disk spool, the recovery of the *)
(* spool at start-up and the shutdown sequence of main.rs.                 *)
(*                                                                         *)
(* Every operation of Queue that runs under its mutex is one action; what  *)
(* an operation does after releasing the mutex (remove_spool in finish and *)
(* remove) is an action of its own, because other tasks, and a crash, can  *)
(* come in between.  The mutex is held while the spool is written, so the  *)
(* intermediate states of a write can only be seen by a crash: Crash       *)
(* chooses them.                                                           *)
(*                                                                         *)
(* The outcome of one delivery attempt (dispatch.rs, attempt_delivery) is  *)
(* a free choice here.                                                     *)
(***************************************************************************)
EXTENDS Naturals, FiniteSets

CONSTANTS
  Messages,        \* message ids; each is submitted at most once
  Workers,         \* the queue workers (queue.workers)
  None,            \* "no message": what an idle worker holds
  Capacity,        \* queue.capacity, after .max(1)
  MaxAttempts,     \* queue.max_attempts
  Backoff,         \* QueueConfig::backoff_for, in clock ticks, as a function
  SubmitAttempts,  \* attempts already made when a message reaches the queue:
                   \* 0 in queue mode, 1 after the inline attempt of hybrid mode
  Persist,         \* queue.persist: is there a spool directory?
  MaxMishaps       \* bound: process ends plus failed spool writes

ASSUME ConstantsAssumption ==
  /\ None \notin Messages
  /\ IsFiniteSet(Messages) /\ IsFiniteSet(Workers)
  /\ Capacity \in Nat \ {0}
  /\ MaxAttempts \in Nat \ {0}
  /\ Backoff \in [1..MaxAttempts -> Nat \ {0}]
  /\ SubmitAttempts \subseteq {0, 1}
  /\ Persist \in BOOLEAN
  /\ MaxMishaps \in Nat

VARIABLES
  \* The process: serve() and finish_in_flight() of main.rs.
  phase,      \* "down", "recovering", "running", "draining", "closing"
  now,        \* the wall clock
  \* Queue::inner, behind the mutex, and Queue::sequence.
  scheduled,  \* the BTreeMap: entries ordered by (due, seq)
  byId,       \* the id index: the key under which an id is scheduled
  inFlight,   \* ids taken by a worker and not yet reported back
  seq,        \* the next sequence number
  \* The tasks.
  pc, held,   \* per worker: where it is, and the message it works on
  erasing,    \* removed by an operator, spool files not yet unlinked
  purging,    \* the ids a running purge() has still to look up
  unread,     \* metadata files recover() has still to look at
  \* The spool directory.
  spool,      \* per id: its .eml and .json files
  \* What the outside has seen (read by properties only).
  submitted, accepted,  \* offered to the queue; and taken by it
  settled,    \* delivered, rejected, declared dead or removed by an operator,
              \* and not loaded again since
  tries,      \* delivery attempts really started, over all process lives
  torn,       \* last spool write left an unusable pair of files
  skipped,    \* spool entries this process life has not loaded
  mishaps     \* process ends and failed writes so far

queueVars == <<scheduled, byId, inFlight, seq>>
taskVars  == <<pc, held, erasing, purging, unread, skipped>>
diskVars  == <<spool, torn>>
seenVars  == <<submitted, accepted, settled, tries>>
vars == <<phase, now, queueVars, taskVars, diskVars, seenVars, mishaps>>

-----------------------------------------------------------------------------
(* Data.  A message is its id, its retry time and its attempt count.       *)

Entry == [id : Messages, due : Nat, seq : Nat, attempts : Nat]
Job   == [id : Messages \cup {None}, attempts : Nat]
Idle  == [id |-> None, attempts |-> 0]

Key(e) == <<e.due, e.seq>>
IndexOf(e) == [id |-> e.id, due |-> e.due, seq |-> e.seq]
KeyBefore(d, e) == d.due < e.due \/ (d.due = e.due /\ d.seq < e.seq)

Ids(entries) == {e.id : e \in entries}
Busy == {w \in Workers : pc[w] \in {"sending", "erasing"}}
Sending == {w \in Workers : pc[w] = "sending"}

\* BTreeMap::insert replaces the value under an equal key, HashMap::insert the
\* key of an equal id.
Insert(entries, e) == {d \in entries : Key(d) # Key(e)} \cup {e}
InsertIndex(index, e) == {i \in index : i.id # e.id} \cup {IndexOf(e)}

-----------------------------------------------------------------------------
(* The spool: <id>.eml holds the body, <id>.json the attempts and the time *)
(* of the next one.  write_spool truncates and writes the body, then       *)
(* truncates and writes the metadata; an error or a kill stops it anywhere *)
(* on the way.                                                             *)

Pair == [body : {"absent", "empty", "full"}, meta : {"absent", "torn", "full"},
         attempts : Nat, due : Nat]
NoPair == [body |-> "absent", meta |-> "absent", attempts |-> 0, due |-> 0]
Complete(p) == p.body = "full" /\ p.meta = "full"
Whole(e) == [body |-> "full", meta |-> "full", attempts |-> e.attempts, due |-> e.due]
HalfWritten(p) == {[p EXCEPT !.body = "empty"],
                   [p EXCEPT !.body = "full"],
                   [body |-> "full", meta |-> "torn", attempts |-> 0, due |-> 0]}

StorePair(m, p) ==
  /\ spool' = [spool EXCEPT ![m] = p]
  /\ torn' = IF Complete(p) THEN torn \ {m} ELSE torn \cup {m}

\* Failures of write_spool are logged and otherwise ignored.
WriteSpool(e) ==
  \/ ~Persist /\ UNCHANGED <<diskVars, mishaps>>
  \/ Persist /\ StorePair(e.id, Whole(e)) /\ UNCHANGED mishaps
  \/ /\ Persist /\ mishaps < MaxMishaps
     /\ \E p \in HalfWritten(spool[e.id]) : StorePair(e.id, p)
     /\ mishaps' = mishaps + 1
-----------------------------------------------------------------------------
Up == phase \in {"running", "draining", "closing"}

Init ==
  /\ phase = "running" /\ now = 0
  /\ scheduled = {} /\ byId = {} /\ inFlight = {} /\ seq = 0
  /\ pc = [w \in Workers |-> "top"] /\ held = [w \in Workers |-> Idle]
  /\ erasing = {} /\ purging = {} /\ unread = {}
  /\ spool = [m \in Messages |-> NoPair]
  /\ submitted = {} /\ accepted = {} /\ settled = {} /\ tries = [m \in Messages |-> 0]
  /\ torn = {} /\ skipped = {} /\ mishaps = 0

\* Time matters only to an entry that is not due yet.
Tick ==
  /\ \E e \in scheduled : e.due > now
  /\ now' = now + 1
  /\ UNCHANGED <<phase, queueVars, taskVars, diskVars, seenVars, mishaps>>

-----------------------------------------------------------------------------
(* Submission: dispatch::submit reaching Queue::enqueue.                   *)

Delay(a) == IF a = 0 THEN 0 ELSE Backoff[a]

\* Faulty variant for DepthBounded: an off-by-one in the capacity check.
EnqueueOneTooMany(m, a) ==
  LET e == [id |-> m, due |-> now + Delay(a), seq |-> seq, attempts |-> a] IN
  /\ Up /\ m \notin submitted /\ a \in SubmitAttempts
  /\ Cardinality(scheduled) <= Capacity
  /\ scheduled' = Insert(scheduled, e) /\ byId' = InsertIndex(byId, e) /\ seq' = seq + 1
  /\ WriteSpool(e)
  /\ submitted' = submitted \cup {m} /\ accepted' = accepted \cup {m}
  /\ tries' = [tries EXCEPT ![m] = a]
  /\ UNCHANGED <<phase, now, inFlight, taskVars, settled>>

\* Queue::enqueue has room: from here on the client has been promised delivery.
Enqueue(m, a) ==
  LET e == [id |-> m, due |-> now + Delay(a), seq |-> seq, attempts |-> a] IN
  /\ Up /\ m \notin submitted /\ a \in SubmitAttempts
  /\ Cardinality(scheduled) < Capacity
  /\ scheduled' = Insert(scheduled, e)
  /\ byId' = InsertIndex(byId, e)
  /\ seq' = seq + 1
  /\ WriteSpool(e)
  /\ submitted' = submitted \cup {m}
  /\ accepted' = accepted \cup {m}
  /\ tries' = [tries EXCEPT ![m] = a]
  /\ UNCHANGED <<phase, now, inFlight, taskVars, settled>>

\* EnqueueError::Full: the client is told to keep the message (452).
Refuse(m, a) ==
  /\ Up /\ m \notin submitted /\ a \in SubmitAttempts
  /\ Cardinality(scheduled) >= Capacity
  /\ submitted' = submitted \cup {m}
  /\ tries' = [tries EXCEPT ![m] = a]
  /\ UNCHANGED <<phase, now, queueVars, taskVars, diskVars, accepted, settled, mishaps>>

-----------------------------------------------------------------------------
(* The worker loop, run_queue_worker.                                      *)

\* The loop head reads the shutdown flag; what it read is used one step later.
LoopTop(w) ==
  /\ Up /\ pc[w] = "top"
  /\ pc' = [pc EXCEPT ![w] = IF phase = "running" THEN "poll" ELSE "stopped"]
  /\ UNCHANGED <<phase, now, queueVars, held, erasing, purging, unread, skipped,
                 diskVars, seenVars, mishaps>>

Earliest(e) == \A d \in scheduled \ {e} : KeyBefore(e, d)

\* Faulty variant for SingleOwner: the message is read, not removed, when taken.
TakeDueByPeeking(w, e) ==
  /\ Up /\ pc[w] = "poll"
  /\ e \in scheduled /\ Earliest(e) /\ e.due <= now
  /\ inFlight' = inFlight \cup {e.id}
  /\ pc' = [pc EXCEPT ![w] = "sending"]
  /\ held' = [held EXCEPT ![w] = [id |-> e.id, attempts |-> e.attempts + 1]]
  /\ tries' = [tries EXCEPT ![e.id] = @ + 1]
  /\ UNCHANGED <<phase, now, scheduled, byId, seq, erasing, purging, unread, skipped, diskVars,
                 submitted, accepted, settled, mishaps>>

\* Queue::take_due, and the attempt count attempt_delivery starts by raising.
TakeDue(w, e) ==
  /\ Up /\ pc[w] = "poll"
  /\ e \in scheduled /\ Earliest(e) /\ e.due <= now
  /\ scheduled' = scheduled \ {e}
  /\ byId' = {i \in byId : i.id # e.id}
  /\ inFlight' = inFlight \cup {e.id}
  /\ pc' = [pc EXCEPT ![w] = "sending"]
  /\ held' = [held EXCEPT ![w] = [id |-> e.id, attempts |-> e.attempts + 1]]
  /\ tries' = [tries EXCEPT ![e.id] = @ + 1]
  /\ UNCHANGED <<phase, now, seq, erasing, purging, unread, skipped, diskVars,
                 submitted, accepted, settled, mishaps>>

\* take_due returned None: wait_for_work, then back to the loop head.
PollEmpty(w) ==
  /\ Up /\ pc[w] = "poll"
  /\ \A e \in scheduled : e.due > now
  /\ pc' = [pc EXCEPT ![w] = "top"]
  /\ UNCHANGED <<phase, now, queueVars, held, erasing, purging, unread, skipped,
                 diskVars, seenVars, mishaps>>

\* The attempt ended for good (Delivered or Failed, or Deferred with no attempt
\* left): the locked half of Queue::finish.
Finish(w) ==
  /\ Up /\ pc[w] = "sending"
  /\ inFlight' = inFlight \ {held[w].id}
  /\ settled' = settled \cup {held[w].id}
  /\ pc' = [pc EXCEPT ![w] = "erasing"]
  /\ UNCHANGED <<phase, now, scheduled, byId, seq, held, erasing, purging, unread, skipped,
                 diskVars, submitted, accepted, tries, mishaps>>

\* Faulty variant for PromiseKept: finish() leaves the spool files to the next start.
FinishEraseNothing(w) ==
  /\ Up /\ pc[w] = "erasing"
  /\ pc' = [pc EXCEPT ![w] = "top"]
  /\ held' = [held EXCEPT ![w] = Idle]
  /\ UNCHANGED <<phase, now, queueVars, erasing, purging, unread, skipped, spool, torn,
                 seenVars, mishaps>>

\* The unlocked half of Queue::finish: remove_spool.
FinishErase(w) ==
  /\ Up /\ pc[w] = "erasing"
  /\ spool' = IF Persist THEN [spool EXCEPT ![held[w].id] = NoPair] ELSE spool
  /\ pc' = [pc EXCEPT ![w] = "top"]
  /\ held' = [held EXCEPT ![w] = Idle]
  /\ UNCHANGED <<phase, now, queueVars, erasing, purging, unread, skipped, torn, seenVars, mishaps>>

\* Faulty variant for KeptOnDisk: a retry is kept in memory only.
RequeueUnspooled(w) ==
  LET e == [id |-> held[w].id, due |-> now + Backoff[held[w].attempts],
            seq |-> seq, attempts |-> held[w].attempts] IN
  /\ Up /\ pc[w] = "sending"
  /\ held[w].attempts < MaxAttempts
  /\ inFlight' = inFlight \ {held[w].id}
  /\ pc' = [pc EXCEPT ![w] = "top"] /\ held' = [held EXCEPT ![w] = Idle]
  /\ scheduled' = Insert(scheduled, e) /\ byId' = InsertIndex(byId, e) /\ seq' = seq + 1
  /\ spool' = [spool EXCEPT ![e.id] = NoPair] /\ UNCHANGED <<torn, mishaps>>
  /\ UNCHANGED <<phase, now, erasing, purging, unread, skipped, seenVars>>

\* Faulty variant for AttemptsBounded: one attempt too many.
RequeueOnceMore(w) ==
  LET e == [id |-> held[w].id, due |-> now + Backoff[held[w].attempts],
            seq |-> seq, attempts |-> held[w].attempts] IN
  /\ Up /\ pc[w] = "sending"
  /\ held[w].attempts <= MaxAttempts
  /\ inFlight' = inFlight \ {held[w].id}
  /\ pc' = [pc EXCEPT ![w] = "top"] /\ held' = [held EXCEPT ![w] = Idle]
  /\ scheduled' = Insert(scheduled, e) /\ byId' = InsertIndex(byId, e) /\ seq' = seq + 1
  /\ WriteSpool(e)
  /\ UNCHANGED <<phase, now, erasing, purging, unread, skipped, seenVars>>

\* Faulty variant for NothingMislaid: a retry that finds the queue full is dropped.
RequeueIfRoom(w) ==
  LET e == [id |-> held[w].id, due |-> now + Backoff[held[w].attempts],
            seq |-> seq, attempts |-> held[w].attempts] IN
  /\ Up /\ pc[w] = "sending"
  /\ held[w].attempts < MaxAttempts
  /\ inFlight' = inFlight \ {held[w].id}
  /\ pc' = [pc EXCEPT ![w] = "top"] /\ held' = [held EXCEPT ![w] = Idle]
  /\ IF Cardinality(scheduled) < Capacity
     THEN scheduled' = Insert(scheduled, e) /\ byId' = InsertIndex(byId, e) /\ seq' = seq + 1
     ELSE UNCHANGED <<scheduled, byId, seq>>
  /\ WriteSpool(e)
  /\ UNCHANGED <<phase, now, erasing, purging, unread, skipped, seenVars>>

\* Deferred with attempts left: Queue::requeue, which ignores the capacity.
Requeue(w) ==
  LET e == [id |-> held[w].id, due |-> now + Backoff[held[w].attempts],
            seq |-> seq, attempts |-> held[w].attempts] IN
  /\ Up /\ pc[w] = "sending"
  /\ held[w].attempts < MaxAttempts
  /\ inFlight' = inFlight \ {held[w].id}
  /\ scheduled' = Insert(scheduled, e)
  /\ byId' = InsertIndex(byId, e)
  /\ seq' = seq + 1
  /\ WriteSpool(e)
  /\ pc' = [pc EXCEPT ![w] = "top"]
  /\ held' = [held EXCEPT ![w] = Idle]
  /\ UNCHANGED <<phase, now, erasing, purging, unread, skipped, seenVars>>

-----------------------------------------------------------------------------
(* The operator: DELETE /api/queue/<id>, DELETE /api/queue, POST flush.    *)

\* The locked half of Queue::remove, for an id the index knows.
Unschedule(m) ==
  \E i \in byId :
    /\ i.id = m
    /\ byId' = byId \ {i}
    /\ scheduled' = {e \in scheduled : Key(e) # Key(i)}
    /\ settled' = settled \cup {m}
    /\ erasing' = erasing \cup {m}

Remove(m) ==
  /\ Up /\ Unschedule(m)
  /\ UNCHANGED <<phase, now, inFlight, seq, pc, held, purging, unread, skipped,
                 diskVars, submitted, accepted, tries, mishaps>>

\* Queue::purge copies the ids under the mutex, releases it and removes them
\* one by one; workers run in between.
StartPurge ==
  /\ Up /\ purging = {} /\ byId # {}
  /\ purging' = {i.id : i \in byId}
  /\ UNCHANGED <<phase, now, queueVars, pc, held, erasing, unread, skipped,
                 diskVars, seenVars, mishaps>>

PurgeOne(m) ==
  /\ Up /\ m \in purging
  /\ purging' = purging \ {m}
  /\ \/ Unschedule(m)
     \/ /\ \A i \in byId : i.id # m
        /\ UNCHANGED <<byId, scheduled, settled, erasing>>
  /\ UNCHANGED <<phase, now, inFlight, seq, pc, held, unread, skipped,
                 diskVars, submitted, accepted, tries, mishaps>>

\* The unlocked half of Queue::remove: remove_spool.
RemoveErase(m) ==
  /\ Up /\ m \in erasing
  /\ erasing' = erasing \ {m}
  /\ spool' = IF Persist THEN [spool EXCEPT ![m] = NoPair] ELSE spool
  /\ UNCHANGED <<phase, now, queueVars, pc, held, purging, unread, skipped,
                 torn, seenVars, mishaps>>

Hastened(e, s) == [id |-> e.id, due |-> now, seq |-> s, attempts |-> e.attempts]

\* Faulty variant for IndexesAgree: one sequence number for the whole batch.
FlushNowSameSeq ==
  LET moved == {e \in scheduled : e.due > now} IN
  /\ Up /\ moved # {}
  /\ scheduled' = (scheduled \ moved) \cup {Hastened(e, seq) : e \in moved}
  /\ byId' = {i \in byId : i.id \notin Ids(moved)} \cup {IndexOf(Hastened(e, seq)) : e \in moved}
  /\ seq' = seq + 1
  /\ UNCHANGED <<phase, now, inFlight, taskVars, diskVars, seenVars, mishaps>>

\* Queue::flush_now: every entry that is not due moves to now, in key order,
\* each under a fresh sequence number.  The spool keeps the old retry time.
FlushNow ==
  LET moved == {e \in scheduled : e.due > now} IN
  /\ Up /\ moved # {}
  /\ \E rank \in [moved -> 0..(Cardinality(moved) - 1)] :
       /\ \A d, e \in moved : KeyBefore(d, e) <=> rank[d] < rank[e]
       /\ scheduled' = (scheduled \ moved) \cup {Hastened(e, seq + rank[e]) : e \in moved}
       /\ byId' = {i \in byId : i.id \notin Ids(moved)}
                    \cup {IndexOf(Hastened(e, seq + rank[e])) : e \in moved}
  /\ seq' = seq + Cardinality(moved)
  /\ UNCHANGED <<phase, now, inFlight, taskVars, diskVars, seenVars, mishaps>>

-----------------------------------------------------------------------------
(* Shutdown, crash and restart: main.rs serve() and Queue::recover.        *)

BeginShutdown ==
  /\ phase = "running" /\ mishaps < MaxMishaps
  /\ phase' = "draining"
  /\ UNCHANGED <<now, queueVars, taskVars, diskVars, seenVars, mishaps>>

\* finish_in_flight: nothing is in flight, or the grace period has run out.
FinishInFlight ==
  /\ phase = "draining"
  /\ phase' = "closing"
  /\ UNCHANGED <<now, queueVars, taskVars, diskVars, seenVars, mishaps>>

\* What ends with the process.
Die ==
  /\ phase' = "down"
  /\ mishaps' = mishaps + 1
  /\ scheduled' = {} /\ byId' = {} /\ inFlight' = {} /\ seq' = 0
  /\ pc' = [w \in Workers |-> "stopped"] /\ held' = [w \in Workers |-> Idle]
  /\ erasing' = {} /\ purging' = {} /\ unread' = {} /\ skipped' = {}
  /\ UNCHANGED <<now, accepted, settled, tries>>

\* serve() aborts the tasks: one that is sending is cut off at its await, one
\* that is unlinking files runs on to its next await first.
Exit ==
  /\ phase = "closing"
  /\ \A w \in Workers : pc[w] # "erasing"
  /\ erasing = {}
  /\ Die
  /\ UNCHANGED <<diskVars, submitted>>

\* A kill at any moment.  remove_spool may have unlinked the metadata and not
\* yet the body (H), and write_spool may be half-way through one message.
Crash ==
  /\ phase # "down" /\ mishaps < MaxMishaps
  /\ Die
  /\ \E H \in SUBSET (IF Persist THEN erasing \cup {held[w].id : w \in Busy \ Sending} ELSE {}) :
       LET left == [m \in Messages |-> IF m \in H THEN [spool[m] EXCEPT !.meta = "absent"]
                                                  ELSE spool[m]]
           writing == IF Persist /\ Up
                      THEN (Messages \ submitted) \cup {held[w].id : w \in Sending}
                      ELSE {} IN
       \/ spool' = left /\ UNCHANGED <<torn, submitted>>
       \/ \E m \in writing : \E p \in HalfWritten(spool[m]) :
            /\ spool' = [left EXCEPT ![m] = p]
            /\ torn' = IF Complete(p) THEN torn \ {m} ELSE torn \cup {m}
            /\ submitted' = submitted \cup {m}

\* A new process: serve() calls recover() before it starts anything else.
Restart ==
  /\ phase = "down"
  /\ phase' = "recovering"
  /\ unread' = {m \in Messages : spool[m].meta # "absent"}
  /\ UNCHANGED <<now, queueVars, pc, held, erasing, purging, skipped, diskVars, seenVars, mishaps>>

StartTasks ==
  /\ phase' = "running"
  /\ pc' = [w \in Workers |-> "top"]

\* recover_one: metadata that does not parse is left alone.
RecoverUnreadable(m) ==
  /\ phase = "recovering" /\ m \in unread /\ spool[m].meta = "torn"
  /\ unread' = unread \ {m}
  /\ skipped' = skipped \cup {m}
  /\ UNCHANGED <<phase, now, queueVars, pc, held, erasing, purging, diskVars, seenVars, mishaps>>

\* recover_one: metadata without a usable body is deleted with what is there.
RecoverDiscard(m) ==
  /\ phase = "recovering" /\ m \in unread
  /\ spool[m].meta = "full" /\ spool[m].body # "full"
  /\ unread' = unread \ {m}
  /\ spool' = [spool EXCEPT ![m] = NoPair]
  /\ UNCHANGED <<phase, now, queueVars, pc, held, erasing, purging, skipped, torn, seenVars, mishaps>>

\* recover_one accepts the metadata, and there is room.  The files say nothing of
\* a decision already taken: settled mail whose files a crash left is owed again.
RecoverLoad(m) ==
  LET e == [id |-> m, due |-> spool[m].due, seq |-> seq, attempts |-> spool[m].attempts] IN
  /\ phase = "recovering" /\ m \in unread /\ Complete(spool[m])
  /\ Cardinality(scheduled) < Capacity
  /\ scheduled' = Insert(scheduled, e)
  /\ byId' = InsertIndex(byId, e)
  /\ seq' = seq + 1
  /\ unread' = unread \ {m}
  /\ settled' = settled \ {m}
  /\ UNCHANGED <<phase, now, inFlight, pc, held, erasing, purging, skipped, diskVars,
                 submitted, accepted, tries, mishaps>>

\* The queue is at its capacity: recover() breaks out of its loop, and what it
\* has not looked at stays on disk.
RecoverBreak(m) ==
  /\ phase = "recovering" /\ m \in unread /\ Complete(spool[m])
  /\ Cardinality(scheduled) >= Capacity
  /\ skipped' = skipped \cup unread
  /\ unread' = {}
  /\ StartTasks
  /\ UNCHANGED <<now, queueVars, held, erasing, purging, diskVars, seenVars, mishaps>>

\* Faulty variant for EventuallyDecided: the workers are not started again.
RecoverDoneIdle ==
  /\ phase = "recovering" /\ unread = {}
  /\ phase' = "running"
  /\ UNCHANGED <<now, queueVars, pc, held, erasing, purging, unread, skipped, diskVars, seenVars, mishaps>>

\* Every entry has been looked at: serve() goes on to start its tasks.
RecoverDone ==
  /\ phase = "recovering" /\ unread = {}
  /\ StartTasks
  /\ UNCHANGED <<now, queueVars, held, erasing, purging, unread, skipped, diskVars, seenVars, mishaps>>

-----------------------------------------------------------------------------
WorkerStep(w) ==
  \/ LoopTop(w)
  \/ \E e \in scheduled : TakeDue(w, e)
  \/ PollEmpty(w)
  \/ Finish(w)
  \/ FinishErase(w)
  \/ Requeue(w)

Recovery ==
  \/ Restart
  \/ \E m \in Messages : RecoverUnreadable(m)
  \/ \E m \in Messages : RecoverDiscard(m)
  \/ \E m \in Messages : RecoverLoad(m)
  \/ \E m \in Messages : RecoverBreak(m)
  \/ RecoverDone

Next ==
  \/ \E m \in Messages, a \in SubmitAttempts : Enqueue(m, a)
  \/ \E m \in Messages, a \in SubmitAttempts : Refuse(m, a)
  \/ \E w \in Workers : WorkerStep(w)
  \/ \E m \in Messages : Remove(m)
  \/ StartPurge
  \/ \E m \in Messages : PurgeOne(m)
  \/ \E m \in Messages : RemoveErase(m)
  \/ FlushNow
  \/ Tick
  \/ BeginShutdown
  \/ FinishInFlight
  \/ Exit
  \/ Crash
  \/ Recovery

Spec == Init /\ [][Next]_vars

\* Worker tasks are woken by an enqueue, a due time or the 500 ms cap of
\* wait_for_work (QueueWakeup shows that they are); an attempt ends by itself (every network step has a timeout);
\* a supervisor starts the process again.
Fairness ==
  /\ \A w \in Workers : WF_vars(WorkerStep(w))
  /\ \A m \in Messages : WF_vars(RemoveErase(m))
  /\ WF_vars(Tick)
  /\ WF_vars(FinishInFlight) /\ WF_vars(Exit) /\ WF_vars(Recovery)

FairSpec == Spec /\ Fairness

-----------------------------------------------------------------------------
(* Properties.                                                             *)

TypeOK ==
  /\ phase \in {"down", "recovering", "running", "draining", "closing"}
  /\ now \in Nat /\ seq \in Nat /\ mishaps \in Nat
  /\ scheduled \subseteq Entry
  /\ byId \subseteq [id : Messages, due : Nat, seq : Nat]
  /\ inFlight \subseteq Messages
  /\ pc \in [Workers -> {"top", "poll", "sending", "erasing", "stopped"}]
  /\ held \in [Workers -> Job]
  /\ erasing \subseteq Messages /\ purging \subseteq Messages
  /\ unread \subseteq Messages /\ skipped \subseteq Messages
  /\ spool \in [Messages -> Pair]
  /\ submitted \subseteq Messages /\ accepted \subseteq submitted
  /\ settled \subseteq accepted /\ torn \subseteq Messages
  /\ tries \in [Messages -> Nat]

\* The map and the id index of Queue::inner describe the same messages, no
\* message is scheduled twice, and no two share a key: BTreeMap::insert under a
\* key in use would silently drop the message already there (queue.rs, Inner).
IndexesAgree ==
  /\ byId = {IndexOf(e) : e \in scheduled}
  /\ \A d, e \in scheduled : d.id = e.id \/ Key(d) = Key(e) => d = e

\* A message is in the hands of one task: waiting in the map, with one worker,
\* or with the operator's removal.  In particular two workers never send the
\* same message, and the in-flight count shutdown waits for is exact.
SingleOwner ==
  /\ inFlight = {held[w].id : w \in Sending}
  /\ \A v, w \in Busy : held[v].id = held[w].id => v = w
  /\ \A w \in Busy : held[w].id \notin Ids(scheduled) \cup erasing
  /\ Ids(scheduled) \cap erasing = {}

\* While a message the relay took over is undecided its files are complete,
\* unless the last attempt to write them was cut short ("Write queued messages
\* to disk so a restart does not lose mail", config.rs:731).
KeptOnDisk ==
  Persist => \A m \in accepted \ (settled \cup torn) : Complete(spool[m])

\* While the process runs, an undecided message is waiting or being sent: no
\* sequence of takes, retries, flushes and purges drops one.  The exceptions
\* are what an earlier process life lost or left on disk.
NothingMislaid ==
  Up => \A m \in accepted \ settled :
          \/ m \in Ids(scheduled) \cup inFlight
          \/ m \in skipped \cup torn
          \/ ~Persist /\ mishaps > 0

\* max_attempts is kept over process lives: an end of the process, or a failed
\* write, forgets at most the attempt it interrupted ("Total delivery attempts
\* before a message is marked dead", config.rs:726).
AttemptsBounded == \A m \in Messages : tries[m] <= MaxAttempts + mishaps

\* requeue() ignores the capacity, but can only bring back what a worker took:
\* the queue never outgrows its capacity by more than one message per worker.
DepthBounded ==
  Cardinality(scheduled) + Cardinality(inFlight) <= Capacity + Cardinality(Workers)

InMemory(m) == m \in Ids(scheduled) \cup inFlight

\* A copy still owed: in memory, or usable on disk and not of settled mail.
Kept(m) == InMemory(m) \/ (Persist /\ Complete(spool[m]) /\ m \notin settled)

\* What the queue holds comes before what was said of a message: mail in memory
\* is kept mail, even if it was refused or settled before.
Fate(m) ==
  CASE Kept(m) -> "kept"
    [] ~Kept(m) /\ m \notin submitted -> "new"
    [] ~Kept(m) /\ m \in submitted \ accepted -> "refused"
    [] ~Kept(m) /\ m \in settled -> "settled"
    [] ~Kept(m) /\ m \in accepted \ settled -> "lost"

Exposed == IF Persist THEN torn ELSE Messages

\* Usable files of settled mail, and the mail whose files a task is to unlink.
Leftover == {m \in settled : Complete(spool[m])}
Unlinking == erasing \cup {held[w].id : w \in {v \in Workers : pc[v] = "erasing"}}

Promise == INSTANCE MailPromise WITH
  up <- Up, fate <- [m \in Messages |-> Fate(m)], exposed <- Exposed,
  lingering <- Leftover \cap Unlinking, stale <- Leftover \ Unlinking

\* The queue implements the promise: only a message whose files were damaged can
\* be lost; nothing refused is kept; and settled mail is sent again only if the
\* process died after finish() or remove() released the mutex and before
\* remove_spool (queue.rs:245-246, 298-299), never after an orderly stop.
PromiseKept == Promise!Spec

\* Every message taken over is decided in the end, and again after a recovery
\* brought it back, if the spool kept it and recovery loaded it.
EventuallyDecided ==
  \A m \in Messages :
    m \in accepted ~> \/ Fate(m) \in {"settled", "lost"}
                      \/ m \in skipped

-----------------------------------------------------------------------------
(* What the properties above rest on: the parts of the inductive invariant *)
(* of DeliveryQueueProofs.                                                 *)

\* The ids some task of this process life is responsible for.
Owned == Ids(scheduled) \cup {held[w].id : w \in Busy} \cup erasing

\* Only mail that was taken over is ever owned or readable on disk.
OnlyAccepted ==
  /\ Owned \subseteq accepted
  /\ \A m \in Messages : spool[m].meta = "full" => m \in accepted
  /\ \A m \in Messages \ submitted : spool[m].meta = "absent"

SeqFresh == \A e \in scheduled : e.seq < seq

\* Between two process lives nothing is owned, and recovery has no task beside it.
PhasesSeparate ==
  /\ phase = "down" => scheduled = {}
  /\ ~Up => Busy = {} /\ inFlight = {} /\ erasing = {}
  /\ unread # {} => phase = "recovering"
  /\ unread \cap Ids(scheduled) = {}

\* What is settled is neither waiting nor being sent.
SettledIsOver == settled \cap (Ids(scheduled) \cup inFlight) = {}

\* Files are only unlinked for what is settled.
ErasedIsSettled ==
  /\ erasing \subseteq settled
  /\ \A w \in Busy \ Sending : held[w].id \in settled

\* A worker that is sending has counted the attempt it is making.
AttemptCounted == \A w \in Sending : held[w].attempts # 0

\* Recovery has still to see, or has noted as skipped, what it must bring back.
RecoveryComplete ==
  phase = "recovering" =>
    \A m \in accepted \ settled :
      \/ m \in Ids(scheduled) \cup unread \cup skipped \cup torn
      \/ ~Persist /\ mishaps > 0

\* Each copy of a message - scheduled, being sent, on disk - counts the attempts
\* made, less those that process ends and failed writes have forgotten.
CountsKept ==
  /\ \A e \in scheduled : /\ e.attempts < MaxAttempts
                           /\ tries[e.id] <= e.attempts + mishaps
  /\ \A w \in Sending : /\ held[w].attempts \in 1..MaxAttempts
                         /\ tries[held[w].id] <= held[w].attempts + mishaps
  /\ \A m \in Messages :
       spool[m].meta = "full" =>
         /\ spool[m].attempts < MaxAttempts
         /\ tries[m] <= spool[m].attempts + mishaps
                          + (IF m \in {held[w].id : w \in Busy} THEN 1 ELSE 0)

-----------------------------------------------------------------------------
\* What the documentation says of persist, without exception: "Write queued
\* messages to disk so a restart does not lose mail" (config.rs:731).
RestartLosesNoMail == Persist => \A m \in Messages : Fate(m) # "lost"

\* After a restart every usable pair of spool files is back in the queue
\* ("Reloads spooled messages after a restart", queue.rs:408).
SpoolReloaded ==
  Up => \A m \in accepted \ settled : Complete(spool[m]) => InMemory(m)

=============================================================================
