----------------------------- MODULE QueueWakeup -----------------------------
(***************************************************************************)
(* How a worker learns of work: wait_for_work (queue.rs), between a failed *)
(* take_due and the next look, and the notifications of enqueue, requeue   *)
(* and flush_now.  The delay is computed, then the wait begins: a message  *)
(* may come in between, or its notification go to another worker.          *)
(*                                                                         *)
(* Time is in ticks and relative.  A tick passes when no task but those    *)
(* waiting for the network or a timer has anything to do.                  *)
(***************************************************************************)
EXTENDS Integers, Sequences, FiniteSets

CONSTANTS
  Messages,  \* those that can be in the queue at once; an id may stand for many
  Workers,
  MaxIdle,   \* the 500 ms of run_queue_worker
  Delays     \* the retry delays

ASSUME WakeupAssumption ==
  /\ IsFiniteSet(Messages) /\ IsFiniteSet(Workers)
  /\ MaxIdle \in Nat \ {0} /\ Delays \subseteq Nat \ {0}

VARIABLES
  line,      \* Inner.scheduled: ids, with the ticks until each is due
  pc,        \* where each worker is
  timer,     \* the delay it computed, then what is left of it
  job,       \* the message it sends
  permit,    \* Notify: a notification nobody was waiting for
  woken,     \* Notify: what each waiter has been sent
  posting,   \* messages whose enqueue has yet to notify
  flushing,  \* a flush_now that has yet to notify
  stopping,  \* is_shutting_down
  since      \* ticks since it is set

notifyVars == <<permit, woken>>
vars == <<line, pc, timer, job, notifyVars, posting, flushing, stopping, since>>

Seqs == INSTANCE SequencesExt

None == "none"                \* no message; no notification
Late == -(MaxIdle + 1)        \* overdue by so much or more
Lesser(a, b) == IF a < b THEN a ELSE b
Greater(a, b) == IF a > b THEN a ELSE b

Waiting == {m \in Messages : \E i \in DOMAIN line : line[i].id = m}
Sent == {job[w] : w \in Workers}
Due == line # <<>> /\ line[1].in <= 0

\* The map is ordered by due time, then by sequence number.
With(m, in) ==
  Seqs!InsertAt(line, Cardinality({i \in DOMAIN line : line[i].in <= in}) + 1, [id |-> m, in |-> in])

\* What recover loaded - one message, if any - is announced before the workers start.
Init ==
  /\ \E found \in BOOLEAN : \E m \in Messages, d \in Delays \cup {0} :
       /\ line = IF found THEN <<[id |-> m, in |-> d]>> ELSE <<>>
       /\ permit = found
  /\ pc = [w \in Workers |-> "top"] /\ timer = [w \in Workers |-> 0]
  /\ job = [w \in Workers |-> None] /\ woken = [w \in Workers |-> None]
  /\ posting = {} /\ flushing = FALSE /\ stopping = FALSE /\ since = 0

-----------------------------------------------------------------------------
(* tokio's Notify, given what the waiters have been sent so far.           *)

Unnotified(sent) == {w \in Workers : pc[w] = "asleep" /\ sent[w] = None}

\* notify_one: a waiter, or else a permit for the next.
NotifyOne(sent) ==
  IF Unnotified(sent) = {} THEN permit' = TRUE /\ woken' = sent
  ELSE /\ \E w \in Unnotified(sent) : woken' = [sent EXCEPT ![w] = "one"]
       /\ UNCHANGED permit

NotifyWaiters == [w \in Workers |-> IF w \in Unnotified(woken) THEN "all" ELSE woken[w]]

-----------------------------------------------------------------------------
(* Submission and the operator.  The notification follows the unlock.      *)

Enqueue(m, d) ==
  /\ m \notin Waiting \cup Sent \cup posting
  /\ line' = With(m, d) /\ posting' = posting \cup {m}
  /\ UNCHANGED <<pc, timer, job, notifyVars, flushing, stopping, since>>

\* Faulty variant for DueIsNoticed: a notification for those who wait already.
AnnounceToWaiters(m) ==
  /\ m \in posting /\ posting' = posting \ {m}
  /\ woken' = NotifyWaiters
  /\ UNCHANGED <<line, pc, timer, job, permit, flushing, stopping, since>>

Announce(m) ==
  /\ m \in posting /\ posting' = posting \ {m}
  /\ NotifyOne(woken)
  /\ UNCHANGED <<line, pc, timer, job, flushing, stopping, since>>

Remove(m) ==
  /\ \E i \in DOMAIN line : line[i].id = m /\ line' = Seqs!RemoveAt(line, i)
  /\ UNCHANGED <<pc, timer, job, notifyVars, posting, flushing, stopping, since>>

\* What was not due moves behind what was, in its order.
FlushNow ==
  /\ ~flushing /\ \E i \in DOMAIN line : line[i].in > 0
  /\ line' = [i \in DOMAIN line |-> [line[i] EXCEPT !.in = Lesser(@, 0)]]
  /\ flushing' = TRUE
  /\ UNCHANGED <<pc, timer, job, notifyVars, posting, stopping, since>>

AnnounceFlush ==
  /\ flushing /\ flushing' = FALSE
  /\ NotifyOne(NotifyWaiters)
  /\ UNCHANGED <<line, pc, timer, job, posting, stopping, since>>

-----------------------------------------------------------------------------
(* The worker.                                                             *)

Goes(w, place) == pc' = [pc EXCEPT ![w] = place]

LoopTop(w) ==
  /\ pc[w] = "top"
  /\ Goes(w, IF stopping THEN "stopped" ELSE "look")
  /\ UNCHANGED <<line, timer, job, notifyVars, posting, flushing, stopping, since>>

TakeDue(w) ==
  /\ pc[w] = "look" /\ Due
  /\ job' = [job EXCEPT ![w] = line[1].id] /\ line' = Tail(line)
  /\ Goes(w, "sending")
  /\ UNCHANGED <<timer, notifyVars, posting, flushing, stopping, since>>

NothingDue(w) ==
  /\ pc[w] = "look" /\ ~Due
  /\ Goes(w, "measure")
  /\ UNCHANGED <<line, timer, job, notifyVars, posting, flushing, stopping, since>>

\* Faulty variant for HeedsInTime: the wait is capped only while the queue is empty.
MeasureUncapped(w) ==
  LET delay == IF line = <<>> THEN MaxIdle ELSE Greater(line[1].in, 0) IN
  /\ pc[w] = "measure"
  /\ Goes(w, IF delay = 0 THEN "top" ELSE "pause")
  /\ timer' = [timer EXCEPT ![w] = delay]
  /\ UNCHANGED <<line, job, notifyVars, posting, flushing, stopping, since>>

\* time_until_due, under the mutex once more.
Measure(w) ==
  LET delay == IF line = <<>> THEN MaxIdle ELSE Lesser(Greater(line[1].in, 0), MaxIdle) IN
  /\ pc[w] = "measure"
  /\ Goes(w, IF delay = 0 THEN "top" ELSE "pause")
  /\ timer' = [timer EXCEPT ![w] = delay]
  /\ UNCHANGED <<line, job, notifyVars, posting, flushing, stopping, since>>

\* The select: a permit ends it at once.
Sleep(w) ==
  /\ pc[w] = "pause"
  /\ permit' = FALSE
  /\ IF permit THEN Goes(w, "top") /\ timer' = [timer EXCEPT ![w] = 0]
     ELSE Goes(w, "asleep") /\ UNCHANGED timer
  /\ UNCHANGED <<line, job, woken, posting, flushing, stopping, since>>

\* A notification, or the timer.  If the timer is served although a notification
\* for one came too, dropping the wait hands it on.
Wake(w) ==
  /\ pc[w] = "asleep"
  /\ Goes(w, "top") /\ timer' = [timer EXCEPT ![w] = 0]
  /\ LET rest == [woken EXCEPT ![w] = None]
     IN  \/ (woken[w] # None \/ timer[w] = 0) /\ woken' = rest /\ UNCHANGED permit
         \/ /\ timer[w] = 0 /\ woken[w] = "one"
            /\ LET others == {v \in Unnotified(rest) : v # w}
               IN  IF others = {} THEN permit' = TRUE /\ woken' = rest
                   ELSE (\E v \in others : woken' = [rest EXCEPT ![v] = "one"]) /\ UNCHANGED permit
  /\ UNCHANGED <<line, job, posting, flushing, stopping, since>>

\* The attempt is the last, or its message is requeued.
Finish(w) ==
  /\ pc[w] = "sending" /\ Goes(w, "top") /\ job' = [job EXCEPT ![w] = None]
  /\ UNCHANGED <<line, timer, notifyVars, posting, flushing, stopping, since>>

Requeue(w, d) ==
  /\ pc[w] = "sending" /\ Goes(w, "requeued")
  /\ line' = With(job[w], d) /\ job' = [job EXCEPT ![w] = None]
  /\ UNCHANGED <<timer, notifyVars, posting, flushing, stopping, since>>

AnnounceRetry(w) ==
  /\ pc[w] = "requeued" /\ Goes(w, "top")
  /\ NotifyOne(woken)
  /\ UNCHANGED <<line, timer, job, posting, flushing, stopping, since>>

-----------------------------------------------------------------------------
Shutdown ==
  /\ ~stopping /\ stopping' = TRUE
  /\ UNCHANGED <<line, pc, timer, job, notifyVars, posting, flushing, since>>

Asleep(w) == pc[w] = "asleep" /\ woken[w] = None /\ timer[w] > 0

Tick ==
  /\ posting = {} /\ ~flushing
  /\ \A w \in Workers : pc[w] \in {"sending", "stopped"} \/ Asleep(w)
  /\ line' = [i \in DOMAIN line |-> [line[i] EXCEPT !.in = Greater(@ - 1, Late)]]
  /\ timer' = [w \in Workers |-> IF Asleep(w) THEN timer[w] - 1 ELSE timer[w]]
  /\ since' = IF stopping THEN Lesser(since + 1, MaxIdle + 1) ELSE 0
  /\ UNCHANGED <<pc, job, notifyVars, posting, flushing, stopping>>

Step(w) ==
  \/ LoopTop(w) \/ TakeDue(w) \/ NothingDue(w) \/ Measure(w) \/ Sleep(w) \/ Wake(w)
  \/ Finish(w) \/ (\E d \in Delays : Requeue(w, d)) \/ AnnounceRetry(w)

Next ==
  \/ \E m \in Messages :
       (\E d \in Delays \cup {0} : Enqueue(m, d)) \/ Announce(m) \/ Remove(m)
  \/ FlushNow \/ AnnounceFlush
  \/ \E w \in Workers : Step(w)
  \/ Shutdown \/ Tick

Spec == Init /\ [][Next]_vars

-----------------------------------------------------------------------------
(* Properties.                                                             *)

TypeOK ==
  /\ line \in Seq([id : Messages, in : Int])
  /\ \A i, j \in DOMAIN line : i < j => line[i].in <= line[j].in /\ line[i].id # line[j].id
  /\ pc \in [Workers -> {"top", "look", "measure", "pause", "asleep", "sending",
                          "requeued", "stopped"}]
  /\ timer \in [Workers -> Nat] /\ job \in [Workers -> Messages \cup {None}]
  /\ permit \in BOOLEAN /\ woken \in [Workers -> {None, "one", "all"}]
  /\ posting \subseteq Messages /\ flushing \in BOOLEAN
  /\ stopping \in BOOLEAN /\ since \in Nat

\* Mail that is due, and announced, never finds all workers asleep: one is on its way
\* to look, or will look as soon as its attempt ends.  A notification may be taken by
\* a worker that has seen other work, two may become one permit, and a delay may be
\* out of date when the wait begins, but none is lost that matters (wait_for_work).
DueIsNoticed ==
  Due /\ ~stopping /\ posting = {} /\ ~flushing /\ Workers # {} => \E w \in Workers : ~Asleep(w)

\* While one worker is busy the others may oversleep, but for no longer than the cap:
\* none sleeps on when mail has been due, or the process stopping, for that long
\* ("Wakes on enqueue, on the next due time, or after `max_idle` so shutdown stays
\* responsive", queue.rs:341).
HeedsInTime ==
  \A w \in Workers : Asleep(w) =>
    /\ since < MaxIdle
    /\ \A i \in DOMAIN line : line[i].in > -MaxIdle
=============================================================================
