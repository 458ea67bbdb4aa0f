------------------------------ MODULE Dispatch ------------------------------
(***************************************************************************)
(* The way of one message (dispatch.rs): submitted by an SMTP session,     *)
(* attempted at once or queued, its recipients checked, sent to one relay   *)
(* after another, retried, and answered, counted and logged.  The session   *)
(* and a queue worker may be at it at the same time.  Other messages meet   *)
(* it in the relays, the queue's capacity and the log's cache only, so that *)
(* a relay without quota, a full queue and an eviction are free choices     *)
(* here; Selector, RelayRuntime and DeliveryQueue say when they happen.     *)
(***************************************************************************)
EXTENDS ActivityLog, Validation

CONSTANTS
  Relays,
  Rounds,       \* routing.max_attempts_per_message, at least 1
  MaxAttempts   \* queue.max_attempts

ASSUME DispatchAssumption ==
  /\ IsFiniteSet(Relays) /\ Recipients # {}
  /\ Rounds \in Nat \ {0} /\ MaxAttempts \in Nat \ {0}

VARIABLES
  setup,    \* submission mode, fallback_on_failure, and what the mail is like
  client,   \* where the session is in submit
  reply,    \* what it has told the client
  place,    \* of the message in the queue
  rcpts,    \* whom it still goes to
  attempts, \* message.attempts
  at,       \* where attempt_delivery is
  tried,    \* `attempted`, the relays of this attempt
  left,     \* rounds left
  outcome,  \* of the last attempt
  counted,  \* the process-wide counters, this message's share
  sent,     \* times it was handed to each relay; read by properties only
  taken     \* times a relay accepted it, and times its reply was lost; likewise

taskVars == <<rcpts, attempts, at, tried, left, outcome, sent, taken>>
vars == <<setup, client, reply, place, counted, taskVars, logVars, checkVars>>

Modes == {"queue", "direct", "hybrid"}
Mails == {"good", "bad_envelope", "no_header"}

Init ==
  /\ setup \in [mode : Modes, fallback : BOOLEAN, mail : Mails]
  /\ client = "new" /\ reply = "none" /\ place = "none"
  /\ rcpts = Recipients /\ attempts = 0
  /\ at = "idle" /\ tried = {} /\ left = 0 /\ outcome = "none"
  /\ counted = [delivered |-> 0, failed |-> 0, dead |-> 0, rejected |-> 0]
  /\ sent = [r \in Relays |-> 0]
  /\ taken = [times |-> 0, lost |-> 0]
  /\ LogInit /\ CheckInit

Count(fields) == counted' = [f \in DOMAIN counted |->
                               counted[f] + IF f \in fields THEN 1 ELSE 0]

-----------------------------------------------------------------------------
(* submit                                                                  *)

Answers(answer) == client' = "done" /\ reply' = answer

Submit ==
  /\ client = "new" /\ Store("accepted")
  /\ IF setup.mode = "queue" THEN client' = "enqueuing" /\ UNCHANGED at
     ELSE client' = "attempting" /\ at' = "called"
  /\ UNCHANGED <<setup, reply, place, counted, checkVars,
                 rcpts, attempts, tried, left, outcome, sent, taken>>

\* enqueue and schedule_retry publish the message to the workers, then note it.
Enqueue ==
  /\ client = "enqueuing"
  /\ client' = "noting" /\ place' = "waiting"
  /\ UNCHANGED <<setup, reply, counted, taskVars, logVars, checkVars>>

Note ==
  /\ client = "noting" /\ Store("queued") /\ Answers("queued")
  /\ UNCHANGED <<setup, place, counted, taskVars, checkVars>>

\* A full or closed queue.  enqueue counts and logs the refusal, schedule_retry does
\* neither; the session counts every refusal once more.
EnqueueRefused ==
  /\ client = "enqueuing" /\ Answers("temporary")
  /\ IF setup.mode = "queue"
     THEN /\ Store("rejected")
          /\ counted' = [counted EXCEPT !.rejected = @ + 2]
     ELSE Count({"rejected"}) /\ UNCHANGED logVars
  /\ UNCHANGED <<setup, place, taskVars, checkVars>>

\* attempt_delivery has returned, and its locals are gone.
AttemptReturns ==
  /\ at = "ended" /\ at' = "idle"
  /\ tried' = {} /\ left' = 0 /\ outcome' = "none"

\* Faulty variant for ClientTruth: a transient failure is swallowed in direct mode.
InlineEndsSwallow ==
  /\ client = "attempting" /\ AttemptReturns
  /\ CASE outcome = "delivered" -> Answers("delivered") /\ UNCHANGED counted
       [] outcome = "failed" -> Answers("permanent") /\ Count({"rejected"})
       [] outcome = "deferred" -> Answers("queued") /\ UNCHANGED counted
  /\ UNCHANGED <<setup, place, logVars, checkVars,
                 rcpts, attempts, sent, taken>>

\* The attempt the session waited for has ended.
InlineEnds ==
  /\ client = "attempting" /\ AttemptReturns
  /\ CASE outcome = "delivered" -> Answers("delivered") /\ UNCHANGED counted
       [] outcome = "failed" -> Answers("permanent") /\ Count({"rejected"})
       [] outcome = "deferred" /\ setup.mode = "direct" ->
            Answers("temporary") /\ Count({"rejected"})
       [] outcome = "deferred" /\ setup.mode = "hybrid" ->
            client' = "enqueuing" /\ UNCHANGED <<reply, counted>>
  /\ UNCHANGED <<setup, place, logVars, checkVars,
                 rcpts, attempts, sent, taken>>

-----------------------------------------------------------------------------
(* attempt_delivery                                                        *)

Begin ==
  /\ at = "called" /\ Store("sending")
  /\ attempts' = attempts + 1
  /\ tried' = {} /\ left' = Rounds /\ outcome' = "none"
  /\ IF attempts = 0 /\ ValidationOn
     THEN at' = "checking" /\ StartChecks(rcpts)
     ELSE at' = "routing" /\ UNCHANGED checkVars
  /\ UNCHANGED <<setup, client, reply, place, counted, rcpts, sent, taken>>

Check ==
  /\ at = "checking" /\ CheckStep
  /\ UNCHANGED <<setup, client, reply, place, counted, taskVars, logVars>>

\* finish_deferred and finish_failed.
Defers == at' = "ended" /\ outcome' = "deferred" /\ Store("deferred") /\ UNCHANGED counted
FailsForGood == at' = "ended" /\ outcome' = "failed" /\ Store("failed") /\ Count({"failed"})
GoesOn == at' = "routing" /\ UNCHANGED <<outcome, counted, logVars>>

\* filter_recipients returns, and what it kept of the checks is dropped.
Checked ==
  LET valid == {r \in rcpts : check[r] = "deliver"}
  IN  /\ at = "checking" /\ \A r \in rcpts : Decided(r)
      /\ IF valid = {} THEN FailsForGood /\ UNCHANGED rcpts ELSE GoesOn /\ rcpts' = valid
      /\ ForgetChecks
      /\ UNCHANGED <<setup, client, reply, place, attempts, tried, left, sent, taken>>

\* No relay is eligible, or the rounds are over.
NoRoute ==
  /\ at = "routing" /\ Defers
  /\ UNCHANGED <<setup, client, reply, place, checkVars,
                 rcpts, attempts, tried, left, sent, taken>>

\* Faulty variant for SendsBounded: a relay may be chosen twice in an attempt.
PicksAny(r) == at = "routing" /\ left > 0 /\ tried' = tried /\ left' = left

Picks(r) ==
  /\ at = "routing" /\ left > 0 /\ r \notin tried
  /\ tried' = tried \cup {r} /\ left' = left - 1

\* The quota went to another message since the relay was selected: the round is spent.
Skip(r) ==
  /\ Picks(r) /\ GoesOn
  /\ UNCHANGED <<setup, client, reply, place, checkVars, rcpts, attempts, sent, taken>>

\* Reserved and rewritten; a message without a header is given up.
Send(r) ==
  /\ Picks(r)
  /\ IF setup.mail = "no_header" THEN FailsForGood /\ UNCHANGED sent
     ELSE /\ at' = "sending"
          /\ sent' = [sent EXCEPT ![r] = @ + 1]
          /\ UNCHANGED <<outcome, counted, logVars>>
  /\ UNCHANGED <<setup, client, reply, place, checkVars, rcpts, attempts, taken>>

\* What a send that failed says: 5xx or not, and the code found in the error.
Errors == {[permanent |-> FALSE, code |-> "none"], [permanent |-> FALSE, code |-> "4xx"],
           [permanent |-> TRUE, code |-> "auth"], [permanent |-> TRUE, code |-> "command"],
           [permanent |-> TRUE, code |-> "other"]}
BadEnvelope == [permanent |-> TRUE, code |-> "none"]

IsRelayFault(error) == error.code # "other"
ShouldRetry(error) == ~error.permanent \/ IsRelayFault(error)

\* Faulty variant for OneOutcome: a permanent failure also goes to the next relay.
FailedWithRetry(error) ==
  /\ at' = "routing" /\ UNCHANGED <<outcome, logVars, left>>
  /\ IF ShouldRetry(error) THEN UNCHANGED counted ELSE Count({"failed"})

Failed(error) ==
  IF ShouldRetry(error)
  THEN GoesOn /\ left' = IF setup.fallback THEN left ELSE 0
  ELSE FailsForGood /\ UNCHANGED left

Delivered ==
  /\ at = "sending" /\ setup.mail = "good"
  /\ at' = "ended" /\ outcome' = "delivered" /\ Store("delivered") /\ Count({"delivered"})
  /\ taken' = [taken EXCEPT !.times = @ + 1]
  /\ UNCHANGED <<setup, client, reply, place, checkVars, rcpts, attempts, tried, left, sent>>

NotDelivered ==
  /\ at = "sending"
  /\ IF setup.mail = "bad_envelope" THEN Failed(BadEnvelope) ELSE \E e \in Errors : Failed(e)
  /\ UNCHANGED <<setup, client, reply, place, checkVars, rcpts, attempts, tried, sent, taken>>

\* The relay took the message but its reply did not arrive in time.
ReplyLost ==
  /\ at = "sending" /\ setup.mail = "good"
  /\ taken' = [times |-> taken.times + 1, lost |-> taken.lost + 1]
  /\ Failed([permanent |-> FALSE, code |-> "none"])
  /\ UNCHANGED <<setup, client, reply, place, checkVars, rcpts, attempts, tried, sent>>

-----------------------------------------------------------------------------
(* run_queue_worker                                                        *)

TakeDue ==
  /\ place = "waiting" /\ at = "idle"
  /\ place' = "active" /\ at' = "called"
  /\ UNCHANGED <<setup, client, reply, counted, logVars, checkVars,
                 rcpts, attempts, tried, left, outcome, sent, taken>>

\* Faulty variant for RecordTells: giving up is counted and not logged.
WorkerEndsUnlogged ==
  /\ place = "active" /\ AttemptReturns
  /\ place' = IF outcome = "deferred" /\ attempts < MaxAttempts THEN "waiting" ELSE "gone"
  /\ IF outcome = "deferred" /\ attempts >= MaxAttempts
     THEN Count({"failed", "dead"}) ELSE UNCHANGED counted
  /\ UNCHANGED <<setup, client, reply, checkVars, logVars,
                 rcpts, attempts, sent, taken>>

\* Faulty variant for EventuallySettled: a message is requeued as it was taken.
WorkerEndsStale ==
  LET dead == outcome = "deferred" /\ attempts >= MaxAttempts
  IN  /\ place = "active" /\ AttemptReturns
      /\ place' = IF outcome = "deferred" /\ ~dead THEN "waiting" ELSE "gone"
      /\ attempts' = IF place' = "waiting" THEN attempts - 1 ELSE attempts
      /\ IF dead THEN Count({"failed", "dead"}) /\ Store("failed")
         ELSE UNCHANGED <<counted, logVars>>
      /\ UNCHANGED <<setup, client, reply, checkVars,
                     rcpts, sent, taken>>

\* finish, dead letter, or requeue.
WorkerEnds ==
  LET dead == outcome = "deferred" /\ attempts >= MaxAttempts
  IN  /\ place = "active" /\ AttemptReturns
      /\ place' = IF outcome = "deferred" /\ ~dead THEN "waiting" ELSE "gone"
      /\ IF dead THEN Count({"failed", "dead"}) /\ Store("failed")
         ELSE UNCHANGED <<counted, logVars>>
      /\ UNCHANGED <<setup, client, reply, checkVars,
                     rcpts, attempts, sent, taken>>

-----------------------------------------------------------------------------
Session == Submit \/ Enqueue \/ EnqueueRefused \/ Note \/ InlineEnds
Attempt ==
  \/ Begin \/ Check \/ Checked \/ NoRoute \/ Delivered \/ NotDelivered \/ ReplyLost
  \/ \E r \in Relays : Skip(r) \/ Send(r)
Worker == TakeDue \/ WorkerEnds
\* The checks neither read nor write the log: what befalls it during them may as well
\* befall it before or after.
Log ==
  /\ at # "checking" /\ LogStep
  /\ UNCHANGED <<setup, client, reply, place, counted, taskVars, checkVars>>

Over == client = "done" /\ place \in {"none", "gone"}

Next == Session \/ Attempt \/ Worker \/ Log

Spec == Init /\ [][Next]_vars

\* Tasks that can go on are scheduled; every request and every send has a time limit.
FairSpec == Spec /\ WF_vars(Session) /\ WF_vars(Attempt) /\ WF_vars(Worker)

-----------------------------------------------------------------------------
(* Properties.                                                             *)

\* Bounds of TypeOK: an attempt more than MaxAttempts in hybrid mode, where the
\* inline attempt is not checked against it.
Attempts == 0..MaxAttempts + 1

TypeOK ==
  /\ setup \in [mode : Modes, fallback : BOOLEAN, mail : Mails]
  /\ client \in {"new", "attempting", "enqueuing", "noting", "done"}
  /\ reply \in {"none", "queued", "delivered", "temporary", "permanent"}
  /\ place \in {"none", "waiting", "active", "gone"}
  /\ rcpts \subseteq Recipients /\ rcpts # {} /\ attempts \in Attempts
  /\ at \in {"idle", "called", "checking", "routing", "sending", "ended"}
  /\ tried \subseteq Relays /\ left \in 0..Rounds
  /\ outcome \in {"none", "delivered", "deferred", "failed"}
  /\ counted \in [{"delivered", "failed", "dead", "rejected"} -> Nat]
  /\ sent \in [Relays -> Nat] /\ taken \in [times : Nat, lost : Nat]
  /\ {live, filed} \subseteq Statuses \cup {"none"}

\* Whatever relays, checks and the queue do, a message is counted as delivered or as
\* failed at most once, exactly once when the client was told it is delivered or
\* queued and it has left the queue, and an upstream relay has accepted it a second
\* time only after a reply was lost.
OneOutcome ==
  /\ counted.delivered + counted.failed <= 1
  /\ Over /\ reply \in {"delivered", "queued"} => counted.delivered + counted.failed = 1
  /\ taken.times = counted.delivered + taken.lost

\* The reply the client acts on is right when it is given and stays so: mail it
\* must send again is held nowhere and was taken by no relay that said so, mail it may
\* forget is delivered, held by the queue, or accounted for as failed.
ClientTruth ==
  /\ reply \in {"temporary", "permanent"} => place = "none" /\ counted.delivered = 0
  /\ reply = "permanent" => counted.failed = 1
  /\ reply = "delivered" => counted.delivered = 1
  /\ reply = "queued" =>
       place \in {"waiting", "active"} \/ counted.delivered + counted.failed = 1

\* However attempts, rounds and skipped relays mix, no relay is handed the message
\* more often than there were attempts, an attempt hands it over at most Rounds times
\* and once without fallback, and attempts end at MaxAttempts, or after the one that
\* follows an inline attempt in hybrid mode.
AttemptLimit == IF setup.mode = "hybrid" /\ MaxAttempts = 1 THEN 2 ELSE MaxAttempts
Handed == Cardinality({h \in Relays \X (Attempts \ {0}) : h[2] <= sent[h[1]]})
SendsBounded ==
  /\ attempts <= AttemptLimit
  /\ \A r \in Relays : sent[r] <= attempts
  /\ Handed <= attempts * IF setup.fallback THEN Rounds ELSE 1

\* Once all is over the log shows how the message ended, although the cache forgets,
\* two tasks write to it, the operator clears it and only the last line counts.  There
\* are two exceptions: a message whose session notes it as queued after the worker has
\* finished stays `queued`, and an update made during a clear may be lost.
Ending ==
  CASE counted.delivered = 1 -> {"delivered"}
    [] counted.failed = 1 -> {"failed"}
    [] counted.delivered + counted.failed = 0 -> {"rejected", "deferred"}
RecordTells ==
  Over /\ ~clearing.missed =>
    Shown \in Ending \cup (IF reply = "queued" THEN {"queued"} ELSE {})
                     \cup (IF clearing.step \in {"cached", "done"} THEN {"none"} ELSE {})

\* Every client gets its answer and every accepted message leaves the queue.
EventuallySettled == <>Over
=============================================================================
