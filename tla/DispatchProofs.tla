--------------------------- MODULE DispatchProofs ---------------------------
(***************************************************************************)
(* For any recipients, servers, endpoints and relays, and any limits: what *)
(* the checks decide follows what was said, a message has one outcome, the *)
(* client is told the truth about it, and the log shows it.                *)
(***************************************************************************)
EXTENDS Dispatch, FiniteSetTheorems, TLAPS

-----------------------------------------------------------------------------
(* Where a message is, and what has been counted.                          *)

Counters == {"delivered", "failed", "dead", "rejected"}
Working == {"called", "checking", "routing", "sending"}

Bookkept ==
  /\ setup \in [mode : Modes, fallback : BOOLEAN, mail : Mails]
  /\ client \in {"new", "attempting", "enqueuing", "noting", "done"}
  /\ reply \in {"none", "queued", "delivered", "temporary", "permanent"}
  /\ place \in {"none", "waiting", "active", "gone"}
  /\ at \in Working \cup {"idle", "ended"}
  /\ outcome \in {"none", "delivered", "deferred", "failed"}
  /\ counted \in [Counters -> Nat]
  /\ taken \in [times : Nat, lost : Nat]

\* An attempt is the session's or a worker's; the queue has the message once the
\* session has put it there; and the reply says whether it did.
Whereabouts ==
  /\ at # "idle" <=> client = "attempting" \/ place = "active"
  /\ at = "ended" <=> outcome # "none"
  /\ client \in {"new", "attempting", "enqueuing"} => place = "none"
  /\ client = "noting" => place # "none"
  /\ client = "done" <=> reply # "none"
  /\ client = "done" => (place = "none" <=> reply # "queued")
  /\ client = "attempting" => setup.mode # "queue"

\* No message is counted before its outcome is known, and every outcome is counted.
Accounts ==
  /\ taken.times = counted.delivered + taken.lost
  /\ counted.delivered + counted.failed <= 1
  /\ at = "ended" =>
       /\ counted.delivered = 1 <=> outcome = "delivered"
       /\ counted.failed = 1 <=> outcome = "failed"
  /\ at \in Working \/ client \in {"new", "enqueuing"} \/ place = "waiting" \/ reply = "temporary" =>
       counted.delivered = 0 /\ counted.failed = 0
  /\ place = "gone" => counted.delivered + counted.failed = 1
  /\ reply = "delivered" => counted.delivered = 1
  /\ reply = "permanent" => counted.failed = 1

Books == Bookkept /\ Whereabouts /\ Accounts

LEMMA Counting ==
  ASSUME counted \in [Counters -> Nat], NEW F, Count(F)
  PROVE  /\ counted' \in [Counters -> Nat]
         /\ counted'.delivered = counted.delivered + IF "delivered" \in F THEN 1 ELSE 0
         /\ counted'.failed = counted.failed + IF "failed" \in F THEN 1 ELSE 0
  BY DEF Counters, Count

LEMMA Counted ==
  ASSUME Bookkept
  PROVE  /\ counted.delivered \in Nat /\ counted.failed \in Nat
         /\ taken.times \in Nat /\ taken.lost \in Nat
  BY DEF Bookkept, Counters

\* The four ways in which an attempt takes a step.
Continues ==
  /\ at' \in Working /\ outcome' = "none"
  /\ UNCHANGED counted
  /\ \/ UNCHANGED taken
     \/ taken' = [times |-> taken.times + 1, lost |-> taken.lost + 1]
  /\ UNCHANGED logVars \/ Store("sending")

Resolves(o, fields) ==
  /\ at' = "ended" /\ outcome' = o /\ Store(o)
  /\ IF fields = {} THEN UNCHANGED counted ELSE Count(fields)
  /\ taken' = IF o = "delivered" THEN [taken EXCEPT !.times = @ + 1] ELSE taken

AttemptStep ==
  /\ at \in Working
  /\ UNCHANGED <<setup, client, reply, place>>
  /\ \/ Continues
     \/ Resolves("deferred", {})
     \/ Resolves("failed", {"failed"})
     \/ Resolves("delivered", {"delivered"})

LEMMA FailedSteps ==
  ASSUME Books, at = "sending", NEW e, Failed(e),
         UNCHANGED <<setup, client, reply, place, taken>>
  PROVE  AttemptStep
  <1>1. CASE ShouldRetry(e)
    <2>1. GoesOn BY <1>1 DEF Failed
    <2>2. Continues BY <2>1 DEF GoesOn, Continues, Working, Books, Whereabouts
    <2> QED BY <2>2 DEF AttemptStep, Working
  <1>2. CASE ~ShouldRetry(e)
    <2>1. FailsForGood BY <1>2 DEF Failed
    <2>2. Resolves("failed", {"failed"}) BY <2>1 DEF FailsForGood, Resolves
    <2> QED BY <2>2 DEF AttemptStep, Working
  <1> QED BY <1>1, <1>2

LEMMA AttemptSteps ==
  ASSUME Books, Attempt
  PROVE  AttemptStep
  <1>0. at \in Working => outcome = "none" BY DEF Books, Whereabouts, Working
  <1>1. CASE Begin
    <2>1. at' \in {"checking", "routing"} /\ outcome' = "none" /\ Store("sending")
      BY <1>1 DEF Begin
    <2>2. Continues BY <1>1, <2>1 DEF Begin, Continues, Working
    <2> QED BY <1>1, <2>2 DEF Begin, AttemptStep, Working
  <1>2. CASE Check
    <2>1. Continues BY <1>0, <1>2 DEF Check, Continues, Working, taskVars
    <2> QED BY <1>2, <2>1 DEF Check, AttemptStep, Working
  <1>3. CASE Checked
    <2>1. at = "checking" /\ UNCHANGED <<setup, client, reply, place, taken>> BY <1>3 DEF Checked
    <2>2. FailsForGood \/ GoesOn BY <1>3 DEF Checked
    <2>3. FailsForGood => Resolves("failed", {"failed"}) BY <2>1 DEF FailsForGood, Resolves
    <2>4. GoesOn => Continues BY <1>0, <2>1 DEF GoesOn, Continues, Working
    <2> QED BY <2>1, <2>2, <2>3, <2>4 DEF AttemptStep, Working
  <1>4. CASE NoRoute
    <2>1. Resolves("deferred", {}) BY <1>4 DEF NoRoute, Defers, Resolves
    <2> QED BY <1>4, <2>1 DEF NoRoute, AttemptStep, Working
  <1>5. CASE Delivered
    <2>1. Resolves("delivered", {"delivered"}) BY <1>5 DEF Delivered, Resolves
    <2> QED BY <1>5, <2>1 DEF Delivered, AttemptStep, Working
  <1>6. CASE NotDelivered
    <2>1. PICK e : Failed(e) BY <1>6 DEF NotDelivered
    <2> QED BY <1>6, <2>1, FailedSteps DEF NotDelivered
  <1>7. CASE ReplyLost
    <2>1. ShouldRetry([permanent |-> FALSE, code |-> "none"]) BY DEF ShouldRetry
    <2>2. GoesOn BY <1>7, <2>1 DEF ReplyLost, Failed
    <2>3. Continues BY <1>0, <1>7, <2>2 DEF ReplyLost, GoesOn, Continues, Working
    <2> QED BY <1>7, <2>3 DEF ReplyLost, AttemptStep, Working
  <1>8. ASSUME NEW r \in Relays, Skip(r) PROVE AttemptStep
    <2>1. at = "routing" /\ GoesOn /\ UNCHANGED <<setup, client, reply, place, taken>>
      BY <1>8 DEF Skip, Picks
    <2>2. Continues BY <1>0, <2>1 DEF GoesOn, Continues, Working
    <2> QED BY <2>1, <2>2 DEF AttemptStep, Working
  <1>9. ASSUME NEW r \in Relays, Send(r) PROVE AttemptStep
    <2>1. at = "routing" /\ UNCHANGED <<setup, client, reply, place, taken>>
      BY <1>9 DEF Send, Picks
    <2>2. CASE setup.mail = "no_header"
      <3>1. Resolves("failed", {"failed"}) BY <1>9, <2>1, <2>2 DEF Send, FailsForGood, Resolves
      <3> QED BY <2>1, <3>1 DEF AttemptStep, Working
    <2>3. CASE setup.mail # "no_header"
      <3>1. Continues BY <1>0, <1>9, <2>1, <2>3 DEF Send, Continues, Working
      <3> QED BY <2>1, <3>1 DEF AttemptStep, Working
    <2> QED BY <2>2, <2>3
  <1> QED BY <1>1, <1>2, <1>3, <1>4, <1>5, <1>6, <1>7, <1>8, <1>9 DEF Attempt

LEMMA AttemptKeepsBooks ==
  ASSUME Books, AttemptStep
  PROVE  Books'
  <1>0. Bookkept /\ Whereabouts /\ Accounts BY DEF Books
  <1>1. at \in Working /\ UNCHANGED <<setup, client, reply, place>> BY DEF AttemptStep
  <1>2. counted.delivered = 0 /\ counted.failed = 0 /\ taken.times = taken.lost
    BY <1>0, <1>1, Counted DEF Accounts
  <1>3. CASE Continues
    <2>1. counted' = counted /\ at' \in Working /\ outcome' = "none" BY <1>3 DEF Continues
    <2>2. taken' \in [times : Nat, lost : Nat] /\ taken'.times = taken'.lost
      BY <1>0, <1>2, <1>3, Counted DEF Continues, Bookkept
    <2>3. Bookkept' BY <1>0, <1>1, <2>1, <2>2 DEF Bookkept
    <2>4. Whereabouts' BY <1>0, <1>1, <2>1 DEF Whereabouts, Working
    <2>5. Accounts' BY <1>0, <1>1, <1>2, <2>1, <2>2 DEF Accounts, Working, Bookkept
    <2> QED BY <2>3, <2>4, <2>5 DEF Books
  <1>4. ASSUME NEW o \in {"delivered", "deferred", "failed"}, at' = "ended", outcome' = o,
               counted' \in [Counters -> Nat], taken' \in [times : Nat, lost : Nat],
               counted'.delivered = IF o = "delivered" THEN 1 ELSE 0,
               counted'.failed = IF o = "failed" THEN 1 ELSE 0,
               taken'.times = counted'.delivered + taken'.lost
        PROVE  Books'
    <2>1. Bookkept' BY <1>0, <1>1, <1>4 DEF Bookkept
    <2>2. Whereabouts' BY <1>0, <1>1, <1>4 DEF Whereabouts, Working
    <2>3. Accounts'
      <3>1. counted'.delivered + counted'.failed <= 1 BY <1>4
      <3>2. place # "gone" /\ place # "waiting" /\ client \notin {"new", "enqueuing"}
        BY <1>0, <1>1, <1>2, Counted DEF Accounts, Whereabouts, Working, Bookkept
      <3>3. reply \notin {"delivered", "permanent", "temporary"}
        BY <1>0, <1>1, <1>2 DEF Accounts, Whereabouts, Working
      <3> QED BY <1>1, <1>4, <3>1, <3>2, <3>3 DEF Accounts, Working
    <2> QED BY <2>1, <2>2, <2>3 DEF Books
  <1>5. CASE Resolves("deferred", {})
    <2>1. counted' = counted /\ taken' = taken BY <1>5 DEF Resolves
    <2> QED BY <1>0, <1>2, <1>4, <1>5, <2>1, Counted DEF Resolves, Bookkept
  <1>6. CASE Resolves("failed", {"failed"})
    <2>1. Count({"failed"}) /\ taken' = taken BY <1>6 DEF Resolves
    <2>2. /\ counted' \in [Counters -> Nat] /\ counted'.delivered = 0 /\ counted'.failed = 1
      BY <1>0, <1>2, <2>1, Counting DEF Bookkept
    <2> QED BY <1>0, <1>2, <1>4, <1>6, <2>1, <2>2, Counted DEF Resolves, Bookkept
  <1>7. CASE Resolves("delivered", {"delivered"})
    <2>1. Count({"delivered"}) /\ taken' = [taken EXCEPT !.times = @ + 1] BY <1>7 DEF Resolves
    <2>2. /\ counted' \in [Counters -> Nat] /\ counted'.delivered = 1 /\ counted'.failed = 0
      BY <1>0, <1>2, <2>1, Counting DEF Bookkept
    <2>3. /\ taken' \in [times : Nat, lost : Nat]
          /\ taken'.times = taken.times + 1 /\ taken'.lost = taken.lost
      BY <1>0, <2>1, Counted DEF Bookkept
    <2> QED BY <1>2, <1>4, <1>7, <2>2, <2>3, Counted DEF Resolves
  <1> QED BY <1>3, <1>5, <1>6, <1>7 DEF AttemptStep

LEMMA BooksInit == Init => Books
  <1> SUFFICES ASSUME Init PROVE Books
    OBVIOUS
  <1>1. counted = [delivered |-> 0, failed |-> 0, dead |-> 0, rejected |-> 0] BY DEF Init
  <1>2. counted \in [Counters -> Nat] /\ counted.delivered = 0 /\ counted.failed = 0
    BY <1>1 DEF Counters
  <1>3. taken = [times |-> 0, lost |-> 0] BY DEF Init
  <1>4. Bookkept BY <1>2, <1>3 DEF Init, Bookkept
  <1> QED BY <1>2, <1>3, <1>4 DEF Init, Books, Whereabouts, Accounts, Working

LEMMA SessionKeepsBooks ==
  ASSUME Books, Session
  PROVE  Books'
  <1>0. Bookkept /\ Whereabouts /\ Accounts BY DEF Books
  <1> USE Counted DEF Working
  <1>1. CASE Submit
    <2>1. UNCHANGED <<setup, reply, place, counted, outcome, taken>> BY <1>1 DEF Submit
    <2>2. at = "idle" BY <1>0, <1>1 DEF Whereabouts, Submit
    <2>3. \/ client' = "enqueuing" /\ at' = at
          \/ client' = "attempting" /\ at' = "called" /\ setup.mode # "queue"
      BY <1>1 DEF Submit
    <2>4. Bookkept' BY <1>0, <2>1, <2>3 DEF Bookkept
    <2>5. Whereabouts' BY <1>0, <1>1, <2>1, <2>2, <2>3 DEF Whereabouts, Submit
    <2>6. Accounts' BY <1>0, <1>1, <2>1, <2>2, <2>3 DEF Accounts, Submit
    <2> QED BY <2>4, <2>5, <2>6 DEF Books
  <1>2. CASE Enqueue
    <2>1. UNCHANGED <<setup, reply, counted, at, outcome, taken>> BY <1>2 DEF Enqueue, taskVars
    <2>2. client = "enqueuing" /\ client' = "noting" /\ place' = "waiting" BY <1>2 DEF Enqueue
    <2>3. Bookkept' BY <1>0, <2>1, <2>2 DEF Bookkept
    <2>4. Whereabouts' BY <1>0, <2>1, <2>2 DEF Whereabouts
    <2>5. Accounts' BY <1>0, <2>1, <2>2 DEF Accounts
    <2> QED BY <2>3, <2>4, <2>5 DEF Books
  <1>3. CASE EnqueueRefused
    <2>1. UNCHANGED <<setup, place, at, outcome, taken>> BY <1>3 DEF EnqueueRefused, taskVars
    <2>2. client = "enqueuing" /\ client' = "done" /\ reply' = "temporary"
      BY <1>3 DEF EnqueueRefused, Answers
    <2>3. counted' \in [Counters -> Nat] /\ counted'.delivered = counted.delivered
            /\ counted'.failed = counted.failed
      <3>1. CASE setup.mode = "queue"
        BY <1>0, <1>3, <3>1 DEF EnqueueRefused, Bookkept, Counters
      <3>2. CASE setup.mode # "queue"
        BY <1>0, <1>3, <3>2, Counting DEF EnqueueRefused, Bookkept
      <3> QED BY <3>1, <3>2
    <2>4. Bookkept' BY <1>0, <2>1, <2>2, <2>3 DEF Bookkept
    <2>5. Whereabouts' BY <1>0, <2>1, <2>2 DEF Whereabouts
    <2>6. Accounts' BY <1>0, <2>1, <2>2, <2>3 DEF Accounts, Whereabouts
    <2> QED BY <2>4, <2>5, <2>6 DEF Books
  <1>4. CASE Note
    <2>1. UNCHANGED <<setup, place, counted, at, outcome, taken>> BY <1>4 DEF Note, taskVars
    <2>2. client = "noting" /\ client' = "done" /\ reply' = "queued" BY <1>4 DEF Note, Answers
    <2>3. Bookkept' BY <1>0, <2>1, <2>2 DEF Bookkept
    <2>4. Whereabouts' BY <1>0, <2>1, <2>2 DEF Whereabouts
    <2>5. Accounts' BY <1>0, <2>1, <2>2 DEF Accounts
    <2> QED BY <2>3, <2>4, <2>5 DEF Books
  <1>5. CASE InlineEnds
    <2>1. /\ client = "attempting" /\ at = "ended" /\ at' = "idle" /\ outcome' = "none"
          /\ UNCHANGED <<setup, place, taken>>
      BY <1>5 DEF InlineEnds, AttemptReturns
    <2>2. place = "none" /\ reply = "none" /\ setup.mode # "queue" /\ setup.mode \in Modes
      BY <1>0, <2>1 DEF Whereabouts, Bookkept
    <2>3. ASSUME NEW answer \in {"delivered", "temporary", "permanent"}, Answers(answer),
                 counted' \in [Counters -> Nat], counted'.delivered = counted.delivered,
                 counted'.failed = counted.failed,
                 outcome = CASE answer = "delivered" -> "delivered"
                             [] answer = "permanent" -> "failed"
                             [] answer = "temporary" -> "deferred"
          PROVE  Books'
      <3>1. Bookkept' BY <1>0, <2>1, <2>3 DEF Bookkept, Answers
      <3>2. Whereabouts' BY <1>0, <2>1, <2>2, <2>3 DEF Whereabouts, Answers
      <3>3. Accounts' BY <1>0, <2>1, <2>2, <2>3 DEF Accounts, Answers
      <3> QED BY <3>1, <3>2, <3>3 DEF Books
    <2>4. Count({"rejected"}) =>
            /\ counted' \in [Counters -> Nat] /\ counted'.delivered = counted.delivered
            /\ counted'.failed = counted.failed
      BY <1>0, Counting DEF Bookkept
    <2>5. CASE outcome = "delivered"
      <3>1. Answers("delivered") /\ counted' = counted BY <1>5, <2>5 DEF InlineEnds
      <3> QED BY <1>0, <2>3, <2>5, <3>1 DEF Bookkept
    <2>6. CASE outcome = "failed"
      <3>1. Answers("permanent") /\ Count({"rejected"}) BY <1>5, <2>6 DEF InlineEnds
      <3> QED BY <2>3, <2>4, <2>6, <3>1
    <2>7. CASE outcome = "deferred" /\ setup.mode = "direct"
      <3>1. Answers("temporary") /\ Count({"rejected"}) BY <1>5, <2>7 DEF InlineEnds
      <3> QED BY <2>3, <2>4, <2>7, <3>1
    <2>8. CASE outcome = "deferred" /\ setup.mode = "hybrid"
      <3>1. client' = "enqueuing" /\ UNCHANGED <<reply, counted>> BY <1>5, <2>8 DEF InlineEnds
      <3>2. Bookkept' BY <1>0, <2>1, <3>1 DEF Bookkept
      <3>3. Whereabouts' BY <1>0, <2>1, <2>2, <3>1 DEF Whereabouts
      <3>4. Accounts' BY <1>0, <2>1, <2>2, <2>8, <3>1 DEF Accounts
      <3> QED BY <3>2, <3>3, <3>4 DEF Books
    <2> QED BY <1>0, <2>1, <2>2, <2>5, <2>6, <2>7, <2>8 DEF Modes, Bookkept, Whereabouts
  <1> QED BY <1>1, <1>2, <1>3, <1>4, <1>5 DEF Session

LEMMA WorkerKeepsBooks ==
  ASSUME Books, Worker
  PROVE  Books'
  <1>0. Bookkept /\ Whereabouts /\ Accounts BY DEF Books
  <1> USE Counted DEF Working
  <1>1. CASE TakeDue
    <2>1. UNCHANGED <<setup, client, reply, counted, outcome, taken>> BY <1>1 DEF TakeDue
    <2>2. place = "waiting" /\ at = "idle" /\ place' = "active" /\ at' = "called"
      BY <1>1 DEF TakeDue
    <2>3. Bookkept' BY <1>0, <2>1, <2>2 DEF Bookkept
    <2>4. Whereabouts' BY <1>0, <2>1, <2>2 DEF Whereabouts
    <2>5. Accounts' BY <1>0, <2>1, <2>2 DEF Accounts
    <2> QED BY <2>3, <2>4, <2>5 DEF Books
  <1>2. CASE WorkerEnds
    <2> DEFINE dead == outcome = "deferred" /\ attempts >= MaxAttempts
    <2>1. /\ place = "active" /\ at = "ended" /\ at' = "idle" /\ outcome' = "none"
          /\ UNCHANGED <<setup, client, reply, taken>>
          /\ place' = IF outcome = "deferred" /\ ~dead THEN "waiting" ELSE "gone"
      BY <1>2 DEF WorkerEnds, AttemptReturns
    <2>2. /\ counted' \in [Counters -> Nat] /\ counted'.delivered = counted.delivered
          /\ counted'.failed = counted.failed + IF dead THEN 1 ELSE 0
      <3>1. CASE dead
        BY <1>0, <1>2, <3>1, Counting DEF WorkerEnds, Bookkept
      <3>2. CASE ~dead
        <4>1. counted' = counted BY <1>2, <3>2 DEF WorkerEnds
        <4> QED BY <1>0, <3>2, <4>1 DEF Bookkept
      <3> QED BY <3>1, <3>2
    <2> HIDE DEF dead
    <2>3. dead => outcome = "deferred" BY DEF dead
    <2>4. Bookkept' BY <1>0, <2>1, <2>2 DEF Bookkept
    <2>5. client \in {"noting", "done"} /\ (client = "done" => reply = "queued")
      BY <1>0, <2>1 DEF Whereabouts, Bookkept
    <2>6. Whereabouts' BY <1>0, <2>1, <2>5 DEF Whereabouts
    <2>7. Accounts' BY <1>0, <2>1, <2>2, <2>3, <2>5 DEF Accounts, Whereabouts, Bookkept
    <2> QED BY <2>4, <2>6, <2>7 DEF Books
  <1> QED BY <1>1, <1>2 DEF Worker

LEMMA BooksNext == Books /\ [Next]_vars => Books'
  <1> SUFFICES ASSUME Books, [Next]_vars PROVE Books'
    OBVIOUS
  <1>1. CASE Session BY <1>1, SessionKeepsBooks
  <1>2. CASE Attempt BY <1>2, AttemptSteps, AttemptKeepsBooks
  <1>3. CASE Worker BY <1>3, WorkerKeepsBooks
  <1>4. ASSUME UNCHANGED <<setup, client, reply, place, counted, at, outcome, taken>> PROVE Books'
    BY <1>4 DEF Books, Bookkept, Whereabouts, Accounts
  <1>5. CASE Log BY <1>4, <1>5 DEF Log, taskVars
  <1>6. CASE UNCHANGED vars BY <1>4, <1>6 DEF vars, taskVars
  <1> QED BY <1>1, <1>2, <1>3, <1>5, <1>6 DEF Next

LEMMA BooksAlways == Spec => []Books
  BY BooksInit, BooksNext, PTL DEF Spec

\* A message is counted once, as what it came to, whichever way it went: through
\* the session or a worker, over relays that fail, refuse or do not answer, to a dead
\* letter; and only a lost reply lets relays accept it twice (dispatch.rs).
THEOREM EveryMessageCountedOnce == Spec => []OneOutcome
  <1>1. Books => OneOutcome
    BY Counted DEF Books, Bookkept, Whereabouts, Accounts, OneOutcome, Over
  <1> QED BY <1>1, BooksAlways, PTL

\* What the client is told stays true: mail it is to send again is nowhere, mail it
\* may forget is delivered, held or accounted for (submit, dispatch.rs).
THEOREM ClientToldTheTruth == Spec => []ClientTruth
  <1>1. Books => ClientTruth
    BY Counted DEF Books, Bookkept, Whereabouts, Accounts, ClientTruth
  <1> QED BY <1>1, BooksAlways, PTL

-----------------------------------------------------------------------------
(* The checks.                                                             *)

Verdicts == {"true", "false", "unclear"}

CheckTypes ==
  /\ allow \in BOOLEAN
  /\ check \in [Recipients -> Checks]
  /\ probe \in [Recipients -> [Servers -> Probes]]
  /\ heard \in [Recipients -> SUBSET Verdicts]
  /\ rcpts \subseteq Recipients

\* VerdictsFollowed, of one recipient.
Followed(r) ==
  /\ check[r] = "skip" /\ allow =>
       Heard(r, "false") /\ (r \notin YahooMail => "true" \notin heard[r])
  /\ check[r] = "deliver" /\ ~allow /\ Begun(r, allow) \in {"queued", "probing"} =>
       Heard(r, "true")

\* What makes it inductive: the probes of a recipient that is still being checked
\* remember what was heard.
Sound(r) ==
  /\ check[r] \in {"idle", "queued", "asking"} => heard[r] = {}
  /\ check[r] \in {"queued", "asking"} => r \in YahooMail
  /\ check[r] = "probing" =>
       /\ r \notin YahooMail
       /\ "true" \in heard[r] <=> \E s \in Servers : probe[r][s] = "acceptable"
       /\ (\E s \in Servers : probe[r][s] \in {"refused", "invalid"}) => "false" \in heard[r]
  /\ Followed(r)

ChecksSound ==
  /\ CheckTypes
  /\ at # "checking" => \A r \in Recipients : check[r] = "idle" /\ heard[r] = {}
  /\ \A r \in Recipients : Sound(r)

LEMMA BegunIs ==
  ASSUME NEW r \in Recipients, NEW policy \in BOOLEAN
  PROVE  /\ Begun(r, policy) \in Checks \ {"idle", "asking"}
         /\ Begun(r, policy) = "queued" => r \in YahooMail
         /\ Begun(r, policy) = "probing" => r \notin YahooMail
         /\ Begun(r, policy) = "skip" => ~policy
  <1>1. CASE ~HasAnyChannel BY <1>1 DEF Begun, Checks
  <1>2. CASE HasAnyChannel /\ r \in YahooMail
    <2>1. NumEndpoints \in Nat BY ValidationAssumption
    <2>2. CASE NumEndpoints > 0 BY <1>2, <2>2 DEF Begun, Checks
    <2>3. CASE NumEndpoints = 0
      <3>1. Begun(r, policy) = Verdict(policy) BY <1>2, <2>3 DEF Begun
      <3> QED BY <3>1 DEF Verdict, Checks
    <2> QED BY <2>1, <2>2, <2>3
  <1>3. CASE HasAnyChannel /\ r \notin YahooMail
    <2>1. CASE Servers = {} BY <1>3, <2>1 DEF Begun, Checks
    <2>2. CASE Servers # {} BY <1>3, <2>2 DEF Begun, Checks
    <2> QED BY <2>1, <2>2
  <1> QED BY <1>1, <1>2, <1>3

\* A verdict that is interpreted was meant, or what was meant is unclear.
LEMMA InterpretedIsMeant ==
  ASSUME NEW answer \in Replies, answer.read # "error"
  PROVE  /\ answer.read \in {"true", "false"} /\ answer.meant \subseteq Verdicts
         /\ answer.read \in answer.meant \/ "unclear" \in answer.meant
  <1>0. PICK json \in Fields : answer = [read |-> Interpret(json), meant |-> Meant(json)]
    BY DEF Replies
  <1>1. /\ json.fail \in Values /\ json.ok \in Values /\ json.valid \in Values
        /\ json.status \in Values /\ json.data \in Values
    BY DEF Fields
  <1>2. ~SaysFailed(json) /\ ReadValidated(json) # "none" /\ answer.read = ReadValidated(json)
    BY <1>0 DEF Interpret
  <1>3. ~(Means(json.fail) = "true" \/ Means(json.ok) = "false")
    BY <1>1, <1>2 DEF SaysFailed, AsBool, Means, Values
  <1>4. answer.meant = {Means(json[f]) : f \in {"valid", "status", "data"}} \ {"none"}
    BY <1>0, <1>3 DEF Meant
  <1>5. PICK v \in {json.valid, json.status, json.data} : ReadValidated(json) = AsBool(v)
    <2> DEFINE read == [g \in {"valid", "status", "data"} |-> AsBool(json[g])]
    <2>1. read.valid = AsBool(json.valid) /\ read.status = AsBool(json.status)
          /\ read.data = AsBool(json.data)
      OBVIOUS
    <2>2. ReadValidated(json) = CASE read.valid # "none" -> read.valid
            [] read.valid = "none" /\ read.status # "none" -> read.status
            [] read.valid = "none" /\ read.status = "none" -> read.data
      BY DEF ReadValidated
    <2> HIDE DEF read
    <2> QED BY <2>1, <2>2
  <1>6. v \in Values BY <1>1
  <1>7. ASSUME NEW w \in Values
        PROVE  /\ AsBool(w) # "none" =>
                    AsBool(w) \in {"true", "false"} /\ Means(w) \in {AsBool(w), "unclear"}
               /\ Means(w) \in Verdicts \cup {"none"}
    BY DEF Values, AsBool, Means, Verdicts
  <1>8. AsBool(v) # "none" /\ answer.read = AsBool(v) BY <1>2, <1>5
  <1>9. answer.read \in {"true", "false"} /\ Means(v) \in {answer.read, "unclear"}
    BY <1>6, <1>7, <1>8
  <1>10. Means(v) \in answer.meant
    <2>1. Means(v) \in {Means(json[f]) : f \in {"valid", "status", "data"}} OBVIOUS
    <2>2. Means(v) # "none" BY <1>9
    <2> QED BY <1>4, <2>1, <2>2
  <1>11. answer.meant \subseteq Verdicts
    <2> SUFFICES ASSUME NEW f \in {"valid", "status", "data"}
                 PROVE  Means(json[f]) \in Verdicts \cup {"none"}
      BY <1>4
    <2>1. json[f] \in Values BY <1>1
    <2> QED BY <1>7, <2>1
  <1> QED BY <1>9, <1>10, <1>11

\* A step that changes recipient r alone.
Alone(r) ==
  /\ UNCHANGED <<allow, rcpts, at>>
  /\ \A q \in Recipients \ {r} : check'[q] = check[q] /\ probe'[q] = probe[q] /\ heard'[q] = heard[q]

LEMMA AloneSound ==
  ASSUME ChecksSound, at = "checking", NEW r \in Recipients, Alone(r), CheckTypes', Sound(r)'
  PROVE  ChecksSound'
  <1>1. ASSUME NEW q \in Recipients, q # r PROVE Sound(q)'
    BY <1>1 DEF ChecksSound, Alone, Sound, Followed, Heard, Begun, HasAnyChannel, Verdict
  <1> QED BY <1>1 DEF ChecksSound, Alone

LEMMA FailsSound ==
  ASSUME ChecksSound, at = "checking", NEW r \in Recipients, check[r] = "asking", Fails(r),
         UNCHANGED <<rcpts, at>>
  PROVE  ChecksSound'
  <1>1. CASE next[r].failed + 1 = NumEndpoints
    <2>1. /\ check' = [check EXCEPT ![r] = Verdict(allow)]
          /\ UNCHANGED <<allow, probe, heard>>
      BY <1>1 DEF Fails, Decides
    <2>2. check'[r] = Verdict(allow) /\ Alone(r) /\ CheckTypes'
      BY <2>1 DEF ChecksSound, CheckTypes, Alone, Verdict, Checks
    <2>3. Sound(r)'
      BY <2>1, <2>2 DEF ChecksSound, Sound, Followed, Heard, Verdict
    <2> QED BY <2>2, <2>3, AloneSound
  <1>2. CASE next[r].failed + 1 # NumEndpoints
    <2>1. UNCHANGED <<check, allow, probe, heard>> BY <1>2 DEF Fails
    <2>2. Alone(r) /\ CheckTypes' BY <2>1 DEF ChecksSound, CheckTypes, Alone
    <2>3. Sound(r)' BY <2>1 DEF ChecksSound, Sound, Followed, Heard, Begun, HasAnyChannel, Verdict
    <2> QED BY <2>2, <2>3, AloneSound
  <1> QED BY <1>1, <1>2

LEMMA AnswerSound ==
  ASSUME ChecksSound, at = "checking", NEW r \in Recipients, NEW answer \in Replies,
         Answer(r, answer), UNCHANGED <<rcpts, at>>
  PROVE  ChecksSound'
  <1>1. CASE answer.read = "error" BY <1>1, FailsSound DEF Answer
  <1>2. CASE answer.read # "error"
    <2>1. /\ check' = [check EXCEPT ![r] = Verdict(answer.read = "true")]
          /\ heard' = [heard EXCEPT ![r] = @ \cup answer.meant]
          /\ UNCHANGED <<allow, probe>>
      BY <1>2 DEF Answer, Decides
    <2>2. /\ answer.read \in {"true", "false"} /\ answer.meant \subseteq Verdicts
          /\ answer.read \in answer.meant \/ "unclear" \in answer.meant
      BY <1>2, InterpretedIsMeant
    <2>3. heard'[r] = heard[r] \cup answer.meant /\ check'[r] = Verdict(answer.read = "true")
      BY <2>1 DEF ChecksSound, CheckTypes
    <2>4. Alone(r) /\ CheckTypes'
      BY <2>1, <2>2 DEF ChecksSound, CheckTypes, Alone, Verdict, Checks
    <2>5. r \in YahooMail BY DEF Answer, ChecksSound, Sound
    <2>6. Heard(r, answer.read)' BY <2>2, <2>3, <2>5 DEF Heard
    <2>7. Sound(r)' BY <2>2, <2>3, <2>5, <2>6 DEF Sound, Followed, Heard, Verdict
    <2> QED BY <2>4, <2>7, AloneSound
  <1> QED BY <1>1, <1>2

\* The four ways in which a probe goes on.
LEMMA ProbeSound ==
  ASSUME ChecksSound, at = "checking", NEW r \in Recipients, NEW s \in Servers, Streams(r, s),
         NEW state \in {"refused", "acceptable", "invalid", "failed"},
         probe' = [probe EXCEPT ![r][s] = state],
         NEW said, said \subseteq Verdicts, heard' = [heard EXCEPT ![r] = @ \cup said],
         "true" \in said <=> state = "acceptable",
         state = "refused" => "false" \in said,
         state = "invalid" => probe[r][s] = "refused",
         UNCHANGED <<allow, check, rcpts, at>>
  PROVE  ChecksSound'
  <1>1. /\ probe'[r] = [probe[r] EXCEPT ![s] = state]
        /\ heard'[r] = heard[r] \cup said
        /\ \A q \in Recipients \ {r} : probe'[q] = probe[q] /\ heard'[q] = heard[q]
    BY DEF ChecksSound, CheckTypes
  <1>2. probe'[r][s] = state /\ \A q \in Servers \ {s} : probe'[r][q] = probe[r][q]
    BY <1>1 DEF ChecksSound, CheckTypes
  <1>3. CheckTypes'
    <2>1. probe' \in [Recipients -> [Servers -> Probes]] BY DEF ChecksSound, CheckTypes, Probes
    <2>2. heard' \in [Recipients -> SUBSET Verdicts] BY DEF ChecksSound, CheckTypes
    <2> QED BY <2>1, <2>2 DEF ChecksSound, CheckTypes
  <1>4. Alone(r) BY <1>1 DEF Alone
  <1>5. check[r] = "probing" /\ r \notin YahooMail /\ probe[r][s] # "acceptable"
    BY DEF Streams, ChecksSound, Sound
  <1>6. Sound(r) BY DEF ChecksSound
  <1>7. "true" \in heard'[r] <=> \E q \in Servers : probe'[r][q] = "acceptable"
    BY <1>1, <1>2, <1>5, <1>6 DEF Sound
  <1>8. (\E q \in Servers : probe'[r][q] \in {"refused", "invalid"}) => "false" \in heard'[r]
    BY <1>1, <1>2, <1>5, <1>6 DEF Sound
  <1>9. Sound(r)' BY <1>5, <1>7, <1>8 DEF Sound, Followed, Heard
  <1> QED BY <1>3, <1>4, <1>9, AloneSound

LEMMA DecideSound ==
  ASSUME ChecksSound, at = "checking", NEW r \in Recipients, Decide(r), UNCHANGED <<rcpts, at>>
  PROVE  ChecksSound'
  <1> DEFINE yes == "acceptable" \in Outcomes(r) \/ ("invalid" \notin Outcomes(r) /\ allow)
  <1>1. check' = [check EXCEPT ![r] = Verdict(yes)] /\ UNCHANGED <<allow, probe, heard>>
    BY DEF Decide, Decides
  <1>2. check'[r] = Verdict(yes) BY <1>1 DEF ChecksSound, CheckTypes
  <1>3. Alone(r) /\ CheckTypes' BY <1>1 DEF ChecksSound, CheckTypes, Alone, Verdict, Checks
  <1>4. Sound(r) /\ check[r] = "probing" /\ heard'[r] = heard[r] /\ allow' = allow
    BY <1>1 DEF ChecksSound, Decide
  <1>5. CASE yes
    <2>1. check'[r] = "deliver" BY <1>2, <1>5 DEF Verdict
    <2>2. ~allow => "true" \in heard[r] BY <1>4, <1>5 DEF Sound, Outcomes
    <2>3. Sound(r)' BY <1>4, <2>1, <2>2 DEF Sound, Followed, Heard
    <2> QED BY <1>3, <2>3, AloneSound
  <1>6. CASE ~yes
    <2>1. check'[r] = "skip" BY <1>2, <1>6 DEF Verdict
    <2>2. "true" \notin heard[r] BY <1>4, <1>6 DEF Sound, Outcomes
    <2>3. allow => "false" \in heard[r] BY <1>4, <1>6 DEF Sound, Outcomes
    <2>4. Sound(r)' BY <1>4, <2>1, <2>2, <2>3 DEF Sound, Followed, Heard
    <2> QED BY <1>3, <2>4, AloneSound
  <1> QED BY <1>5, <1>6

LEMMA CheckStepSound ==
  ASSUME ChecksSound, Check
  PROVE  ChecksSound'
  <1>1. at = "checking" /\ UNCHANGED <<rcpts, at>> /\ CheckStep BY DEF Check, taskVars
  <1>2. PICK r \in Recipients :
          \/ Admit(r) \/ NoAnswer(r) \/ Decide(r)
          \/ \E answer \in Replies : Answer(r, answer)
          \/ \E s \in Servers :
               StageSuccess(r, s) \/ StageError(r, s) \/ StageDone(r, s) \/ ProbeBreaks(r, s)
    BY <1>1 DEF CheckStep
  <1>3. CASE Admit(r)
    <2>1. check' = [check EXCEPT ![r] = "asking"] /\ UNCHANGED <<allow, probe, heard>>
      BY <1>3 DEF Admit
    <2>2. Alone(r) /\ CheckTypes' /\ check'[r] = "asking"
      BY <1>1, <2>1 DEF ChecksSound, CheckTypes, Alone, Checks
    <2>3. Sound(r)' BY <1>3, <2>1, <2>2 DEF Admit, ChecksSound, Sound, Followed, Heard
    <2> QED BY <1>1, <2>2, <2>3, AloneSound
  <1>4. CASE NoAnswer(r) BY <1>1, <1>4, FailsSound DEF NoAnswer
  <1>5. CASE Decide(r) BY <1>1, <1>5, DecideSound
  <1>6. ASSUME NEW answer \in Replies, Answer(r, answer) PROVE ChecksSound'
    BY <1>1, <1>6, AnswerSound
  <1>7. ASSUME NEW s \in Servers, StageSuccess(r, s) PROVE ChecksSound'
    <2>1. /\ Streams(r, s) /\ probe' = [probe EXCEPT ![r][s] = "acceptable"]
          /\ heard' = [heard EXCEPT ![r] = @ \cup {"true"}] /\ UNCHANGED <<allow, check, rcpts, at>>
      BY <1>1, <1>7 DEF StageSuccess, Probed, Hears
    <2> QED BY <1>1, <2>1, ProbeSound DEF Verdicts
  <1>8. ASSUME NEW s \in Servers, StageError(r, s) PROVE ChecksSound'
    <2>1. /\ Streams(r, s) /\ probe' = [probe EXCEPT ![r][s] = "refused"]
          /\ heard' = [heard EXCEPT ![r] = @ \cup {"false"}] /\ UNCHANGED <<allow, check, rcpts, at>>
      BY <1>1, <1>8 DEF StageError, Probed, Hears
    <2> QED BY <1>1, <2>1, ProbeSound DEF Verdicts
  <1>0. PICK none : none = {} OBVIOUS
  <1>h. /\ none \subseteq Verdicts /\ "true" \notin none
        /\ heard' = heard => heard' = [heard EXCEPT ![r] = @ \cup none]
    BY <1>0 DEF ChecksSound, CheckTypes
  <1>9. ASSUME NEW s \in Servers, StageDone(r, s) PROVE ChecksSound'
    <2>1. PICK state \in {"invalid", "failed"} :
            /\ probe' = [probe EXCEPT ![r][s] = state]
            /\ state = "invalid" => probe[r][s] = "refused"
      BY <1>9 DEF StageDone, Probed
    <2>2. Streams(r, s) /\ UNCHANGED <<allow, check, rcpts, at, heard>> BY <1>1, <1>9 DEF StageDone
    <2> QED BY <1>1, <1>h, <2>1, <2>2, ProbeSound
  <1>10. ASSUME NEW s \in Servers, ProbeBreaks(r, s) PROVE ChecksSound'
    <2>1. Streams(r, s) /\ UNCHANGED <<allow, check, rcpts, at, heard>> BY <1>1, <1>10 DEF ProbeBreaks
    <2>2. probe' = [probe EXCEPT ![r][s] = "failed"] BY <1>10 DEF ProbeBreaks, Probed
    <2> QED BY <1>1, <1>h, <2>1, <2>2, ProbeSound
  <1> QED BY <1>2, <1>3, <1>4, <1>5, <1>6, <1>7, <1>8, <1>9, <1>10

LEMMA BeginSound ==
  ASSUME ChecksSound, Begin
  PROVE  ChecksSound'
  <1>1. \A r \in Recipients : check[r] = "idle" /\ heard[r] = {} BY DEF ChecksSound, Begin
  <1>2. rcpts' = rcpts /\ rcpts \subseteq Recipients BY DEF Begin, ChecksSound, CheckTypes
  <1>3. CASE attempts = 0 /\ ValidationOn
    <2>1. at' = "checking" /\ StartChecks(rcpts) BY <1>3 DEF Begin
    <2>2. PICK policy \in BOOLEAN :
            /\ allow' = policy
            /\ check' = [r \in Recipients |-> IF r \in rcpts THEN Begun(r, policy) ELSE check[r]]
            /\ probe' = [r \in Recipients |-> [s \in Servers |->
                 IF r \in rcpts /\ Begun(r, policy) = "probing" THEN "open" ELSE probe[r][s]]]
      BY <2>1 DEF StartChecks
    <2>3. heard' = heard BY <2>1 DEF StartChecks
    <2>4. CheckTypes'
      <3>1. check' \in [Recipients -> Checks] BY <2>2, BegunIs DEF ChecksSound, CheckTypes
      <3>2. probe' \in [Recipients -> [Servers -> Probes]]
        BY <2>2 DEF ChecksSound, CheckTypes, Probes
      <3> QED BY <1>2, <2>2, <2>3, <3>1, <3>2 DEF ChecksSound, CheckTypes
    <2>5. ASSUME NEW r \in Recipients PROVE Sound(r)'
      <3>1. heard'[r] = {} BY <1>1, <2>3
      <3>2. CASE r \notin rcpts
        <4>1. check'[r] = "idle" BY <1>1, <2>2, <3>2
        <4> QED BY <3>1, <4>1 DEF Sound, Followed, Heard
      <3>3. CASE r \in rcpts
        <4>1. check'[r] = Begun(r, policy) BY <2>2, <3>3
        <4>2. Begun(r, policy) = "probing" => \A s \in Servers : probe'[r][s] = "open"
          BY <2>2, <3>3
        <4> QED BY <2>2, <3>1, <4>1, <4>2, BegunIs DEF Sound, Followed, Heard, Checks
      <3> QED BY <3>2, <3>3
    <2> QED BY <2>1, <2>4, <2>5 DEF ChecksSound
  <1>4. CASE ~(attempts = 0 /\ ValidationOn)
    <2>1. UNCHANGED checkVars /\ at' = "routing" BY <1>4 DEF Begin
    <2> QED BY <1>1, <1>2, <2>1
        DEF ChecksSound, CheckTypes, Sound, Followed, Heard, checkVars, Begun, HasAnyChannel, Verdict
  <1> QED BY <1>3, <1>4

\* The checks are idle again.
LEMMA IdleSound ==
  ASSUME CheckTypes', \A r \in Recipients : check'[r] = "idle" /\ heard'[r] = {}
  PROVE  ChecksSound'
  BY DEF ChecksSound, Sound, Followed, Heard

LEMMA ForgetSound ==
  ASSUME ForgetChecks, rcpts' \subseteq Recipients
  PROVE  ChecksSound'
  <1>1. CheckTypes' BY DEF ForgetChecks, CheckTypes, Checks, Probes
  <1>2. \A r \in Recipients : check'[r] = "idle" /\ heard'[r] = {} BY DEF ForgetChecks
  <1> QED BY <1>1, <1>2, IdleSound

LEMMA ChecksInit == Init => ChecksSound
  BY DEF Init, CheckInit, ChecksSound, CheckTypes, Sound, Followed, Heard, Checks, Probes

LEMMA ChecksNext == Books /\ ChecksSound /\ [Next]_vars => ChecksSound'
  <1> SUFFICES ASSUME Books, ChecksSound, [Next]_vars PROVE ChecksSound'
    OBVIOUS
  <1>1. ASSUME UNCHANGED checkVars, rcpts' = rcpts, at # "checking" PROVE ChecksSound'
    <2>1. CheckTypes' BY <1>1 DEF ChecksSound, CheckTypes, checkVars
    <2>2. \A r \in Recipients : check'[r] = "idle" /\ heard'[r] = {}
      BY <1>1 DEF ChecksSound, checkVars
    <2> QED BY <2>1, <2>2, IdleSound
  <1>2. ASSUME UNCHANGED <<checkVars, rcpts, at>> PROVE ChecksSound'
    BY <1>2 DEF ChecksSound, CheckTypes, Sound, Followed, Heard, checkVars, Begun, HasAnyChannel, Verdict
  <1>3. CASE Session
    <2>1. CASE Submit
      <3>1. at = "idle" BY <2>1 DEF Submit, Books, Whereabouts
      <3> QED BY <1>1, <2>1, <3>1 DEF Submit
    <2>2. CASE Enqueue BY <1>2, <2>2 DEF Enqueue, taskVars
    <2>3. CASE EnqueueRefused BY <1>2, <2>3 DEF EnqueueRefused, taskVars
    <2>4. CASE Note BY <1>2, <2>4 DEF Note, taskVars
    <2>5. CASE InlineEnds BY <1>1, <2>5 DEF InlineEnds, AttemptReturns
    <2> QED BY <1>3, <2>1, <2>2, <2>3, <2>4, <2>5 DEF Session
  <1>4. CASE Attempt
    <2>1. CASE Begin BY <2>1, BeginSound
    <2>2. CASE Check BY <2>2, CheckStepSound
    <2>3. CASE Checked
      <3>1. rcpts' \subseteq Recipients BY <2>3 DEF Checked, ChecksSound, CheckTypes
      <3> QED BY <2>3, <3>1, ForgetSound DEF Checked
    <2>4. CASE NoRoute BY <1>1, <2>4 DEF NoRoute
    <2>5. CASE Delivered BY <1>1, <2>5 DEF Delivered
    <2>6. CASE NotDelivered BY <1>1, <2>6 DEF NotDelivered
    <2>7. CASE ReplyLost BY <1>1, <2>7 DEF ReplyLost
    <2>8. ASSUME NEW r \in Relays, Skip(r) \/ Send(r) PROVE ChecksSound'
      BY <1>1, <2>8 DEF Skip, Send, Picks
    <2> QED BY <1>4, <2>1, <2>2, <2>3, <2>4, <2>5, <2>6, <2>7, <2>8 DEF Attempt
  <1>5. CASE Worker
    <2>1. CASE TakeDue BY <1>1, <2>1 DEF TakeDue
    <2>2. CASE WorkerEnds BY <1>1, <2>2 DEF WorkerEnds, AttemptReturns
    <2> QED BY <1>5, <2>1, <2>2 DEF Worker
  <1>6. CASE Log BY <1>2, <1>6 DEF Log, taskVars
  <1>7. CASE UNCHANGED vars BY <1>2, <1>7 DEF vars, taskVars
  <1> QED BY <1>3, <1>4, <1>5, <1>6, <1>7 DEF Next

\* A recipient is left out only on a verdict, whatever requests fail, streams break off
\* or servers disagree; and under `skip` it is mailed only if somebody vouched for
\* it (filter_recipients, validation.rs).
THEOREM VerdictsAlwaysFollowed == Spec => []VerdictsFollowed
  <1>1. ChecksSound => VerdictsFollowed
    BY DEF ChecksSound, Sound, Followed, Heard, VerdictsFollowed
  <1> QED BY <1>1, BooksAlways, ChecksInit, ChecksNext, PTL DEF Spec

-----------------------------------------------------------------------------
(* The log.                                                                *)

\* A status that says, by now, what has become of the message: nothing, the note of
\* the session, or the outcome as far as it is known.
Tells(s) ==
  \/ s = "none"
  \/ s = "queued" /\ reply = "queued"
  \/ /\ counted.delivered = 1 => s = "delivered"
     /\ counted.failed = 1 => s = "failed"
     /\ outcome = "deferred" => s = "deferred"
     /\ client = "enqueuing" /\ setup.mode # "queue" => s = "deferred"
     /\ client = "done" /\ place = "none" /\ counted.delivered = 0 /\ counted.failed = 0 =>
          s \in {"rejected", "deferred"}

Clearing == clearing.step \in {"read", "cached"}

\* Whatever the cache, the files and a clear hold tells; and the files are not empty.
LogAgrees ==
  /\ clearing \in [step : {"no", "may", "read", "cached", "done"},
                   copy : Statuses \cup {"none"}, missed : BOOLEAN]
  /\ clearing.step = "may" => ~clearing.missed
  /\ client # "new" /\ clearing.step # "done" => filed # "none"
  /\ ~clearing.missed => Tells(live) /\ Tells(filed) /\ (Clearing => Tells(clearing.copy))

LEMMA StoreAgrees ==
  ASSUME LogAgrees, NEW status \in Statuses, Store(status), Tells(status)'
  PROVE  LogAgrees'
  <1>1. /\ live' = status /\ filed' = status
        /\ clearing' = [clearing EXCEPT !.missed = @ \/ clearing.step \in {"read", "cached"}]
    BY DEF Store, Missed
  <1>2. /\ clearing'.step = clearing.step
        /\ clearing'.missed <=> clearing.missed \/ Clearing
        /\ clearing' \in [step : {"no", "may", "read", "cached", "done"},
                          copy : Statuses \cup {"none"}, missed : BOOLEAN]
    BY <1>1 DEF LogAgrees, Clearing
  <1>3. status # "none" BY DEF Statuses
  <1>4. Tells(live)' /\ Tells(filed)' BY <1>1 DEF Tells
  <1> QED BY <1>1, <1>2, <1>3, <1>4 DEF LogAgrees, Clearing

LEMMA KeepAgrees ==
  ASSUME LogAgrees, UNCHANGED logVars, client = "new" => client' = "new",
         \A s : Tells(s) => Tells(s)'
  PROVE  LogAgrees'
  <1>1. live' = live /\ filed' = filed /\ clearing' = clearing BY DEF logVars
  <1>2. /\ Tells(live) => Tells(live)'
        /\ Tells(filed) => Tells(filed)'
        /\ Tells(clearing.copy) => Tells(clearing.copy)'
    BY <1>1 DEF Tells
  <1> QED BY <1>1, <1>2 DEF LogAgrees, Clearing

LEMMA LogInitAgrees == Init => LogAgrees
  BY ActivityLogAssumption DEF Init, LogInit, LogAgrees, Tells, Clearing, Statuses

\* The log's own steps spread what it holds.
LEMMA LogKeepsAgreement ==
  ASSUME LogAgrees, Log
  PROVE  LogAgrees'
  <1>0. /\ \A s : Tells(s) => Tells(s)'
        /\ client' = client
    BY DEF Log, taskVars, Tells
  <1>1. CASE Evict
    <2>1. live' = "none" /\ filed' = filed /\ clearing' = clearing BY <1>1 DEF Evict
    <2>2. Tells(live)' BY <2>1 DEF Tells
    <2>3. /\ Tells(filed) => Tells(filed)'
          /\ Tells(clearing.copy) => Tells(clearing.copy)'
      BY <1>0, <2>1 DEF Tells
    <2> QED BY <1>0, <2>1, <2>2, <2>3 DEF LogAgrees, Clearing
  <1>2. ASSUME NEW kept \in Statuses \cup {"none"}, ClearReads(kept) PROVE LogAgrees'
    <2>1. /\ clearing.step = "may" /\ kept \in {live, filed, "none"}
          /\ clearing' = [step |-> "read", copy |-> kept, missed |-> FALSE]
          /\ live' = live /\ filed' = filed
      BY <1>2 DEF ClearReads, Shown
    <2>2. /\ clearing'.step = "read" /\ clearing'.copy = kept /\ ~clearing'.missed
          /\ clearing' \in [step : {"no", "may", "read", "cached", "done"},
                            copy : Statuses \cup {"none"}, missed : BOOLEAN]
      BY <2>1
    <2>3. /\ Tells(live) => Tells(live)'
          /\ Tells(filed) => Tells(filed)'
          /\ Tells(kept) => Tells(clearing.copy)'
      BY <1>0, <2>1, <2>2 DEF Tells
    <2>4. Tells(live) /\ Tells(filed) => Tells(kept) BY <2>1 DEF Tells
    <2>5. ~clearing.missed => Tells(live)' /\ Tells(filed)' /\ Tells(clearing.copy)'
      BY <2>3, <2>4 DEF LogAgrees
    <2> QED BY <1>0, <2>1, <2>2, <2>5 DEF LogAgrees, Clearing
  <1>3. ASSUME NEW cached, ClearCache(cached) PROVE LogAgrees'
    <2>1. /\ clearing.step = "read" /\ cached \in {clearing.copy, "none"}
          /\ live' = cached /\ filed' = filed
          /\ clearing' = [clearing EXCEPT !.step = "cached"]
      BY <1>3 DEF ClearCache
    <2>2. /\ clearing'.step = "cached" /\ clearing'.copy = clearing.copy
          /\ clearing'.missed = clearing.missed
          /\ clearing' \in [step : {"no", "may", "read", "cached", "done"},
                            copy : Statuses \cup {"none"}, missed : BOOLEAN]
      BY <2>1 DEF LogAgrees
    <2>3. ~clearing.missed => Tells(live)' /\ Tells(filed)' /\ Tells(clearing.copy)'
      BY <1>0, <2>1, <2>2 DEF LogAgrees, Clearing, Tells
    <2> QED BY <1>0, <2>1, <2>2, <2>3 DEF LogAgrees, Clearing
  <1>4. CASE ClearFiles
    <2>1. /\ clearing.step = "cached" /\ live' = live /\ filed' = clearing.copy
          /\ clearing' = [clearing EXCEPT !.step = "done"]
      BY <1>4 DEF ClearFiles
    <2>2. /\ clearing'.step = "done" /\ clearing'.missed = clearing.missed
          /\ clearing' \in [step : {"no", "may", "read", "cached", "done"},
                            copy : Statuses \cup {"none"}, missed : BOOLEAN]
      BY <2>1 DEF LogAgrees
    <2>3. ~clearing.missed => Tells(live)' /\ Tells(filed)'
      BY <1>0, <2>1 DEF LogAgrees, Clearing, Tells
    <2> QED BY <2>2, <2>3 DEF LogAgrees, Clearing
  <1> QED BY <1>1, <1>2, <1>3, <1>4 DEF Log, LogStep

LEMMA SessionKeepsLog ==
  ASSUME Books, LogAgrees, Session
  PROVE  LogAgrees'
  <1>0. Bookkept /\ Whereabouts /\ Accounts BY DEF Books
  <1>1. CASE Submit
    <2>1. /\ client = "new" /\ Store("accepted") /\ UNCHANGED <<setup, counted, outcome>>
          /\ client' \in {"enqueuing", "attempting"}
          /\ client' = "enqueuing" => setup.mode = "queue"
      BY <1>1 DEF Submit
    <2>2. at = "idle" /\ outcome # "deferred" BY <1>0, <2>1 DEF Whereabouts
    <2>3. counted.delivered = 0 /\ counted.failed = 0 BY <1>0, <2>1 DEF Accounts
    <2>4. Tells("accepted")' BY <2>1, <2>2, <2>3 DEF Tells
    <2> QED BY <2>1, <2>4, StoreAgrees DEF Statuses
  <1>2. CASE Enqueue
    <2>1. /\ UNCHANGED <<setup, reply, counted, outcome, logVars>>
          /\ client = "enqueuing" /\ client' = "noting"
      BY <1>2 DEF Enqueue, taskVars
    <2>2. \A s : Tells(s) => Tells(s)' BY <2>1 DEF Tells
    <2> QED BY <2>1, <2>2, KeepAgrees
  <1>3. CASE EnqueueRefused
    <2>1. /\ client = "enqueuing" /\ client' = "done" /\ reply' = "temporary"
          /\ UNCHANGED <<setup, place, outcome>>
      BY <1>3 DEF EnqueueRefused, Answers, taskVars
    <2>2. /\ at = "idle" /\ outcome # "deferred" /\ reply = "none"
          /\ counted.delivered = 0 /\ counted.failed = 0
      BY <1>0, <2>1 DEF Whereabouts, Accounts
    <2>3. CASE setup.mode = "queue"
      <3>1. Store("rejected") /\ counted'.delivered = 0 /\ counted'.failed = 0
        BY <1>0, <1>3, <2>2, <2>3 DEF EnqueueRefused, Bookkept, Counters
      <3>2. Tells("rejected")' BY <2>1, <2>2, <3>1 DEF Tells
      <3> QED BY <3>1, <3>2, StoreAgrees DEF Statuses
    <2>4. CASE setup.mode # "queue"
      <3>1. UNCHANGED logVars /\ Count({"rejected"}) BY <1>3, <2>4 DEF EnqueueRefused
      <3>2. counted'.delivered = 0 /\ counted'.failed = 0
        BY <1>0, <2>2, <3>1, Counting DEF Bookkept
      <3>3. \A s : Tells(s) => Tells(s)' BY <2>1, <2>2, <2>4, <3>2 DEF Tells
      <3> QED BY <2>1, <3>1, <3>3, KeepAgrees
    <2> QED BY <2>3, <2>4
  <1>4. CASE Note
    <2>1. Store("queued") /\ reply' = "queued" BY <1>4 DEF Note, Answers
    <2>2. Tells("queued")' BY <2>1 DEF Tells
    <2> QED BY <2>1, <2>2, StoreAgrees DEF Statuses
  <1>5. CASE InlineEnds
    <2>1. /\ client = "attempting" /\ at = "ended" /\ outcome' = "none"
          /\ UNCHANGED <<setup, place, logVars>>
      BY <1>5 DEF InlineEnds, AttemptReturns
    <2>2. /\ reply = "none" /\ outcome \in {"delivered", "deferred", "failed"}
          /\ setup.mode \in {"direct", "hybrid"}
      BY <1>0, <2>1 DEF Whereabouts, Bookkept, Modes
    <2>3. counted'.delivered = counted.delivered /\ counted'.failed = counted.failed
      <3>1. CASE counted' = counted BY <3>1
      <3>2. CASE Count({"rejected"}) BY <1>0, <3>2, Counting, Counted DEF Bookkept
      <3> QED BY <1>5, <2>2, <3>1, <3>2 DEF InlineEnds
    <2>4. client' \in {"done", "enqueuing"} /\ (outcome # "deferred" => client' = "done")
      BY <1>5, <2>2 DEF InlineEnds, Answers
    <2>5. outcome \in {"delivered", "failed"} => counted.delivered = 1 \/ counted.failed = 1
      BY <1>0, <2>1 DEF Accounts
    <2>6. ASSUME NEW s, Tells(s) PROVE Tells(s)'
      <3>1. s # "none" => /\ counted.delivered = 1 => s = "delivered"
                          /\ counted.failed = 1 => s = "failed"
                          /\ outcome = "deferred" => s = "deferred"
        BY <2>2, <2>6 DEF Tells
      <3> QED BY <2>1, <2>2, <2>3, <2>4, <2>5, <3>1 DEF Tells
    <2> QED BY <2>1, <2>6, KeepAgrees
  <1> QED BY <1>1, <1>2, <1>3, <1>4, <1>5 DEF Session

LEMMA AttemptKeepsLog ==
  ASSUME Books, Books', LogAgrees, AttemptStep
  PROVE  LogAgrees'
  <1>0. Bookkept /\ Whereabouts /\ Accounts BY DEF Books
  <1>1. at \in Working /\ UNCHANGED <<setup, client, reply, place>> BY DEF AttemptStep
  <1>2. /\ counted.delivered = 0 /\ counted.failed = 0
        /\ client = "attempting" \/ place = "active"
    BY <1>0, <1>1 DEF Accounts, Whereabouts, Working
  <1>3. client # "enqueuing" /\ (client = "done" => place # "none") /\ client # "new"
    BY <1>0, <1>2 DEF Whereabouts
  <1>4. CASE Continues
    <2>1. outcome' = "none" /\ counted' = counted BY <1>4 DEF Continues
    <2>2. CASE UNCHANGED logVars
      <3>1. \A s : Tells(s) => Tells(s)' BY <1>1, <1>2, <1>3, <2>1 DEF Tells
      <3> QED BY <1>3, <2>2, <3>1, KeepAgrees
    <2>3. CASE Store("sending")
      <3>1. Tells("sending")' BY <1>1, <1>2, <1>3, <2>1 DEF Tells
      <3> QED BY <2>3, <3>1, StoreAgrees DEF Statuses
    <2> QED BY <1>4, <2>2, <2>3 DEF Continues
  <1>5. ASSUME NEW o \in {"delivered", "deferred", "failed"}, at' = "ended", outcome' = o, Store(o)
        PROVE  LogAgrees'
    <2>1. /\ counted'.delivered = 1 <=> o = "delivered"
          /\ counted'.failed = 1 <=> o = "failed"
      BY <1>5 DEF Books, Accounts
    <2>2. Tells(o)' BY <1>1, <1>3, <1>5, <2>1 DEF Tells
    <2> QED BY <1>5, <2>2, StoreAgrees DEF Statuses
  <1> QED BY <1>4, <1>5 DEF AttemptStep, Resolves

LEMMA WorkerKeepsLog ==
  ASSUME Books, LogAgrees, Worker
  PROVE  LogAgrees'
  <1>0. Bookkept /\ Whereabouts /\ Accounts BY DEF Books
  <1>1. CASE TakeDue
    <2>1. /\ UNCHANGED <<setup, client, reply, counted, outcome, logVars>>
          /\ place = "waiting" /\ place' = "active"
      BY <1>1 DEF TakeDue
    <2>2. \A s : Tells(s) => Tells(s)' BY <2>1 DEF Tells
    <2> QED BY <2>1, <2>2, KeepAgrees
  <1>2. CASE WorkerEnds
    <2> DEFINE dead == outcome = "deferred" /\ attempts >= MaxAttempts
    <2>1. /\ place = "active" /\ at = "ended" /\ place' # "none" /\ outcome' = "none"
          /\ UNCHANGED <<setup, client, reply>>
      BY <1>2 DEF WorkerEnds, AttemptReturns
    <2>2. client \in {"noting", "done"} BY <1>0, <2>1 DEF Whereabouts, Bookkept
    <2>3. CASE dead
      <3>1. Store("failed") /\ Count({"failed", "dead"}) BY <1>2, <2>3 DEF WorkerEnds
      <3>2. counted.delivered = 0 /\ counted.failed = 0
        BY <1>0, <2>1, <2>3, Counted DEF Accounts
      <3>3. counted'.delivered = 0 /\ counted'.failed = 1
        BY <1>0, <3>1, <3>2, Counting DEF Bookkept
      <3>4. Tells("failed")' BY <2>1, <2>2, <3>3 DEF Tells
      <3> QED BY <3>1, <3>4, StoreAgrees DEF Statuses
    <2>4. CASE ~dead
      <3>1. UNCHANGED <<counted, logVars>> BY <1>2, <2>4 DEF WorkerEnds
      <3>2. \A s : Tells(s) => Tells(s)' BY <2>1, <2>2, <3>1 DEF Tells
      <3> QED BY <2>1, <2>2, <3>1, <3>2, KeepAgrees
    <2> QED BY <2>3, <2>4
  <1> QED BY <1>1, <1>2 DEF Worker

LEMMA LogNext == Books /\ LogAgrees /\ [Next]_vars => LogAgrees'
  <1> SUFFICES ASSUME Books, LogAgrees, [Next]_vars PROVE LogAgrees'
    OBVIOUS
  <1>1. CASE Session BY <1>1, SessionKeepsLog
  <1>2. CASE Attempt BY <1>2, AttemptSteps, AttemptKeepsBooks, AttemptKeepsLog
  <1>3. CASE Worker BY <1>3, WorkerKeepsLog
  <1>4. CASE Log BY <1>4, LogKeepsAgreement
  <1>5. CASE UNCHANGED vars
    <2>1. UNCHANGED <<setup, client, reply, place, counted, outcome, logVars>>
      BY <1>5 DEF vars, taskVars
    <2>2. \A s : Tells(s) => Tells(s)' BY <2>1 DEF Tells
    <2> QED BY <2>1, <2>2, KeepAgrees
  <1> QED BY <1>1, <1>2, <1>3, <1>4, <1>5 DEF Next

\* Once all is over the log shows the outcome, whoever wrote last, whatever the cache
\* has forgotten and whenever the operator cleared it, but for the late note of the
\* session and what a clear missed (ActivityLog, metrics.rs).
THEOREM TheLogTells == Spec => []RecordTells
  <1>1. Books /\ LogAgrees => RecordTells
    <2> SUFFICES ASSUME Books, LogAgrees, Over, ~clearing.missed
                 PROVE  Shown \in Ending \cup (IF reply = "queued" THEN {"queued"} ELSE {})
                          \cup (IF clearing.step \in {"cached", "done"} THEN {"none"} ELSE {})
      BY DEF RecordTells
    <2>1. client = "done" /\ place \in {"none", "gone"} BY DEF Over
    <2>2. CASE Shown = "none"
      <3>1. filed = "none" BY <2>2 DEF Shown
      <3>2. clearing.step = "done" BY <2>1, <3>1 DEF LogAgrees
      <3> QED BY <2>2, <3>2
    <2>3. CASE Shown = "queued" /\ reply = "queued" BY <2>3
    <2>4. CASE ~(Shown = "none") /\ ~(Shown = "queued" /\ reply = "queued")
      <3>1. Tells(Shown) BY DEF LogAgrees, Shown
      <3>2. /\ counted.delivered = 1 => Shown = "delivered"
            /\ counted.failed = 1 => Shown = "failed"
            /\ place = "none" /\ counted.delivered = 0 /\ counted.failed = 0 =>
                 Shown \in {"rejected", "deferred"}
        BY <2>1, <2>4, <3>1 DEF Tells
      <3>3. /\ counted.delivered \in Nat /\ counted.failed \in Nat
            /\ counted.delivered + counted.failed <= 1
            /\ place = "gone" => counted.delivered + counted.failed = 1
        BY Counted DEF Books, Accounts
      <3>4. Shown \in Ending
        <4>1. CASE counted.delivered = 1 BY <3>2, <3>3, <4>1 DEF Ending
        <4>2. CASE counted.failed = 1 BY <3>2, <3>3, <4>2 DEF Ending
        <4>3. CASE counted.delivered = 0 /\ counted.failed = 0
          BY <2>1, <3>2, <3>3, <4>3 DEF Ending
        <4> QED BY <3>3, <4>1, <4>2, <4>3
      <3> QED BY <3>4
    <2> QED BY <2>2, <2>3, <2>4
  <1> QED BY <1>1, BooksAlways, LogInitAgrees, LogNext, PTL DEF Spec

-----------------------------------------------------------------------------
(* How often the message is handed to a relay.                             *)

InAttempt == at \in {"checking", "routing", "sending", "ended"}

\* An attempt has as many hand-overs left as it has rounds left, or one without
\* fallback, and the relays it has not tried were handed the message by earlier
\* attempts only.  An attempt begins only below the limit.
SendsInv ==
  /\ attempts \in Nat /\ sent \in [Relays -> Nat] /\ left \in Nat
  /\ attempts <= AttemptLimit
  /\ at = "called" \/ place = "waiting" \/ client \in {"new", "enqueuing"} => attempts < AttemptLimit
  /\ client = "new" \/ (client = "attempting" /\ at = "called") => attempts = 0
  /\ client = "attempting" => attempts <= 1
  /\ at \in {"idle", "called"} => left = 0
  /\ InAttempt => attempts > 0
  /\ \A r \in Relays : sent[r] <= IF InAttempt /\ r \notin tried THEN attempts - 1 ELSE attempts
  /\ setup.fallback => Handed + left <= attempts * Rounds
  /\ ~setup.fallback =>
       /\ Handed <= attempts
       /\ at \in {"checking", "routing"} /\ left > 0 => Handed < attempts

LEMMA HandedCounts ==
  ASSUME NEW s \in [Relays -> Nat]
  PROVE  LET H(t) == {h \in Relays \X (Attempts \ {0}) : h[2] <= t[h[1]]}
         IN  /\ Cardinality(H(s)) \in Nat
             /\ \A r \in Relays : Cardinality(H([s EXCEPT ![r] = @ + 1])) \in
                                    {Cardinality(H(s)), Cardinality(H(s)) + 1}
  <1> DEFINE H(t) == {h \in Relays \X (Attempts \ {0}) : h[2] <= t[h[1]]}
  <1>1. IsFiniteSet(Relays \X (Attempts \ {0}))
    <2>1. IsFiniteSet(Relays) /\ MaxAttempts + 1 \in Int BY DispatchAssumption DEF DispatchAssumption
    <2>2. IsFiniteSet(Attempts) BY <2>1, FS_Interval DEF Attempts
    <2>3. IsFiniteSet(Attempts \ {0}) BY <2>2, FS_RemoveElement
    <2> QED BY <2>1, <2>3, FS_Product
  <1>2. \A t : IsFiniteSet(H(t)) /\ Cardinality(H(t)) \in Nat
    BY <1>1, FS_Subset, FS_CardinalityType
  <1>3. ASSUME NEW r \in Relays
        PROVE  Cardinality(H([s EXCEPT ![r] = @ + 1])) \in {Cardinality(H(s)), Cardinality(H(s)) + 1}
    <2> DEFINE t == [s EXCEPT ![r] = @ + 1]
               new == <<r, s[r] + 1>>
    <2>1. \A q \in Relays : s[q] \in Nat /\ t[q] = IF q = r THEN s[q] + 1 ELSE s[q]
      OBVIOUS
    <2>2. \A h \in Relays \X (Attempts \ {0}) : h[1] \in Relays /\ h[2] \in Nat
      BY DispatchAssumption DEF DispatchAssumption, Attempts
    <2>3. \A h \in Relays \X (Attempts \ {0}) : h[2] <= t[h[1]] <=> h[2] <= s[h[1]] \/ h = new
      BY <2>1, <2>2
    <2> HIDE DEF t, new
    <2>4. H(t) = H(s) \/ H(t) = H(s) \cup {new}
      BY <2>3
    <2>5. IsFiniteSet(H(s))
      BY <1>2
    <2> HIDE DEF H
    <2>6. Cardinality(H(t)) \in {Cardinality(H(s)), Cardinality(H(s)) + 1}
      BY <2>4, <2>5, FS_AddElement
    <2> QED BY <2>6 DEF t
  <1> QED BY <1>2, <1>3

\* One more hand-over counts for at most one.
LEMMA HandedOnce ==
  ASSUME sent \in [Relays -> Nat]
  PROVE  /\ Handed \in Nat
         /\ UNCHANGED sent => Handed' = Handed
         /\ \A r \in Relays : sent' = [sent EXCEPT ![r] = @ + 1] => Handed' \in {Handed, Handed + 1}
  <1>1. UNCHANGED sent => Handed' = Handed BY DEF Handed
  <1> QED BY <1>1, HandedCounts DEF Handed

LEMMA Limit == AttemptLimit \in Nat \ {0} /\ MaxAttempts <= AttemptLimit /\ (setup.mode = "hybrid" => 1 < AttemptLimit)
  BY DispatchAssumption DEF DispatchAssumption, AttemptLimit

LEMMA SendsInit == Init => SendsInv
  <1> SUFFICES ASSUME Init PROVE SendsInv OBVIOUS
  <1>1. /\ attempts = 0 /\ left = 0 /\ sent = [r \in Relays |-> 0] /\ at = "idle"
        /\ client = "new" /\ place = "none"
    BY DEF Init
  <1>2. Handed = 0
    <2>1. \A h \in Relays \X (Attempts \ {0}) : ~(h[2] <= sent[h[1]])
      BY <1>1, DispatchAssumption DEF DispatchAssumption, Attempts
    <2>2. {h \in Relays \X (Attempts \ {0}) : h[2] <= sent[h[1]]} = {} BY <2>1
    <2> QED BY <2>2, FS_EmptySet DEF Handed
  <1>3. sent \in [Relays -> Nat] /\ \A r \in Relays : sent[r] = 0 BY <1>1
  <1> QED BY <1>1, <1>2, <1>3, Limit, DispatchAssumption DEF SendsInv, InAttempt, DispatchAssumption

\* A step that hands nothing over and begins no attempt, and leaves no more rounds.
LEMMA SendsKept ==
  ASSUME Books, Books', SendsInv, UNCHANGED <<setup, attempts, sent, tried>>,
         InAttempt /\ InAttempt', left' \in Nat, left' <= left,
         at' \in {"checking", "routing"} /\ left' > 0 => at \in {"checking", "routing"} \/ setup.fallback,
         client' = client, place' = place
  PROVE  SendsInv'
  <1>1. Handed' = Handed /\ Handed \in Nat BY HandedOnce DEF SendsInv
  <1>2. AttemptLimit' = AttemptLimit BY DEF AttemptLimit
  <1>3. attempts * Rounds \in Nat BY DispatchAssumption DEF DispatchAssumption, SendsInv
  <1>4. place # "waiting" /\ client \notin {"new", "enqueuing"} /\ at' # "called" /\ at' # "idle"
    BY DEF Books, Whereabouts, InAttempt
  <1>5. setup.fallback => Handed' + left' <= attempts' * Rounds
    BY <1>1, <1>3 DEF SendsInv
  <1>6. ~setup.fallback =>
          /\ Handed' <= attempts'
          /\ at' \in {"checking", "routing"} /\ left' > 0 => Handed' < attempts'
    BY <1>1 DEF SendsInv
  <1> QED BY <1>1, <1>2, <1>4, <1>5, <1>6 DEF SendsInv

LEMMA FailedLeaves ==
  ASSUME NEW e, Failed(e), at = "sending", left \in Nat
  PROVE  /\ left' \in Nat /\ left' <= left /\ at' \in {"routing", "ended"}
         /\ at' = "routing" /\ left' > 0 => setup.fallback
  <1>1. CASE ShouldRetry(e)
    <2>1. at' = "routing" /\ left' = IF setup.fallback THEN left ELSE 0 BY <1>1 DEF Failed, GoesOn
    <2> QED BY <2>1
  <1>2. CASE ~ShouldRetry(e)
    <2>1. at' = "ended" /\ left' = left BY <1>2 DEF Failed, FailsForGood
    <2> QED BY <2>1
  <1> QED BY <1>1, <1>2

LEMMA AttemptKeepsSends ==
  ASSUME Books, Books', SendsInv, Attempt
  PROVE  SendsInv'
  <1>0. attempts \in Nat /\ sent \in [Relays -> Nat] /\ left \in Nat /\ Rounds \in Nat \ {0}
    BY DispatchAssumption DEF SendsInv, DispatchAssumption
  <1>1. CASE Begin
    <2>1. /\ at = "called" /\ attempts' = attempts + 1 /\ tried' = {} /\ left' = Rounds
          /\ UNCHANGED <<setup, client, place, sent>> /\ at' \in {"checking", "routing"}
      BY <1>1 DEF Begin
    <2>2. Handed' = Handed /\ Handed \in Nat BY <1>0, <2>1, HandedOnce
    <2>3. AttemptLimit' = AttemptLimit BY <2>1 DEF AttemptLimit
    <2>4. attempts < AttemptLimit /\ left = 0 /\ (client = "attempting" => attempts = 0)
      BY <2>1 DEF SendsInv
    <2>5. place # "waiting" /\ client \notin {"new", "enqueuing"}
      BY <2>1 DEF Books, Whereabouts
    <2>6. (attempts + 1) * Rounds = attempts * Rounds + Rounds /\ attempts * Rounds \in Nat BY <1>0
    <2>7. setup'.fallback => Handed' + left' <= attempts' * Rounds
      BY <1>0, <2>1, <2>2, <2>4, <2>6 DEF SendsInv
    <2>8. ~setup'.fallback => Handed' < attempts'
      BY <1>0, <2>1, <2>2 DEF SendsInv
    <2>9. \A r \in Relays : sent'[r] <= attempts' - 1
      BY <1>0, <2>1 DEF SendsInv, InAttempt
    <2>10. attempts' <= AttemptLimit'
      BY <1>0, <2>1, <2>3, <2>4, Limit
    <2> QED BY <1>0, <2>1, <2>2, <2>4, <2>5, <2>7, <2>8, <2>9, <2>10 DEF SendsInv, InAttempt
  <1>2. CASE Check
    <2>1. at = "checking" /\ UNCHANGED <<setup, client, place, taskVars>> BY <1>2 DEF Check
    <2> QED BY <1>0, <2>1, SendsKept DEF InAttempt, taskVars
  <1>3. CASE Checked
    <2>1. /\ at = "checking" /\ at' \in {"routing", "ended"}
          /\ UNCHANGED <<setup, client, place, attempts, tried, left, sent>>
      BY <1>3 DEF Checked, FailsForGood, GoesOn
    <2> QED BY <1>0, <2>1, SendsKept DEF InAttempt
  <1>4. CASE NoRoute
    <2>1. /\ at = "routing" /\ at' = "ended"
          /\ UNCHANGED <<setup, client, place, attempts, tried, left, sent>>
      BY <1>4 DEF NoRoute, Defers
    <2> QED BY <1>0, <2>1, SendsKept DEF InAttempt
  <1>5. CASE Delivered
    <2>1. /\ at = "sending" /\ at' = "ended"
          /\ UNCHANGED <<setup, client, place, attempts, tried, left, sent>>
      BY <1>5 DEF Delivered
    <2> QED BY <1>0, <2>1, SendsKept DEF InAttempt
  <1>6. CASE NotDelivered \/ ReplyLost
    <2>1. /\ at = "sending" /\ \E e : Failed(e)
          /\ UNCHANGED <<setup, client, place, attempts, tried, sent>>
      BY <1>6 DEF NotDelivered, ReplyLost
    <2>2. /\ left' \in Nat /\ left' <= left /\ at' \in {"routing", "ended"}
          /\ at' = "routing" /\ left' > 0 => setup.fallback
      BY <1>0, <2>1, FailedLeaves
    <2> QED BY <2>1, <2>2, SendsKept DEF InAttempt
  \* A relay that is picked was not tried in this attempt, and takes a round.
  <1>7. ASSUME NEW r \in Relays, Skip(r) \/ Send(r)
        PROVE  SendsInv'
    <2>1. /\ at = "routing" /\ left > 0 /\ r \notin tried /\ tried' = tried \cup {r} /\ left' = left - 1
          /\ at' \in {"routing", "sending", "ended"}
          /\ UNCHANGED <<setup, client, place, attempts>>
          /\ UNCHANGED sent \/ (sent' = [sent EXCEPT ![r] = @ + 1] /\ at' = "sending")
      BY <1>7 DEF Skip, Send, Picks, GoesOn, FailsForGood
    <2>2. /\ Handed \in Nat /\ Handed' \in {Handed, Handed + 1}
          /\ at' # "sending" => Handed' = Handed
      BY <1>0, <2>1, HandedOnce
    <2>3. /\ attempts > 0 /\ \A q \in Relays : sent[q] <= IF q \notin tried THEN attempts - 1 ELSE attempts
      BY <2>1 DEF SendsInv, InAttempt
    <2>4. /\ sent' \in [Relays -> Nat]
          /\ \A q \in Relays : sent'[q] <= IF q \notin tried' THEN attempts - 1 ELSE attempts
      BY <1>0, <2>1, <2>3
    <2>5. AttemptLimit' = AttemptLimit BY <2>1 DEF AttemptLimit
    <2>6. place # "waiting" /\ client \notin {"new", "enqueuing"}
      BY <2>1 DEF Books, Whereabouts
    <2>7. attempts * Rounds \in Nat BY <1>0
    <2>8. setup.fallback => Handed' + left' <= attempts * Rounds
      <3> DEFINE most == attempts * Rounds
      <3>1. setup.fallback => Handed + left <= most BY DEF SendsInv
      <3>2. left' = left - 1 /\ Handed' \in {Handed, Handed + 1} /\ most \in Nat
        BY <2>1, <2>2, <2>7
      <3> HIDE DEF most
      <3>3. ASSUME setup.fallback PROVE Handed' + left' <= most
        <4>1. Handed + left <= most BY <3>1, <3>3
        <4>2. Handed \in Nat /\ Handed' \in Nat /\ Handed' <= Handed + 1 BY <2>2
        <4>3. left \in Nat /\ left' = left - 1 /\ most \in Nat BY <1>0, <3>2
        <4>4. \A h, k, l, n, m \in Int : h + l <= m /\ k <= h + 1 /\ n = l - 1 => k + n <= m OBVIOUS
        <4>5. Handed \in Int /\ Handed' \in Int /\ left \in Int /\ left' \in Int /\ most \in Int
          BY <4>2, <4>3
        <4> QED BY <4>1, <4>2, <4>3, <4>4, <4>5
      <3> QED BY <3>3 DEF most
    <2>9. ~setup.fallback =>
            /\ Handed' <= attempts
            /\ at' \in {"checking", "routing"} => Handed' < attempts
      BY <1>0, <2>1, <2>2 DEF SendsInv
    <2> QED BY <1>0, <2>1, <2>3, <2>4, <2>5, <2>6, <2>8, <2>9 DEF SendsInv, InAttempt
  <1> QED BY <1>1, <1>2, <1>3, <1>4, <1>5, <1>6, <1>7 DEF Attempt

\* Outside an attempt nothing is handed over; a message queued again has attempts left.
LEMMA OthersKeepSends ==
  ASSUME Books, Books', SendsInv, Session \/ Worker
  PROVE  SendsInv'
  <1>1. UNCHANGED <<setup, sent, attempts>> /\ AttemptLimit' = AttemptLimit
    <2>1. UNCHANGED <<setup, sent, attempts>>
      BY DEF Session, Worker, Submit, Enqueue, EnqueueRefused, Note, InlineEnds, TakeDue, WorkerEnds, taskVars
    <2> QED BY <2>1 DEF AttemptLimit
  <1>2. Handed' = Handed /\ Handed \in Nat BY <1>1, HandedOnce DEF SendsInv
  <1>3. ASSUME at \in {"idle", "called"} <=> at' \in {"idle", "called"}, InAttempt <=> InAttempt',
               at = at' \/ ~InAttempt, UNCHANGED <<tried, left>>,
               at' = "called" \/ place' = "waiting" \/ client' \in {"new", "enqueuing"} => attempts < AttemptLimit,
               client' = "new" \/ (client' = "attempting" /\ at' = "called") => attempts = 0,
               client' = "attempting" => attempts <= 1
        PROVE  SendsInv'
    BY <1>1, <1>2, <1>3 DEF SendsInv, InAttempt
  <1>4. ASSUME AttemptReturns,
               place' = "waiting" \/ client' \in {"new", "enqueuing"} => attempts < AttemptLimit,
               client' # "new", client' = "attempting" => attempts <= 1
        PROVE  SendsInv'
    <2>1. at = "ended" /\ at' = "idle" /\ left' = 0 BY <1>4 DEF AttemptReturns
    <2>2. \A r \in Relays : sent'[r] <= attempts' BY <1>1 DEF SendsInv
    <2>3. setup.fallback => Handed' + left' <= attempts' * Rounds
      <3>1. attempts * Rounds \in Nat BY DispatchAssumption DEF DispatchAssumption, SendsInv
      <3> QED BY <1>1, <1>2, <2>1, <3>1 DEF SendsInv
    <2> QED BY <1>1, <1>2, <1>4, <2>1, <2>2, <2>3 DEF SendsInv, InAttempt
  <1>5. CASE Submit
    <2>1. /\ client = "new" /\ at = "idle" /\ UNCHANGED <<tried, left, place>> /\ at' \in {"idle", "called"}
          /\ client' \in {"enqueuing", "attempting"} /\ place # "waiting"
      BY <1>5 DEF Submit, Books, Whereabouts
    <2>2. attempts = 0 /\ attempts < AttemptLimit BY <2>1 DEF SendsInv
    <2> QED BY <1>3, <2>1, <2>2 DEF InAttempt
  <1>6. CASE Enqueue
    <2>1. /\ client = "enqueuing" /\ client' = "noting" /\ place' = "waiting"
          /\ UNCHANGED <<at, tried, left>>
      BY <1>6 DEF Enqueue, taskVars
    <2>2. attempts < AttemptLimit BY <2>1 DEF SendsInv
    <2> QED BY <1>3, <2>1, <2>2 DEF InAttempt
  <1>7. CASE EnqueueRefused \/ Note
    <2>1. client' = "done" /\ UNCHANGED <<at, place, tried, left>>
      BY <1>7 DEF EnqueueRefused, Note, Answers, taskVars
    <2> QED BY <1>3, <2>1 DEF InAttempt, SendsInv
  <1>8. CASE InlineEnds
    <2>1. /\ client = "attempting" /\ AttemptReturns /\ place' = place
          /\ client' = "done" \/ (client' = "enqueuing" /\ setup.mode = "hybrid")
      <3>1. client = "attempting" /\ AttemptReturns /\ place' = place BY <1>8 DEF InlineEnds
      <3>2. outcome \in {"delivered", "failed", "deferred"} /\ setup.mode \in {"direct", "hybrid"}
        BY <3>1 DEF AttemptReturns, Books, Bookkept, Whereabouts, Modes
      <3> QED BY <1>8, <3>1, <3>2 DEF InlineEnds, Answers
    <2>2. place = "none" /\ attempts <= 1 /\ attempts \in Nat
      BY <2>1 DEF Books, Whereabouts, SendsInv
    <2>3. client' = "enqueuing" => attempts < AttemptLimit
      BY <2>1, <2>2, Limit
    <2> QED BY <1>4, <2>1, <2>2, <2>3
  <1>9. CASE TakeDue
    <2>1. /\ place = "waiting" /\ at = "idle" /\ place' = "active" /\ at' = "called"
          /\ UNCHANGED <<client, tried, left>> /\ client \notin {"new", "attempting", "enqueuing"}
      BY <1>9 DEF TakeDue, Books, Whereabouts
    <2>2. attempts < AttemptLimit BY <2>1 DEF SendsInv
    <2> QED BY <1>3, <2>1, <2>2 DEF InAttempt
  <1>10. CASE WorkerEnds
    <2>1. /\ place = "active" /\ AttemptReturns /\ UNCHANGED client
          /\ client \notin {"new", "attempting", "enqueuing"}
          /\ place' = "waiting" => ~(attempts >= MaxAttempts)
      BY <1>10 DEF WorkerEnds, Books, Whereabouts
    <2>2. place' = "waiting" => attempts < AttemptLimit
      BY <2>1, Limit, DispatchAssumption DEF SendsInv, DispatchAssumption
    <2> QED BY <1>4, <2>1, <2>2
  <1> QED BY <1>5, <1>6, <1>7, <1>8, <1>9, <1>10 DEF Session, Worker

LEMMA SendsNext == Books /\ Books' /\ SendsInv /\ [Next]_vars => SendsInv'
  <1> SUFFICES ASSUME Books, Books', SendsInv, [Next]_vars PROVE SendsInv'
    OBVIOUS
  <1>1. CASE Attempt BY <1>1, AttemptKeepsSends
  <1>2. CASE Session \/ Worker BY <1>2, OthersKeepSends
  <1>3. CASE Log \/ UNCHANGED vars
    <2>1. UNCHANGED <<setup, client, place, attempts, at, tried, left, sent>>
      BY <1>3 DEF Log, vars, taskVars
    <2>2. Handed' = Handed BY <2>1 DEF Handed
    <2>3. AttemptLimit' = AttemptLimit BY <2>1 DEF AttemptLimit
    <2> QED BY <2>1, <2>2, <2>3 DEF SendsInv, InAttempt
  <1> QED BY <1>1, <1>2, <1>3 DEF Next

\* However inline and queued attempts, skipped relays and lost replies mix, a relay is
\* handed the message at most once in an attempt, an attempt hands it over no more
\* often than it has rounds, and attempts end (attempt_delivery, run_queue_worker).
THEOREM HandOversAreBounded == Spec => []SendsBounded
  <1>1. SendsInv => SendsBounded
    <2> SUFFICES ASSUME SendsInv PROVE SendsBounded OBVIOUS
    <2>1. /\ attempts \in Nat /\ left \in Nat /\ sent \in [Relays -> Nat] /\ attempts <= AttemptLimit
          /\ \A r \in Relays : sent[r] <= IF InAttempt /\ r \notin tried THEN attempts - 1 ELSE attempts
      BY DEF SendsInv
    <2>2. Handed \in Nat BY <2>1, HandedOnce
    <2>3. attempts * Rounds \in Nat BY <2>1, DispatchAssumption DEF DispatchAssumption
    <2>4. CASE setup.fallback
      <3>1. Handed <= attempts * Rounds BY <2>1, <2>2, <2>3, <2>4 DEF SendsInv
      <3> QED BY <2>1, <2>4, <3>1 DEF SendsBounded
    <2>5. CASE ~setup.fallback
      <3>1. Handed <= attempts * 1 BY <2>1, <2>2, <2>5 DEF SendsInv
      <3> QED BY <2>1, <2>5, <3>1 DEF SendsBounded
    <2> QED BY <2>4, <2>5
  <1>2. Books /\ SendsInv /\ [Next]_vars => Books' /\ SendsInv' BY BooksNext, SendsNext
  <1> QED BY <1>1, <1>2, BooksInit, SendsInit, PTL DEF Spec

-----------------------------------------------------------------------------
(* Types.                                                                  *)

\* What Books, SendsInv and LogAgrees leave open.
Rest ==
  /\ rcpts \subseteq Recipients /\ rcpts # {}
  /\ tried \subseteq Relays /\ left \in 0 .. Rounds
  /\ {live, filed} \subseteq Statuses \cup {"none"}

LEMMA LogTypesKept ==
  ASSUME {live, filed} \subseteq Statuses \cup {"none"}, LogAgrees,
         UNCHANGED logVars \/ LogStep \/ \E s \in Statuses : Store(s)
  PROVE  {live', filed'} \subseteq Statuses \cup {"none"}
  <1>1. clearing.copy \in Statuses \cup {"none"} BY DEF LogAgrees
  <1>2. CASE LogStep
    <2>1. live' \in {live, "none", clearing.copy} /\ filed' \in {filed, clearing.copy}
      BY <1>2 DEF LogStep, Evict, ClearFiles, ClearReads, ClearCache
    <2> QED BY <1>1, <2>1
  <1>3. CASE UNCHANGED logVars BY <1>3 DEF logVars
  <1>4. CASE \E s \in Statuses : Store(s) BY <1>4 DEF Store
  <1> QED BY <1>2, <1>3, <1>4

LEMMA RestNext ==
  ASSUME Books, SendsInv, LogAgrees, Rest, [Next]_vars
  PROVE  Rest'
  <1>0. Rounds \in Nat \ {0} BY DispatchAssumption DEF DispatchAssumption
  \* Who writes the log writes a status.
  <1>1. ASSUME UNCHANGED logVars \/ LogStep \/ \E s \in Statuses : Store(s),
               rcpts' \subseteq rcpts, rcpts' # {}, tried' \subseteq Relays,
               left' \in 0 .. Rounds
        PROVE  Rest'
    <2>1. {live', filed'} \subseteq Statuses \cup {"none"} BY <1>1, LogTypesKept DEF Rest
    <2> QED BY <1>1, <2>1 DEF Rest
  <1>2. CASE Session
    <2>1. /\ UNCHANGED rcpts
          /\ UNCHANGED <<tried, left>> \/ (tried' = {} /\ left' = 0)
          /\ UNCHANGED logVars \/ \E s \in {"accepted", "queued", "rejected"} : Store(s)
      BY <1>2 DEF Session, Submit, Enqueue, EnqueueRefused, Note, InlineEnds, AttemptReturns, taskVars
    <2>2. UNCHANGED logVars \/ \E s \in Statuses : Store(s) BY <2>1 DEF Statuses
    <2> QED BY <1>0, <1>1, <2>1, <2>2 DEF Rest
  <1>3. CASE Worker
    <2>1. /\ UNCHANGED rcpts
          /\ UNCHANGED <<tried, left>> \/ (tried' = {} /\ left' = 0)
          /\ UNCHANGED logVars \/ Store("failed")
      BY <1>3 DEF Worker, TakeDue, WorkerEnds, AttemptReturns
    <2>2. UNCHANGED logVars \/ \E s \in Statuses : Store(s) BY <2>1 DEF Statuses
    <2> QED BY <1>0, <1>1, <2>1, <2>2 DEF Rest
  <1>4. CASE Attempt
    <2>1. UNCHANGED logVars \/ \E s \in Statuses : Store(s)
      <3>1. UNCHANGED logVars \/ \E s \in {"sending", "deferred", "failed", "delivered"} : Store(s)
        BY <1>4, AttemptSteps DEF AttemptStep, Continues, Resolves
      <3> QED BY <3>1 DEF Statuses
    <2>2. CASE Begin
      <3>1. UNCHANGED rcpts /\ tried' = {} /\ left' = Rounds BY <2>2 DEF Begin
      <3> QED BY <1>0, <1>1, <2>1, <3>1 DEF Rest
    <2>3. CASE Checked
      <3>1. /\ UNCHANGED <<tried, left>>
            /\ rcpts' = rcpts \/ (rcpts' # {} /\ rcpts' \subseteq rcpts)
        BY <2>3 DEF Checked
      <3> QED BY <1>1, <2>1, <3>1 DEF Rest
    <2>4. CASE Check \/ NoRoute \/ Delivered
      <3>1. UNCHANGED <<rcpts, tried, left>>
        BY <2>4 DEF Check, NoRoute, Delivered, taskVars
      <3> QED BY <1>1, <2>1, <3>1 DEF Rest
    <2>5. CASE NotDelivered \/ ReplyLost
      <3>1. UNCHANGED <<rcpts, tried>> /\ left' \in {left, 0}
        BY <2>5 DEF NotDelivered, ReplyLost, Failed, FailsForGood
      <3> QED BY <1>0, <1>1, <2>1, <3>1 DEF Rest
    <2>6. ASSUME NEW r \in Relays, Skip(r) \/ Send(r) PROVE Rest'
      <3>1. UNCHANGED rcpts /\ tried' = tried \cup {r} /\ left > 0 /\ left' = left - 1
        BY <2>6 DEF Skip, Send, Picks
      <3>2. left' \in 0 .. Rounds BY <1>0, <3>1 DEF Rest
      <3> QED BY <1>1, <2>1, <3>1, <3>2 DEF Rest
    <2> QED BY <1>4, <2>2, <2>3, <2>4, <2>5, <2>6 DEF Attempt
  <1>5. CASE Log
    <2>1. UNCHANGED <<rcpts, tried, left>> /\ LogStep BY <1>5 DEF Log, taskVars
    <2> QED BY <1>1, <2>1 DEF Rest
  <1>6. CASE UNCHANGED vars
    <2>1. UNCHANGED <<rcpts, tried, left, logVars>> BY <1>6 DEF vars, taskVars
    <2> QED BY <1>1, <2>1 DEF Rest
  <1> QED BY <1>2, <1>3, <1>4, <1>5, <1>6 DEF Next

\* A message keeps a recipient to go to for as long as it is attempted, its attempts
\* never pass the limit, even where the inline attempt is not checked against it, and
\* the log holds no status but those of the code (submit, attempt_delivery).
THEOREM DispatchTypes == Spec => []TypeOK
  <1>1. Books /\ SendsInv /\ Rest => TypeOK
    <2> SUFFICES ASSUME Books, SendsInv, Rest PROVE TypeOK OBVIOUS
    <2>1. attempts \in Attempts
      BY DispatchAssumption DEF DispatchAssumption, SendsInv, AttemptLimit, Attempts
    <2> QED BY <2>1 DEF Books, Bookkept, SendsInv, Rest, TypeOK, Working, Counters
  <1>2. Init => Rest
    BY DispatchAssumption DEF Init, LogInit, Rest, DispatchAssumption, Statuses
  <1>3. Books /\ SendsInv /\ LogAgrees /\ Rest /\ [Next]_vars =>
          Books' /\ SendsInv' /\ LogAgrees' /\ Rest'
    BY BooksNext, SendsNext, LogNext, RestNext
  <1> QED BY <1>1, <1>2, <1>3, BooksInit, SendsInit, LogInitAgrees, PTL DEF Spec
=============================================================================
