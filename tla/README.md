# smtp-relay: a verification project

TLA+ specifications of smtp-relay, an SMTP relay and outbound load balancer:
models of its concurrent core, TLC configurations that check them on small
instances, and TLAPS proofs for every instance. Source paths are relative to the
repository's crate, e.g. `queue.rs` is `src/queue.rs`.

    tlasany M.tla                                parse a module
    tlc -workers 2 -config R.cfg MCX.tla         run R (the table below)
    tlapm XProofs.tla                            check the proofs of a module

## 1. The system

| Part | State | Operations | Concurrency and failure |
|---|---|---|---|
| Delivery queue, `queue.rs` | `Inner` under one mutex: a map ordered by (due time, sequence), an index by id, the ids in flight; the spool directory: `<id>.eml` and `<id>.json` per message | enqueue, take_due, finish, requeue, remove, purge, flush_now, recover, wait_for_work | workers, SMTP sessions and operators call it at once; writes to the spool happen under the mutex, removals outside it; any write can fail or be cut short |
| Queue workers and submission, `dispatch.rs` | the message each worker holds | submit, enqueue, schedule_retry, run_queue_worker | `queue.workers` tasks; the attempt is a long await that shutdown aborts |
| Delivery attempt, `dispatch.rs` | attempt count, relays tried | attempt_delivery: select, reserve, rewrite, send, record, next relay | many at once, over a pool snapshot taken at the start |
| Relay runtime, `relay/pool.rs` | per relay: active flag, circuit breaker, quota windows, in-flight count, statistics | activate, deactivate, circuit_state, record_success, record_failure, reset_circuit, try_reserve_quota, release_quota, begin_delivery, carry_over_from | atomics and two mutexes, never held together; several calls make up one logical step |
| Relay selection, `relay/selector.rs` | cursor and smooth weights of the pool | select | reads each relay's eligibility, one lock after the other |
| Health checker, `relay/health.rs` | none of its own | probe_all, probe | a task per relay; races deliveries and operators |
| Configuration, `state.rs`, `config.rs` | `Config` and `Pool`, each replaced as a whole; the file and its `tmp-write` | apply_config, edit_config, persist_config, persist_activation, reload_from_disk, load, save | read-modify-replace without a lock across the steps; writes fail, the process ends half-way |
| Admin API, `admin/routes.rs` | none of its own | relay editor, configuration editor, switches, queue operations, reload | each request a task; some await between reading and writing |
| HTTP server, `admin/http.rs` | a task per connection | read a request, route it, answer, stream events | keep-alive; clients that leave; shutdown |
| Dashboard sessions, login guard, `state.rs` | sessions with their expiry; failures and blocks by address | create, username, revoke; check, fail, success | a login takes the lock three times, an authorisation up to twice |
| SMTP listener and session, `smtp/` | connection permits; the transaction of each session | EHLO, AUTH, MAIL, RCPT, DATA, RSET, QUIT | a task per connection; time limits; shutdown |
| Recipient validation, `validation.rs` | endpoint cursor, semaphore | filter_recipients | HTTP probes that fail, disagree or time out |
| Metrics, activity log, `metrics.rs` | counters, time series; a cache of records and the files they are appended to | inc, record, push, update, clear | written by every other part; eviction; a clear reads, then rewrites |
| Event bus, `events.rs` | a sequence number, a bounded broadcast channel | publish, subscribe | many publishers; a subscriber that falls behind loses events |
| Message rewriting, `message/` | rotation cursors | rewrite, rotate | text processing |
| Life of the process, `main.rs` | the shutdown flag and watch | serve, finish_in_flight | kill, abort of tasks at the end of the grace period |

How they interact: an SMTP session hands a message to `dispatch::submit`, which
either queues it (mode `queue`) or attempts it inline first (`hybrid`) or only
(`direct`). A worker takes due messages from the queue, attempts them, and
finishes or requeues them. An attempt takes the pool in force, asks the selector
for relays and reports to the relay's runtime; probes and operators write to the
same runtime. A reload replaces configuration and pool and copies the runtimes'
state; what is under way goes on with the old ones.

What makes each part correct:

* queue - mail that was accepted is delivered or kept, in one place, by one
  task, through retries, flushes, purges, shutdowns and crashes, and comes back once
  decided only from a copy that a crash left on disk; the number of attempts and the
  size of the queue are bounded; all mail is decided in the end;
* relay - a breaker trips at its threshold and comes back; slots and quota are
  accounted exactly; the operator's switch is what the operator last asked for;
* selection - only relays that are open to the mail are chosen; while the candidates
  stay the same traffic follows the weights, and however they change no relay is
  passed over for ever;
* attempt - one outcome per message, told truly to the client, counted once and
  shown by the log; a relay is handed a message once an attempt;
* validation - a recipient is left out only on an answer that is read as a verdict;
* configuration - what is in force, in the pool and in the file belongs together,
  and a refused change leaves no trace;
* session - a message is submitted with the sender and the recipients of its
  own transaction; permits and connection counts agree;
* sessions and guard - a session admits its user exactly while it is owed; the
  passwords that can be guessed are bounded, and a block ends;
* events - a dashboard knows of every event it was not shown.

The hazards behind these, each at its line, are in `PROJECT.json`.

## 2. The modules

| Module | What it is |
|---|---|
| `MailPromise` | abstract: what the relay owes for mail it accepted |
| `DeliveryQueue` | queue, spool, workers, shutdown, crash and recovery; implements `MailPromise` |
| `MCDeliveryQueue` | its small instances |
| `QueueWakeup` | how a worker that found nothing to do learns of work |
| `MCQueueWakeup` | its small instance |
| `QueueWakeupProofs` | the line's order; due mail is noticed; signals are heeded in time |
| `DeliveryQueueProofs` | types and structure; no accepted mail is lost or mislaid; the refinement; attempts and depth |
| `RelayRuntime` | one relay: breaker, quota, slots, switch, over reloads |
| `MCRelayRuntime` | its small instances |
| `RelayRuntimeProofs` | types, breaker, slots and quota |
| `SmtpSession` | inbound sessions, the listener's limit, the stop that waits for them |
| `MCSmtpSession` | its small instances |
| `SmtpSessionProofs` | the dialogue; permits, counts and the orderly stop |
| `Selector` | which relay: bindings, overrides, stickiness, the four strategies |
| `MCSelector` | its small instance |
| `SelectorProofs` | where mail may leave; sticky shares; the debts of smooth weighted round robin, and that none is passed over for ever |
| `Validation` | the check of a message's recipients |
| `ActivityLog` | the log as one message sees it: cache, files, the operator's clear |
| `Dispatch` | one message from its submission to its end; composes `Validation` and `ActivityLog` |
| `MCDispatch` | its small instances |
| `DispatchProofs` | types, one outcome, the client's answer, the verdicts, the log, the number of hand-overs |
| `ConfigStore` | configuration, pool and file under concurrent requests |
| `MCConfigStore` | its small instances |
| `ConfigStoreProofs` | unique ids, refused changes, the file, the pool, the passwords |
| `AdminAccess` | dashboard sessions, the login guard, the rules of admission |
| `AdminHttp` | connections, routing, authorisation, login, the event stream; composes `AdminAccess` |
| `MCAdminHttp` | its small instances |
| `AdminHttpProofs` | types, bounded guesses, sessions as owed, no gap in a stream without notice |

The modules divide the system where it shares little: `Dispatch` has one message
over several relays and takes a relay's quota, the queue's capacity and the
choice among relays as free, which `RelayRuntime`, `DeliveryQueue` and `Selector`
model in turn; a reload is in `ConfigStore` for all relays' switches, and in
`RelayRuntime` for all state of one relay.

### DeliveryQueue

| Variable | Code |
|---|---|
| `scheduled`, `byId`, `inFlight`, `seq` | `Inner` and `Queue::sequence` |
| `pc`, `held` | where each worker is in `run_queue_worker`, and its message |
| `erasing`, `purging` | removals between mutex and unlink; the id list `purge` copied |
| `unread` | spool entries `recover` has still to visit |
| `spool` | per message: body absent, empty or complete; metadata absent, torn or complete, with its attempts and due time |
| `phase` | the process: running, draining (`finish_in_flight`), closing, down, recovering |
| `now` | the clock, a tick at a time |
| `submitted`, `accepted`, `settled`, `tries`, `torn`, `skipped` | read by properties only; `settled` loses a message when recovery loads it |
| `mishaps` | process ends and failed writes so far, up to `MaxMishaps` |

An action is what happens under one hold of the mutex, or between two awaits:
`Enqueue` and `Requeue` include the spool write, which may fail part-way;
`Finish` and `Remove` end at the unlock, and `FinishErase` and `RemoveErase` are
the unlinks after it. `TakeDue` includes the attempt count that
`attempt_delivery` starts by raising. An attempt itself is the time a worker
spends in `sending`; it ends in `Finish` (delivered, failed or out of attempts) or
`Requeue`. `LoopTop` separates reading the shutdown flag from acting on it.
`Crash` can strike anywhere, between the two unlinks of a removal and within a
spool write; `Exit` is the orderly end, which cuts off workers at their await.
`Restart` and the `Recover` actions are `recover`, one directory entry at a time
and in any order. The files say nothing of a decision: `RecoverLoad` takes whatever
complete pair it finds for mail that is owed, also that of a message that was settled
just before a crash.

Abstractions: a message is its id, due time and attempts. The mutex makes a
spool write one step for everyone but a crash. A body is absent, empty or
complete: a file cut off in the middle, which `recover_one` takes for complete, is
not told apart. `queue.enabled` is true. One purge runs at a time. The map is
changed through the index only, so `Remove` takes `by_id`'s key for present in the
map, as `IndexesAgree` says. A worker may look whenever it is at `poll`: when it does is in
`QueueWakeup`. The grace period may end at any time.

### QueueWakeup

| Variable | Code |
|---|---|
| `line` | `Inner.scheduled` in its order: ids with the ticks until each is due |
| `pc`, `timer`, `job` | each worker: where it is between `take_due` and the end of `wait_for_work`, the delay it computed or what is left of it, the message it sends |
| `permit`, `woken` | tokio's `Notify`: the stored permit; what each waiter has been sent |
| `posting`, `flushing`, and `requeued` in `pc` | operations that have unlocked and not yet notified |
| `stopping`, `since` | the shutdown flag, and the ticks since it was set |

`take_due` and `time_until_due` take the mutex one after the other, and the wait begins
after both: `NothingDue`, `Measure` and `Sleep` are separate, so that submissions,
retries, flushes and removals come in between. `Wake` has the choice `select!` makes
when the timer and a notification are ready together: a notification for one waiter
that is dropped goes to another. Time is relative. A tick passes only when every worker
sends or sleeps: a task that is ready runs within a tick.

Abstractions: an attempt takes any time and ends in `finish` or `requeue`, whatever its
count; ids are used again, so that the run never comes to its end; a notification
reaches any waiter, not only the one that has waited longest; the capacity, the spool
and the in-flight set are in `DeliveryQueue`.

### RelayRuntime

One relay, in as many generations as there are reloads: each `apply_config`
builds a new `RelayRuntime` and copies state into it, and attempts keep the one
they began with.

| Variable | Code |
|---|---|
| `current`, `newest` | the pool in force, and the one `rebuild_from` has built |
| `fileEnabled` | the relay's `enabled` in `AppState::config` |
| `enabled` | `RelayRuntime::config.enabled`, per generation |
| `active`, `circuit`, `usage`, `inFlight` | the fields of `RelayRuntime`, per generation |
| `at`, `gen`, `charge` | each attempt's place, its generation, its quota reservation |
| `opAt`, `opOn`, `opGen` | each operator's place in `set_activation` |
| `spent`, `late`, `wish`, `edited` | read by properties only |

Data is relative, which keeps the state space finite without a bound on time: an
open breaker has ticks left to wait, a quota counter is fresh or stale, the
consecutive counts stop at their threshold (the code compares with `>=`).
`Choose` and `Reserve` are separate, as `is_eligible` and `try_reserve_quota` are;
`Refund` and the report that follows it are separate; `Toggle`, `SwitchCircuit`
and `Persist` are the steps of `set_activation`; `Rebuild` and `Install` those of
`apply_config`. `BeginTest` and `EndTest` are the dashboard's test message
(`send_test`): it takes a slot and reports to the breaker like an attempt, but looks
at no breaker and reserves no quota, so `QuotaHeld` counts attempts only.

Abstractions: `is_eligible` is evaluated in one step, although it takes its locks
one after the other; `try_reserve_quota` and `begin_delivery` follow one another
without an await and are one step; `carry_over_from` likewise, and the two stores
of `apply_config`. One reload at a time. The wall clock does not go back.
Thresholds and limits are the same before and after a reload. Statistics and the
`healthy` flag, which only the dashboard reads, are left out. An attempt that
passes the relay by in one round and chooses it in a later one, after a reload,
holds on to the old generation; its only effect in between, looking at the
breaker and rolling the counters, is also that of `Look`.

### SmtpSession

| Variable | Code |
|---|---|
| `conn` | the await each session's task is at: banner, head of `command_loop`, a command, an AUTH line, `read_body`, `dispatch::submit`, farewell |
| `helo`, `authed`, `envelope`, `errors` | `helo_name`, `authenticated`, `envelope_sender` with `recipients`, `protocol_errors` of `Session` |
| `steps` | continuation lines that `collect_plain` or `collect_login` has still to read |
| `kept`, `over` | `raw` and `over_size` of `read_body`, in lines |
| `handed` | the `InboundMessage` given to `dispatch::submit` |
| `permits`, `active` | the listener's semaphore; the gauge `connections_active` |
| `phase`, `expired`, `listening` | `serve` and `finish_in_flight`; the deadline passed; the accept loop runs |
| `told`, `inBody`, `sent`, `cut`, `quiet` | the client: the envelope its replies describe, whether it is sending a body and how much of it, whether its connection broke just after the dot of a stuffed line, whether it has fallen silent |

A step is what a session does between two awaits: it reads one line and runs the
handler with its reply. The state of the client is what makes the properties say
something: `told` changes by what replies say and `envelope` by what handlers
assign, and `InStep`, `SubmittedAsAgreed` and `BodyWhole` relate the two.
`LoopTop` separates reading the shutdown flag from waiting for a line, and
`StopListening` the flag from the accept loop's noticing it, so connections are
accepted late, also after `finish_in_flight` has found none open.

`read_line` hands over what it has at the end of input as a line (`lines.rs:82`).
Where that is text, the session goes on and finds the connection closed at its next
read, as with `Broken`. Where it is the first dot of a stuffed body line, `read_body`
takes it for the final dot: `CutAtDot` is the client's side of this, and `FinalDot`
is true of it as of the client's own end.

Abstractions: no line has a bare LF in it, which `read_line` would take for its end
(`lines.rs:53`). An address stands for all that differ in case only. A body is
counted in lines, the limit too; a line beyond `line_limit` is `BodyLongLine`.
Commands that only answer, and refusals, are one action, `Answer`: they leave the
session as it is. Clients pipeline commands but send a body only after 354. A
reply that cannot be written is `Broken`; one that blocks for ever is not
modelled. Time limits strike clients that are silent for as long, in a body line
by line. The flag and the gauge, relaxed atomics in the code, are sequentially
consistent. What `submit` does is the subject of the other modules: here it
returns. `Drained` does not look at the queue's in-flight count, which could only
delay it. A session keeps the configuration it began with.

### Selector

| Variable | Code |
|---|---|
| `routing` | strategy, stickiness and fallback of `RoutingConfig` |
| `cursor` | `Pool::cursor`, modulo `CursorMod`, a multiple of every number of candidates |
| `smooth` | `Pool::smooth_weights` |
| `last` | the latest selection and what it read; read by properties only |

A relay is its position in the pool. Eligibility is the relays' own and changes by
itself, so `select` reads it as an input: once, and a second time where the code
reads it again because no relay of the general pool was open, with a result that
need not agree. Relays already tried for the message are among those not open.
The outcomes of `select` - refusal, the only relay, the override, the sticky pick,
the strategy - are an action each, and their order is that of the code. A domain
is its labels, so that `*.example` is a prefix; names that differ in case are one
name. `stable_hash` is any function. `least_used` ranks relays by what it reads, an
input. The loops over candidates that add up weights are running totals (`UpTo`), a
recursive function of the position, so that sums can be
proved about. Random choice does not occur in the code.

### Validation, ActivityLog, Dispatch

| Variable | Code |
|---|---|
| `setup` | submission mode, `fallback_on_failure`, what the mail is like |
| `client`, `reply` | where the session is in `submit`, and what it answered |
| `place` | the message in the queue: waiting, with a worker, gone |
| `rcpts`, `attempts` | of `QueuedMessage` |
| `at`, `tried`, `left`, `outcome` | where `attempt_delivery` is; its `attempted`; rounds left; its result |
| `counted` | `messages_delivered`, `messages_failed`, `messages_dead_lettered`, `messages_rejected` |
| `sent`, `taken` | read by properties only |
| `allow`, `check`, `next`, `probe`, `rotation` | `filter_recipients`: the policy, where each recipient is, the endpoint it is at, its probe on each server, `YAHOO_RR` |
| `heard` | verdicts given on a recipient; read by properties only |
| `live`, `filed` | the record's status in the cache and in the last line of the files |
| `clearing` | the operator's clear between its reading, the cache and the files |

The session and a worker can be at the same message: `Enqueue` publishes it, and
`Note` sets the record to queued afterwards, as `enqueue` and `schedule_retry` do.
`NotDelivered` has every class of error: permanent or not, with or without a status
code, a code of authentication, of a command or another; `ReplyLost` is a send
that the relay took and that failed for the sender. All recipients of a message are
checked at once, each with its servers or endpoints, and every request can fail.
An API's reply gives a value to each kind of field that `interpret_yahoo_json` and
`read_validated` look at, two fields at a time, and `AsBool` is what `json_bool` and
`status_bool` make of a value: a yes or a no, but also `unknown`, `error` or
`disposable`, which they read as false, and any number but zero, which they read as
true. `heard` tells them apart: what is read as a verdict and is none is heard as
`unclear`.

Abstractions: rewriting is kept as far as it can refuse a message. The log is that
with `logging.directory`; without it there is one list under a lock. The log moves
on before or after the recipient checks, which do not touch it. Clears happen once.
The process does not end and no task is aborted within an attempt; what that leaves
behind is in `DeliveryQueue`.
Events, the time series and the fields of the record other than its status are left
out.

### ConfigStore

| Variable | Code |
|---|---|
| `config`, `pool` | `AppState::config`, `AppState::pool` with its generation |
| `file`, `temp` | the configuration file and `tmp-write`: absent, torn, or whole with what it holds |
| `handler` | each request in progress: its step and its locals (draft, new pool, marks, open file) |
| `begun`, `mishaps` | requests, and failed writes and process ends so far |
| `overlap`, `raced`, `renamed`, `refused`, `last` | read by properties only |

A request is a sequence of actions, one per lock, await or file operation: look up,
SMTP test, `edit_config`'s reading, validation and building, the two stores of
`apply_config`, `persist_config`'s reading, opening, writing and renaming.
Every kind of request that changes the configuration or a switch is there: add,
update and delete of a relay, settings, the configuration editor with its redacted
passwords, the switch of one or several relays, the toggle, the exclusive form,
reload, save. Two requests that save at once share `tmp-write`: one truncates what
the other has written, renames what the other has open. A relay is its id, the
user it logs in as, its switch, its password and a token for the request that wrote the
rest. The editor may give a relay another id or another user, and then nothing is
restored for the mark it sends back (`config.rs:1249`).

Abstractions: `persist_activation` writes the configuration without validating it, and
`save` validates it, as in the code; of what `validate` checks, the two rules about the
relays alone are kept: ids are unique, and under `weighted` some enabled relay has a
weight. The other rules that tie settings together are left out: authentication required
and its users (`config.rs:1391`), overrides and details and the relays they name (1502),
the submission mode and the queue (1536), validation and its channels (1562). The
editor changes at most one relay or the strategy at a time. The copy of a relay with its
password (`routes.rs:906`) is left out: it is an addition.

### AdminAccess, AdminHttp

| Variable | Code |
|---|---|
| `policy` | `admin:` of the configuration in force: networks, password, token |
| `sessions`, `attempts` | `SessionStore`, `AuthGuard`; instants are ticks left |
| `issued` | tokens handed out |
| `conn` | each connection: where its task is, its address, request, settings cloned last, and for a stream its receiver and the frames shown |
| `client` | whether the client of a connection reads, has stopped reading or has gone |
| `stopping`, `listening` | the shutdown watch; the server has not taken the stop yet |
| `sent`, `sequence`, `taken` | the channel; `EventBus::sequence`; the number a publisher has taken and not yet sent |
| `life`, `unused`, `wrong`, `verdict` | read by properties only |

An operator of `AdminAccess` is what happens under one lock; an action of
`AdminHttp` is what a task does between two awaits or two locks. `AuthorizeCookie`
and `AuthorizeToken` are the two looks `authorize` takes at the sessions; a login
is `LoginCheck`, `LoginVerify`, `LoginCreate`. `life` says what a user is owed: his
session is live from the login until he signs out, leaves it unused for its whole
term, or the process ends; it does not look at `sessions`. Changes of the settings
strike between any two steps. A stream is its writes and its waits: `Subscribe` and
`Watch` make its receiver and its watch, one after the other, after the head is
written; `Stream` and `Beat` begin a write, `Written` and `WriteFails` end it, and only
where the task waits does it notice the stop (`StopStream`). A write to a client that
does not read waits for as long; one to a client that has gone may succeed for a time.

Abstractions: a body, a header and a path are the fields the router looks at.
Token comparison is equality. What a route does after it has admitted a request is
in the component it calls. HEAD is treated as GET. A client presents only tokens
that were handed out. Replies other than streams are written at once. The limit of
failures and the terms of blocks and sessions stay the same, although new settings can
change them. What tokio's broadcast channel does to a receiver that was overtaken -
it reports how many it lost and goes on with the oldest kept - is part of `Stream`.

## 3. The runs

| Run | Checks | Instance |
|---|---|---|
| `QueueSafety` | agreement of map and index, one owner, files kept, nothing mislaid, attempts bounded, `MailPromise` | 2 messages, 2 workers, capacity 1, 2 attempts, both modes, persist, 2 mishaps; symmetry |
| `QueueLive` | every accepted message is decided | 2 messages, 2 workers, capacity 1, 2 attempts, mode queue, persist, 1 mishap, fairness; no symmetry |
| `QueueWakeup` | due mail never finds all workers asleep; none sleeps past the cap | 3 workers, 3 messages, a cap of 2 ticks, retries within it and beyond it; symmetry |
| `QueueTornWrite` | violated: a restart does not lose mail | 1 message, 1 worker, capacity 1, 1 mishap |
| `RelayQuota` | slots exact, quota held | 2 attempts or test messages, minute and hour with limit 1, 1 reload; symmetry |
| `RelayBreaker` | closed means below threshold; a tripped relay comes back | 1 attempt or test message, 1 operator, thresholds 2, 1 reload, fairness |
| `Sessions` | client and session in step; submitted as agreed; no line of a body lost; permits and gauge exact; an orderly stop interrupts nothing; silent clients are dropped; a stop ends | 3 connections for 1 permit, 2 senders, 3 recipients with limit 2, body limit 2, 2 errors, AUTH required; fairness; no symmetry |
| `Selection` | mail leaves where it may; the debts of smooth weights cancel and stay bounded however the candidates change; sticky shares | 4 relays of weights 2, 0, 1, 1, one outside the rotation, two tied to a detail; 2 details, 2 overrides, 3 kinds of mail, 5 routings |
| `Delivery` | verdicts followed; one outcome; the client told the truth; sends bounded; the log right at the end; every message settled | 1 message, 2 recipients (1 of Yahoo), 2 servers, 2 endpoints, 2 relays, 2 rounds, 2 attempts, every mode, 1 clear; fairness |
| `ConfigChanges` | ids unique in force; pool in step; refusals without trace; saved stays; the file whole; passwords kept | 2 ids, 1 configured, 2 users, 2 handlers, 2 requests, 1 mishap; symmetry |
| `AdminLogin` | guesses bounded; sessions as owed; blocks end | 2 connections, 1 address, 2 tokens, limit 2, block and session of 2 ticks, 2 settings; fairness |
| `AdminStream` | no event lost without notice; streams end | 1 connection whose client stalls or leaves, 2 publishers, 5 events, channel of 2; fairness |

Further configurations beside the project can be run in the same way: `QueueCapacity`
(3 messages, memory only: `DepthBounded`, which `DepthStaysBounded` proves), `SessionStop`
(3 connections for 2 permits and tiny mails: the last four properties of `Sessions`), and
`QueueStranded`, `RelayOvershoot`, `RelayToggle`, `SessionErrors`, `ConfigUnsaved`,
`YahooOverrun`, `SessionCut`, `VerdictsUnclear`, `ConfigMark` and `ConfigRaced`,
each of which reproduces a disagreement listed below. The types of the queue, the
wake-up, the relay, the sessions, a delivery and the admin server are theorems;
the `TypeOK` of these modules can be added to any configuration.

Why the bounds are enough. Two messages and two workers give every race between
two tasks and over two map entries. Capacity 1 is passed by one retry, so refusal,
overfull queue and a recovery that stops are all reached. With two attempts a
message is retried and also given up; that is so where everything must be decided in the
end (`QueueLive`), too. Two mishaps are a failed write and then a
crash, or two crashes, the second during recovery. For the relay, two attempts
race for the last place in a window; a minute is forgotten by a reload and an hour
is carried over; thresholds of 2 tell counting from tripping, and two reloads
would add only a third generation that behaves as the second. A third worker lets
a notification go to one, a permit to another and leave one asleep; a retry beyond the
cap makes the cap cut a wait short. For sessions, the
transactions are independent of one another and meet in the permits, the gauge and the
stop only: one session at a time with every command checks the dialogue, and the next
connections find the permit taken, given back, or the process stopping
(`SessionStop` has two at a time, and the theorems any number); a third recipient finds
the limit reached, a body line the limit passed by its sum or by itself.
A session has no memory but its variables,
and `errors` stops at the limit it is compared with, so dialogues of any
length are covered. Messages are submitted once each, so the clock stops when all is decided.

For the selection, four relays have an unequal weight, one that counts as one
although it is zero, and a candidate set that changes in every way from one message to
the next; the smooth weights then take all the values they ever take, and the
cursor counts modulo every length. For a delivery, one recipient for each kind of
check and two channels for each give agreement, disagreement and failure of all; two
relays and two rounds let an attempt go on and end, two attempts let a message be
retried and given up. For the configuration, two requests at once show every race of
two, the second also beginning in the middle of the first; a third would repeat
one of them. For the admin server, two connections of one address overlap in a
login and in the use, refresh and end of a session, two tokens tell a session from
another's, and terms of two ticks are prolonged, run out and elapse. A channel of two
is overtaken by five events more than once, by a client that reads again as by one that
leaves.

`MaxMishaps`, `MaxReloads`, `MaxRequests` and `MaxEvents` are the only bounds on
behaviour; they appear in guards, never as state constraints, so temporal properties
see complete behaviours.

`CHECK_DEADLOCK FALSE` is set where the system may stop: the queue comes to rest when
every message is decided, a message when it is settled, an idle relay can wait for
work for ever, requests are bounded, and a process that has ended takes no step.
`AdminLogin` and `AdminStream` check for deadlock. In `Selection` there is nothing
that could be in the way of a next message.

Every property has a mutant of the code - a dropped guard, a missing count, a
wrong order - that breaks it; the faulty variants stand beside the action they
are variants of and are listed in `PROJECT.json`.

**Fairness.** `DeliveryQueue`: tokio runs ready tasks, so worker steps, removals
and recovery are weakly fair; an attempt ends by itself, since every network step
has a time limit; the clock moves; a grace period ends; a supervisor restarts the
process. Nothing is assumed of clients, operators or crashes. Which due message
is taken is decided by the code, not by fairness. `RelayRuntime`: time passes,
and the health loop looks at every relay of the pool in force at each interval
(with `health.enabled`). No fairness is assumed of deliveries, probes' answers
or reloads. `SmtpSession`: a session's task runs when it is ready, its time limits
fire, `submit` returns (its network steps are timed), the grace period ends and
the process exits after it. Nothing is assumed of clients, which may stop at any
point or never stop sending; in particular `ShutdownCompletes` rests on the
deadline, since a session that goes on receiving body lines does not look at the
flag. `Dispatch`: the session, the attempt and the worker run when they can, since
every HTTP request and every send has a time limit; which answer comes, and whether
one comes, is free. Nothing is assumed of the log or the clear. `AdminHttp`: clocks
run (`ClockSpec`, for `AdminLogin`). For `AdminStream` (`StreamSpec`) a stream's task runs
when it can, and so does the timer of its heartbeat: making the receiver and the watch,
a write that succeeds and a ping are weakly fair. A write to a client that has gone may
succeed for a time, but not for ever, since the kernel resets the connection: `WriteFails`
is strongly fair, as writes begin and end in between. `select!` polls its branches in
random order (`http.rs:462`), so a stop that is there at one wait after the other is taken
some time, however many events are ready too: `StopStream` is strongly fair. Nothing is
assumed of clients, publishers, operators or the reading of events; a client that does
not read holds its task in a write, also over the stop.

### Where code and documentation disagree

1. *Torn writes.* `write_spool` (`queue.rs:386`) rewrites both files in place.
   A crash or a full disk during the rewrite of a retry leaves an unusable pair,
   and accepted mail is gone. `config.rs:731`: "Write queued messages to disk so a
   restart does not lose mail". Writing to a temporary file and renaming it would
   make the exception `torn` in `KeptOnDisk` and `MailPromise` unnecessary.
2. *Stranded mail.* `requeue` may overfill the queue; `recover` stops at the
   capacity (`queue.rs:437`) and the rest of the spool is not read again until
   the next start. `queue.rs:408`: "Reloads spooled messages after a restart".
3. *Late refunds.* `release_quota` (`pool.rs:362`) takes one off whichever window
   is current. `pool.rs:330`: reserving up-front "is what keeps a hard provider
   limit from being exceeded".
4. *A lost edit.* `rebuild_from` (`pool.rs:762`) compares the file's `enabled`
   with a copy that `persist_activation` does not update, so switching a relay
   back on in the file has no effect after it was switched off through the API.
   `pool.rs:760`: "If the operator changed `enabled` in the file, that wins".
5. *Errors without a cap.* `handle` counts empty, unknown and unimplemented
   commands (`session.rs:213`, 286, 290), but `command_loop` compares the count with
   `MAX_PROTOCOL_ERRORS` only after lines it refuses itself (177, 195): unknown
   commands never end a session. `session.rs:28`: "Cap on `RSET`-less protocol errors
   before the connection is dropped".

6. *Applied, not saved.* Under `weighted`, switching off the last enabled relay is
   applied to the pool and to the configuration in force, but the configuration
   no longer validates (`config.rs:1487`), so nothing is saved
   until a relay is switched on again or the strategy is another. `state.rs:276`:
   "Mirrors a live activation change into the configuration
   file so the state survives a restart".
7. *Yahoo calls unbounded.* The permit is dropped before the call
   (`validation.rs:101`), and every message makes its own semaphore. `config.rs:455`:
   "Max Yahoo API calls in flight".

8. *A body cut short.* A connection that breaks off just after the first byte of a
   line that begins with a stuffed dot leaves `.` in the buffer; `read_line` hands it over
   at the end of input (`lines.rs:86`, as the test `final_line_without_terminator_is_returned`
   asks of it for commands), and `read_body` takes it for the final dot
   (`session.rs:782`): what came before is submitted as the message.
   `session.rs:751`: "Reads a `DATA` payload up to the `<CRLF>.<CRLF>` terminator", and
   780: a line of a single dot "is never mistaken for the terminator". `BodyWhole` is what
   holds: nothing else cuts a body short, and nothing before the cut is missing.
9. *No verdict, read as one.* `status_bool` reads `unknown`, `error` and `disposable` as
   false (`validation.rs:456`), and it and `json_bool` read any number but zero as true
   (440, 450), a `status` of 500 included: such an answer decides the recipient.
   `validation.rs:251` sends an error to the next endpoint and in the end to the policy.
   `VerdictsFollowed` is what holds: it excepts the recipients of the verify APIs that
   such an answer was given for.
10. *A mark for a password.* `restore_secrets_from` (`config.rs:1249`) restores the
   password of a relay only under its old id and user name: an editor that changes either
   and leaves the password as it was shown stores the redaction mark. `config.rs:1238`:
   "so a dashboard save never wipes passwords". `PasswordsKept` is what holds.
11. *A pool of another configuration.* Two applications at the same moment can leave the
   pool of one beside the configuration of the other (`state.rs:232`), and
   `persist_activation` can put back relays that an edit in between has removed.
   `state.rs:205`: "Validates and installs a new configuration". `InStep` is what holds
   however requests overlap, unless two are replacing the configuration at once.

`QueueTornWrite`, `QueueStranded`, `RelayOvershoot`, `RelayToggle`, `SessionErrors`,
`ConfigUnsaved`, `YahooOverrun`, `SessionCut`, `VerdictsUnclear`, `ConfigMark` and
`ConfigRaced` show these in turn; the first is a run of the project.

Smaller ones that the models made visible; the properties state what holds
in spite of them:

* Mail that was settled can be sent again: `finish` gives up the mutex (`queue.rs:245`)
  before it unlinks the files, so a crash in between leaves a complete pair, and recovery
  takes it for mail that is owed. `MailPromise` has this as its one way back (`Reopen`),
  for copies that a crash left and nobody else removes.
* A message the upstream client refuses to build is a permanent failure without a
  status code; `is_relay_fault` (`error.rs:99`) takes it for the relay's fault, and it
  is sent to every relay and retried until it is given up. `error.rs:44`: "5xx /
  malformed message: retrying will not help".
* `enqueue` publishes before it notes: a message delivered at once can stay `Queued` in
  the log (`dispatch.rs:158`), which `metrics.rs:298` explains as "Waiting in the retry
  queue". `RecordTells` excepts this.
* Two submissions that find every worker between computing its delay and waiting share
  one permit (`queue.rs:344`): while the worker it wakes is busy with the first, the second
  waits for another's timer, up to 500 ms. `HeedsInTime` is what remains.
* In hybrid mode with `max_attempts: 1` a message is attempted twice; `config.rs:726`:
  "Total delivery attempts before a message is marked dead". `AttemptLimit` says so.
* Smooth weighted round robin "produces the exact configured ratio" (`pool.rs:932`) only
  while the candidates stay the same. As relays leave and rejoin the rotation, debts
  can grow to a whole turn and beyond: with weights 1, 1, 1 and 5 a debt of 8, the sum
  of the weights, is reached. `DebtBounded` is what holds: the largest weight once for
  each other relay. With equal weights it is always less than a turn. That is a bound on
  debts and not on shares, since picks from different candidates have different prices:
  with weights 1, 1 and 8 and the third relay a candidate of every other message, the
  picks are 5, 1 and 4 of every ten, for ever, and the second relay has a third of what
  it would have by its weight. It is not passed over for ever either
  (`EveryCandidateHasATurn`).
* Test messages of the dashboard are sent without reserving quota (`routes.rs:803`): a
  limit counts the others only.
* A refused enqueue counts twice in `messages_rejected`, in `dispatch.rs:171` and in
  the session.
* An update of a record during a clear is lost: the clear writes back what it read
  before. `clearing.missed` marks it.
* Two overlapping saves share `tmp-write`: the file can be torn, or hold what the other
  request read. The properties of `ConfigStore` that mention `overlap` hold for requests
  one at a time.
* A dashboard editor opened before a relay was deleted can store the redaction mark as
  the password of the one added again, if the other request falls between.
* A change with `persist=false` is saved by the next request that persists
  (`routes.rs:346`), since the whole configuration is written.
* A bulk switch with an unknown id changes the relays it knows and answers 404.
* Two concurrent additions of an SMTP detail can create the same id
  (`routes.rs:1309`).
* A correct login that was let through before a block lifts it; event numbers can
  be sent out of order; a stream that subscribes after the shutdown was announced is
  not told of it. `GuessesBounded`, `NoSilentGap` and `StreamsEnd` allow for these.

## 4. The proofs

Every safety property of the passing runs is a theorem. The theorems hold for every
value of the constants that satisfies `ConstantsAssumption`, `WakeupAssumption`,
`RelayAssumption`, `SessionAssumption`, `SelectorAssumption`, `ConfigStoreAssumption`,
`DispatchAssumption` with `ValidationAssumption` and `ActivityLogAssumption`, or
`AdminAccessAssumption` with `AdminHttpAssumption`: any finite sets of messages,
workers, attempts and connections, any capacity, limits, terms and thresholds, any
number of relays with any weights, bindings and overrides, any recipients, servers, addresses,
tokens and settings, any number of requests
that overlap.

*Queue.* The invariants are not inductive one by one. `IndexesAgree` needs the
sequence counter to be fresh (`SeqFresh`), or an insert could overwrite a key.
`SingleOwner` needs it to hold across removals, and that recovery runs with
no task beside it (`PhasesSeparate`). Together they are `StructInvariant`.
`KeptOnDisk` rests on files being unlinked for settled mail only
(`ErasedIsSettled`, and through it on `SingleOwner`), and `NothingMislaid` on
recovery having still to see whatever it must bring back (`RecoveryComplete`): that
is `Durability`. `AttemptsStayBounded` relates the count of attempts really made to
that of each copy - scheduled, being sent, on disk - by the number of mishaps
(`CountsKept`), and assumes that submissions arrive with attempts left
(`AttemptsLeft`), which hybrid mode with `max_attempts: 1` does not satisfy.
`DepthStaysBounded` counts messages in the map and with workers against
capacity and workers. `QueueImplementsPromise` maps each step of the queue to
a step of `MailPromise` or a stutter. `Fate` asks first whether the queue holds the
message, in memory or as files that count (`Kept`), and only then what was said of it, so
mail that comes back maps to kept mail, whatever was decided before. The complete pairs
of settled mail (`Leftover`) are `lingering` while a task is on its way to unlink them
and `stale` when a crash has ended that task. That no step but `Reopen` brings settled
mail back rests on `SettledIsOver` (`SettledStaysOut`): nothing settled is scheduled or
in hand, until recovery loads it and owes it again.

*Wake-up.* `WakeupInv` has four parts. `Types` includes the order of the line, which
each of its operations keeps (`WakeupTypes`); `Jobs` says that a message being sent is
not also in the line. `DueIsNoticed` speaks of mail that is due, but a worker misses
it, if at all, earlier: when it goes to sleep for longer than the first message needs, or
when a message overtakes what it measured. So `Noticed` asks, whenever the line is not empty and
no operation has yet to notify, for one worker that is at work or on its way to look, that
will find a permit or a notification, or whose timer is not later than what is first now.
A notification that is dropped with its waiter is passed on, a permit is left only
if nobody waits, and a worker that takes the first message away is itself at work.
For `HeedsInTime`, `Heeded` compares each timer with the time since the flag
was set and since each message came due: their sum stays within the cap.

*Relay.* `BreakerNeverPassedOver` is inductive together with the types: each
operation on a breaker is shown, as a lemma about records, to keep it well formed
and below its threshold while closed. `SlotsNeverLeak` needs that an attempt never
works with a generation not yet installed (`TasksAgree`), whose count a reload
sets to zero. `QuotaStaysHeld` follows from `QuotaCounted`: the newest counter is
within its limit and has seen every charge that is held against it, but for late
refunds. The charges a counter has not seen - those of superseded generations and
of windows a reload forgets - are exactly what `QuotaHeld` leaves out, and
`RelayOvershoot` shows that the late refunds cannot be left out.

*Sessions.* The three dialogue properties are inductive together, as `DialogueInv`,
with two more parts: every transaction, even an unfinished one, is within the
recipient limit and of an authenticated client where that is required (`Agreed`),
and a body is read only for a complete envelope, with every line counted so far
unless it is over size (`Reading`). `BodyCutOnlyAtDot` says of a submission that the
client ended its body, or that its connection broke at the dot of a stuffed line, and
that all the lines before are in it. `CountInv` adds the exact counts: the gauge is
the number of open sessions, so finding it zero means that no session is
anywhere between greeting and farewell, and one accepted later goes from the
greeting to the head of the loop and, the flag being set, straight to its end.
That is `OrderlyExitHolds`.

*Selection.* `RoutedWell` needs that each stage picks from its candidates, and that there
is one to pick: the candidates' weights, laid end to end, cover every target below their
sum once (`OneAtTarget`), an index below their number is one candidate's
(`AtIndexIsOne`), and what is least has a first (`LeastIsOne`). The same fact, for all
targets together, is `StickyShare`. `DebtBounded` is not inductive: a relay
at its bound could be passed over once more, and nothing about the others rules
that out. `DebtsSpread` does. No set S of the N relays is owed more than
L * |S| * (N - |S|), where L is the largest weight. A pick that a relay of S
wins does not raise the set's sum, nor does one without candidates in S. If
the winner is outside, it had been raised at least as high as every candidate in S;
the bound for S with the winner and
the bound for S without the candidates then leave room for what the pick adds
(`Squeeze`). One relay is a set, and so are all others. With equal
weights the same bound is below a turn (`EqualWeightsWithinATurn`).
For `EveryCandidateHasATurn` a count is added of the messages in a row for which a relay was
a candidate and another was picked (`overlooked`, which nothing reads). Each of them
raises the relay's debt by its weight, and the debt is bounded, so their number is.

*Admin server.* `AdminTypes` says of what is kept that it was issued and is within its
term. `GuessesBounded` is not inductive: nothing in it says that the guard has counted
what was compared. `BrakeHolds` does. While an address is not blocked, its entry has as
many failures as wrong passwords were compared, fewer than the limit; once it is
blocked, only requests that were let through before (`Comparing`) can add one, so
the wrong passwords and these requests together stay below the limit and the number of
connections. A comparison moves one from the second count to the first. For
`SessionsAsOwed`, `SessionsExact` relates what the store keeps to what users are owed:
the ticks a session has left and those its user has let pass make up its term, and
nothing else in the store has time left; so a token is known exactly when its session
is live (`KnownIsOwed`), at each of the two looks of `authorize`. `Judged` adds that
nothing is due yet where the second look is still to come. For `NoSilentGap`,
`StreamsAccounted` says that the frames a stream has shown, an event counting one and a
notice as many as it names, lead from where it subscribed to where its receiver is, and that
each event it showed is the one sent at that place (`Accounted`), from the moment it has
a receiver (`Subscribed`). A receiver
that has been overtaken moves ahead by what the notice names.

*Delivery.* `OneOutcome` and `ClientTruth` follow from `Books`, in three parts. The
message is in one place: an attempt is the session's or a worker's, and the queue has
the message from the moment the session put it there (`Whereabouts`). What is counted
is what it came to: nothing while an attempt is under way or a further one is due, one
count once it is over, and every relay that took it is that count or a lost reply
(`Accounts`). For `VerdictsFollowed`, `ChecksSound` says of each recipient whose check
is still open what has been heard so far, since a verdict may come from another server
than the one that fails last; an answer of an API that is read as a verdict and is none is
noted as `unclear`, and only it is excepted. For `RecordTells`, `LogAgrees` says that every status
that is kept - in the cache, in the files, in the copy a clear will write back -
agrees with the books (`Tells`), except after an update that a clear missed; whichever
of them is shown in the end then tells. For `SendsBounded`, `SendsInv` weighs what was
handed over against the rounds an attempt has left, and says that a relay not yet tried
in this attempt was handed the message by earlier ones only. `DispatchTypes` adds that a message
keeps a recipient to go to.

*Configuration.* Requests work on drafts, so what holds in force must hold of each
draft on its way there (`NoTwins`): unique ids survive overlapping requests because
validation looks at the whole draft that is stored, not at the change. `Traces` gives
the edits of a request its token and says that one found in force, in a pool, in a file or
in another request's draft is of a request that can no longer be refused. `Installing`
is the argument for `InStep`, with requests that overlap: a pool that is about to be
stored is built of the draft that is stored with it, whatever is in force by then, and as
long as no two requests have been between their first and their last store at once
(`raced`), the one that is has the configuration to itself. `Saving` and
`Agreement` follow a request that is alone, step by step: what it has read is still in
force, what it is about to rename is what it has applied, and what the editor sends back
is restored or one of those it renamed (`Restorable`, `MarkStoredOnlyIfRenamed`). A second
request beside it ends that for good (`overlap`): what one of them truncated may be
stored by the other, into the file too, where a restart finds it, and a mark that was to
be restored may meet a relay that another request has added in between. That is why
`FileWhole`, `SavedStays` and `PasswordsKept` claim nothing then, while `ValidInForce`,
`RefusedTraceless` and, unless `raced`, `InStep` hold however requests overlap.

Sums and counts along a sequence or over the positions of the pool are recursive functions,
whose equation is shown first (there is a function that satisfies it, position by
position, since a set of naturals that lacks one lacks a first); what they add up to
is then shown for all positions in the same way (`Positions`, `TallyMore`).

Only model-checked: `EventuallyDecided`, `TrippedComesBack`, `SilentClosed`,
`ShutdownCompletes`, `EventuallySettled`, `BlocksEnd` and `StreamsEnd`, since liveness
under fairness is out of the prover's reach, and the disagreements, which are
counterexamples.

## 5. Not modelled, and what could follow

Left out for good:

* the rewriting of messages and the rotation of headers (`message/`): text
  processing without shared state but for a cursor; `Dispatch` keeps that it can
  refuse a message;
* the formats of the configuration, the rules about single fields and those that tie
  settings other than the relays' own together; `ConfigStore` keeps two rules about relays;
* TLS and SMTP towards the upstream, which the `lettre` crate does: the outcome is a
  free choice, a lost reply included;
* the parsing of HTTP, the dashboard's pages, the importer's line parser and the
  read-only routes; formatting, ids and logging;
* time series, the latency histogram and the Prometheus text: presentation of counts
  that are atomic;
* writes to an SMTP client, which have no time limit (`session.rs:738`): a client that
  stops reading holds its session until the process ends.

What could follow, in order:

1. A refinement of `ConfigStore`, with one request at a time, to a store that
   changes configuration, pool and file in one step.
2. A refinement of the log that `Dispatch` keeps for one message to one status that
   only moves forward, with the clear as its only reset.
3. What the smooth weights promise a relay over a stretch of messages with the same
   candidates, as a theorem about the picks: `EveryCandidateHasATurn` is the part of it that
   holds for changing candidates, too.
