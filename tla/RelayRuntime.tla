---------------------------- MODULE RelayRuntime ----------------------------
(***************************************************************************)
(* One upstream relay (relay/pool.rs, RelayRuntime) under everything that  *)
(* works on it at the same time: delivery attempts (dispatch.rs), health   *)
(* probes (relay/health.rs), the operator's switches and test messages     *)
(* (admin/routes.rs) and configuration reloads (state.rs, apply_config),   *)
(* which put a new RelayRuntime - a generation - in the place of the old   *)
(* one.  Attempts that began before a reload go on using the generation    *)
(* they began with.                                                        *)
(*                                                                         *)
(* Data is kept relative, so that behaviours have no end: an open breaker  *)
(* has ticks to wait instead of a deadline, a quota counter says whether   *)
(* it belongs to the current window instead of naming its window, and      *)
(* consecutive failures and successes stop counting at their threshold.    *)
(***************************************************************************)
EXTENDS Integers, FiniteSets

CONSTANTS
  Deliveries,        \* attempts, and test messages, that can be under way at once
  Operators,         \* admin API connections
  Windows,           \* quota windows in use, 1 minute, 2 hour, 3 day
  Carried,           \* the windows whose usage a reload copies
  Limit,             \* max_per_minute, max_per_hour, max_per_day
  MaxConcurrent,     \* RelayConfig::max_concurrent, after .max(1)
  FailureThreshold,  \* HealthConfig, after .max(1)
  SuccessThreshold,
  Cooldown,          \* cooldown_seconds, in ticks
  AutoDisable, AutoRecover,
  MaxReloads         \* bound: configuration reloads

ASSUME RelayAssumption ==
  /\ IsFiniteSet(Deliveries)
  /\ Windows \subseteq Nat /\ Carried \subseteq Windows
  /\ Limit \in [Windows -> Nat]
  /\ MaxConcurrent \in Nat \ {0}
  /\ FailureThreshold \in Nat \ {0} /\ SuccessThreshold \in Nat \ {0}
  /\ Cooldown \in Nat \ {0}
  /\ AutoDisable \in BOOLEAN /\ AutoRecover \in BOOLEAN
  /\ MaxReloads \in Nat

VARIABLES
  \* AppState: the pool in force, and the one a reload has built.
  current, newest,
  fileEnabled,   \* `enabled` of this relay in AppState's configuration
  \* RelayRuntime, per generation.
  enabled,       \* config.enabled
  active, circuit, usage, inFlight,
  \* Delivery attempts.
  at, gen,       \* where each is, and the generation it works with
  charge,        \* per window: its quota reservation
  \* Operators: where each is in set_activation, the switch it sets, and where.
  opAt, opOn, opGen,
  \* Read by properties only.
  spent,         \* messages delivered, per window, on a reservation of that window
  late,          \* refunds of reservations made in an earlier window
  wish,          \* the switch as its last setter - operator or file - wants it
  edited         \* the reload under way changes `enabled`

poolVars == <<current, newest, fileEnabled, enabled>>
relayVars == <<active, circuit, usage, inFlight>>
taskVars == <<at, gen, charge>>
operatorVars == <<opAt, opOn, opGen>>
quotaVars == <<spent, late>>
wishVars == <<wish, edited>>
vars == <<poolVars, relayVars, taskVars, operatorVars, quotaVars, wishVars>>

-----------------------------------------------------------------------------
Generations == 0..MaxReloads

Circuit == [state : {"closed", "open", "half_open"}, wait : 0..Cooldown,
            failures : 0..FailureThreshold, successes : 0..SuccessThreshold,
            manual : BOOLEAN]
Usage == [Windows -> [fresh : BOOLEAN, count : Nat]]

\* A reservation: none; counted by the newest generation; made in this window
\* without the newest generation counting it; made in an earlier window.
Charge == {"none", "counted", "hidden", "past"}

NewCircuit == [state |-> "closed", wait |-> 0, failures |-> 0, successes |-> 0, manual |-> FALSE]
NewUsage == [w \in Windows |-> [fresh |-> FALSE, count |-> 0]]
NoCharge == [w \in Windows |-> "none"]

Less(n) == IF n = 0 THEN 0 ELSE n - 1               \* saturating_sub(1)
Up(n, cap) == IF n < cap THEN n + 1 ELSE cap        \* counting up to a threshold

-----------------------------------------------------------------------------
(* The circuit breaker.                                                    *)

\* circuit_state: an expired open circuit becomes half-open when looked at.
Observed(c) == IF c.state = "open" /\ c.wait = 0 THEN [c EXCEPT !.state = "half_open"] ELSE c

\* record_success
Succeeded(c) ==
  LET s == Up(c.successes, SuccessThreshold)
      closes == c.state # "closed" /\ s >= SuccessThreshold /\ AutoRecover /\ ~c.manual
  IN [c EXCEPT !.failures = 0, !.successes = s,
               !.state = IF closes THEN "closed" ELSE @,
               !.wait = IF closes THEN 0 ELSE @]

\* Faulty variant for TrippedComesBack: each failure renews the cooldown.
FailedRenewing(c) ==
  LET f == Up(c.failures, FailureThreshold)
      opens == (AutoDisable /\ f >= FailureThreshold) \/ c.state = "half_open"
  IN [c EXCEPT !.failures = f, !.successes = 0,
               !.state = IF opens THEN "open" ELSE @,
               !.wait = IF opens THEN Cooldown ELSE @]

\* record_failure
Failed(c) ==
  LET f == Up(c.failures, FailureThreshold)
      opens == \/ AutoDisable /\ c.state # "open" /\ f >= FailureThreshold
               \/ c.state = "half_open"
  IN [c EXCEPT !.failures = f, !.successes = 0,
               !.state = IF opens THEN "open" ELSE @,
               !.wait = IF opens THEN Cooldown ELSE @]

\* The locked half of activate and deactivate.
Switched(c, on) ==
  IF ~on THEN [c EXCEPT !.manual = TRUE]
  ELSE IF c.state = "closed" THEN [c EXCEPT !.manual = FALSE]
  ELSE [c EXCEPT !.manual = FALSE, !.state = "closed", !.wait = 0, !.failures = 0]

-----------------------------------------------------------------------------
(* Quotas, concurrency, eligibility.                                       *)

\* Usage::roll
Rolled(u) == [w \in Windows |-> IF u[w].fresh THEN u[w] ELSE [fresh |-> TRUE, count |-> 0]]
Exhausted(u) == \E w \in Windows : Rolled(u)[w].count >= Limit[w]

\* release_quota, saturating
Refunded(u) == [w \in Windows |-> [u[w] EXCEPT !.count = Less(@)]]

\* What a window's end makes of the counters.
Ended(u, over) == [w \in Windows |-> IF w \in over THEN [u[w] EXCEPT !.fresh = FALSE] ELSE u[w]]

HasCapacity(g) == inFlight[g] < MaxConcurrent

Eligible(g) ==
  active[g] /\ Observed(circuit[g]).state # "open" /\ HasCapacity(g) /\ ~Exhausted(usage[g])

\* What evaluating is_eligible writes, its conjuncts taken in order.
Inspect(g) ==
  /\ circuit' = IF active[g] THEN [circuit EXCEPT ![g] = Observed(@)] ELSE circuit
  /\ usage' = IF active[g] /\ Observed(circuit[g]).state # "open" /\ HasCapacity(g)
              THEN [usage EXCEPT ![g] = Rolled(@)] ELSE usage

-----------------------------------------------------------------------------
Init ==
  /\ current = 0 /\ newest = 0
  /\ fileEnabled \in BOOLEAN
  /\ enabled = [g \in Generations |-> fileEnabled]
  /\ active = enabled
  /\ circuit = [g \in Generations |-> NewCircuit]
  /\ usage = [g \in Generations |-> NewUsage]
  /\ inFlight = [g \in Generations |-> 0]
  /\ at = [d \in Deliveries |-> "idle"] /\ gen = [d \in Deliveries |-> 0]
  /\ charge = [d \in Deliveries |-> NoCharge]
  /\ opAt = [o \in Operators |-> "idle"]
  /\ opOn = [o \in Operators |-> FALSE] /\ opGen = [o \in Operators |-> 0]
  /\ spent = [w \in Windows |-> [counted |-> 0, hidden |-> 0]]
  /\ late = [w \in Windows |-> 0]
  /\ wish = fileEnabled /\ edited = FALSE

-----------------------------------------------------------------------------
(* A delivery attempt, as far as it concerns this relay.                   *)

\* attempt_delivery takes the pool in force and keeps it for all its rounds.
Begin(d) ==
  /\ at[d] = "idle"
  /\ at' = [at EXCEPT ![d] = "routing"]
  /\ gen' = [gen EXCEPT ![d] = current]
  /\ UNCHANGED <<poolVars, relayVars, charge, operatorVars, quotaVars, wishVars>>

\* The attempt is done with this relay and lets go of its generation.
Leave(d) == at' = [at EXCEPT ![d] = "idle"] /\ gen' = [gen EXCEPT ![d] = 0]

\* selector::select returns this relay.
Choose(d) ==
  /\ at[d] = "routing" /\ Eligible(gen[d])
  /\ Inspect(gen[d])
  /\ at' = [at EXCEPT ![d] = "chosen"]
  /\ UNCHANGED <<poolVars, active, inFlight, gen, charge, operatorVars, quotaVars, wishVars>>

\* ... or another one, or none.
PassBy(d) ==
  /\ at[d] = "routing"
  /\ Inspect(gen[d])
  /\ Leave(d)
  /\ UNCHANGED <<poolVars, active, inFlight, charge, operatorVars, quotaVars, wishVars>>

\* Faulty variant for QuotaHeld: one reservation more than the limit.
ReserveOneMore(d) ==
  LET g == gen[d]  u == Rolled(usage[g]) IN
  /\ at[d] = "chosen" /\ \A w \in Windows : u[w].count <= Limit[w]
  /\ usage' = [usage EXCEPT ![g] = [w \in Windows |-> [u[w] EXCEPT !.count = @ + 1]]]
  /\ inFlight' = [inFlight EXCEPT ![g] = @ + 1]
  /\ charge' = [charge EXCEPT ![d] =
                  [w \in Windows |-> IF g = newest THEN "counted" ELSE "hidden"]]
  /\ at' = [at EXCEPT ![d] = "sending"]
  /\ UNCHANGED <<poolVars, active, circuit, gen, operatorVars, quotaVars, wishVars>>

\* try_reserve_quota succeeds, then begin_delivery.
Reserve(d) ==
  LET g == gen[d]  u == Rolled(usage[g]) IN
  /\ at[d] = "chosen" /\ ~Exhausted(usage[g])
  /\ usage' = [usage EXCEPT ![g] = [w \in Windows |-> [u[w] EXCEPT !.count = @ + 1]]]
  /\ inFlight' = [inFlight EXCEPT ![g] = @ + 1]
  /\ charge' = [charge EXCEPT ![d] =
                  [w \in Windows |-> IF g = newest THEN "counted" ELSE "hidden"]]
  /\ at' = [at EXCEPT ![d] = "sending"]
  /\ UNCHANGED <<poolVars, active, circuit, gen, operatorVars, quotaVars, wishVars>>

\* The quota was used up after the relay was chosen: on to another relay.
ReserveRefused(d) ==
  /\ at[d] = "chosen" /\ Exhausted(usage[gen[d]])
  /\ usage' = [usage EXCEPT ![gen[d]] = Rolled(@)]
  /\ Leave(d)
  /\ UNCHANGED <<poolVars, active, circuit, inFlight, charge, operatorVars, quotaVars, wishVars>>

\* DeliveryGuard::drop
GuardDropped(d) == inFlight' = [inFlight EXCEPT ![gen[d]] = Less(@)]

\* record_delivery; the reservation has become a message sent.
Delivered(d) ==
  /\ at[d] = "sending"
  /\ circuit' = [circuit EXCEPT ![gen[d]] = Succeeded(@)]
  /\ GuardDropped(d)
  /\ Leave(d)
  /\ charge' = [charge EXCEPT ![d] = NoCharge]
  /\ spent' = [w \in Windows |->
       CASE charge[d][w] = "counted" -> [spent[w] EXCEPT !.counted = @ + 1]
         [] charge[d][w] = "hidden" -> [spent[w] EXCEPT !.hidden = @ + 1]
         [] OTHER -> spent[w]]
  /\ UNCHANGED <<poolVars, active, usage, operatorVars, late, wishVars>>

\* The attempt, or the rewriting before it, failed: release_quota, which does
\* not look at the window its count belongs to.
Refund(d) ==
  /\ at[d] = "sending"
  /\ usage' = [usage EXCEPT ![gen[d]] = Refunded(@)]
  /\ late' = [w \in Windows |-> IF charge[d][w] = "past" THEN late[w] + 1 ELSE late[w]]
  /\ charge' = [charge EXCEPT ![d] = NoCharge]
  /\ at' = [at EXCEPT ![d] = "refunded"]
  /\ UNCHANGED <<poolVars, active, circuit, inFlight, gen, operatorVars, spent, wishVars>>

\* A relay fault or a 4xx: record_deferral.
Deferred(d) ==
  /\ at[d] = "refunded"
  /\ circuit' = [circuit EXCEPT ![gen[d]] = Failed(@)]
  /\ GuardDropped(d)
  /\ Leave(d)
  /\ UNCHANGED <<poolVars, active, usage, charge, operatorVars, quotaVars, wishVars>>

\* Faulty variant for InFlightExact: an early return forgets the guard.
RejectedLeaking(d) ==
  /\ at[d] = "refunded"
  /\ Leave(d)
  /\ UNCHANGED <<poolVars, relayVars, charge, operatorVars, quotaVars, wishVars>>

\* A 5xx or a message that cannot be rewritten: the breaker is left alone.
Rejected(d) ==
  /\ at[d] = "refunded"
  /\ GuardDropped(d)
  /\ Leave(d)
  /\ UNCHANGED <<poolVars, active, circuit, usage, charge, operatorVars, quotaVars, wishVars>>

-----------------------------------------------------------------------------
(* A test message of the dashboard: send_test.                             *)

\* It takes a slot and reserves nothing, whatever the relay's state.
BeginTest(d) ==
  /\ at[d] = "idle"
  /\ inFlight' = [inFlight EXCEPT ![current] = @ + 1]
  /\ at' = [at EXCEPT ![d] = "testing"] /\ gen' = [gen EXCEPT ![d] = current]
  /\ UNCHANGED <<poolVars, active, circuit, usage, charge, operatorVars, quotaVars, wishVars>>

\* record_delivery, record_deferral or record_permanent_failure.
EndTest(d) ==
  LET c == circuit[gen[d]] IN
  /\ at[d] = "testing"
  /\ \E after \in {Succeeded(c), Failed(c), c} : circuit' = [circuit EXCEPT ![gen[d]] = after]
  /\ GuardDropped(d)
  /\ Leave(d)
  /\ UNCHANGED <<poolVars, active, usage, charge, operatorVars, quotaVars, wishVars>>

-----------------------------------------------------------------------------
(* Time, probes and the dashboard.                                         *)

\* One unit of every cooldown passes.
Tick ==
  /\ \E g \in Generations : circuit[g].wait > 0
  /\ circuit' = [g \in Generations |-> [circuit[g] EXCEPT !.wait = Less(@)]]
  /\ UNCHANGED <<poolVars, active, usage, inFlight, taskVars, operatorVars, quotaVars, wishVars>>

\* A new window n begins; the shorter windows end with it.
NextWindow(n) ==
  LET over == {w \in Windows : w <= n} IN
  /\ usage' = [g \in Generations |-> Ended(usage[g], over)]
  /\ charge' = [d \in Deliveries |-> [w \in Windows |->
                 IF w \in over /\ charge[d][w] # "none" THEN "past" ELSE charge[d][w]]]
  /\ spent' = [w \in Windows |-> IF w \in over THEN [counted |-> 0, hidden |-> 0] ELSE spent[w]]
  /\ late' = [w \in Windows |-> IF w \in over THEN 0 ELSE late[w]]
  /\ UNCHANGED <<poolVars, active, circuit, inFlight, at, gen, operatorVars, wishVars>>

\* A probe looks before it connects, and again after it has reported.
Look(g) ==
  /\ g <= current
  /\ Inspect(g)
  /\ UNCHANGED <<poolVars, active, inFlight, taskVars, operatorVars, quotaVars, wishVars>>

\* A probe started on generation g ends.
ProbeEnds(g, ok) ==
  /\ g <= current
  /\ circuit' = [circuit EXCEPT ![g] = IF ok THEN Succeeded(@) ELSE Failed(@)]
  /\ UNCHANGED <<poolVars, active, usage, inFlight, taskVars, operatorVars, quotaVars, wishVars>>

\* RelayRuntime::snapshot, for the dashboard.
Snapshot ==
  /\ circuit' = [circuit EXCEPT ![current] = Observed(@)]
  /\ usage' = [usage EXCEPT ![current] = Rolled(@)]
  /\ UNCHANGED <<poolVars, active, inFlight, taskVars, operatorVars, quotaVars, wishVars>>

-----------------------------------------------------------------------------
(* Operators: set_activation and reset_circuit.                            *)

\* The handler answers.
Answer(o) ==
  /\ opAt' = [opAt EXCEPT ![o] = "idle"]
  /\ opOn' = [opOn EXCEPT ![o] = FALSE] /\ opGen' = [opGen EXCEPT ![o] = 0]

\* set_active swaps the flag ...
Toggle(o, on) ==
  /\ opAt[o] = "idle"
  /\ active' = [active EXCEPT ![current] = on]
  /\ opAt' = [opAt EXCEPT ![o] = IF active[current] = on THEN "unchanged" ELSE "changed"]
  /\ opOn' = [opOn EXCEPT ![o] = on] /\ opGen' = [opGen EXCEPT ![o] = current]
  /\ wish' = on
  /\ UNCHANGED <<poolVars, circuit, usage, inFlight, taskVars, quotaVars, edited>>

\* ... and then takes the breaker's lock.
SwitchCircuit(o) ==
  /\ opAt[o] \in {"changed", "unchanged"}
  /\ circuit' = [circuit EXCEPT ![opGen[o]] = Switched(@, opOn[o])]
  /\ \/ /\ opAt[o] = "changed"
        /\ opAt' = [opAt EXCEPT ![o] = "persisting"] /\ UNCHANGED <<opOn, opGen>>
     \/ opAt[o] = "unchanged" /\ Answer(o)
  /\ UNCHANGED <<poolVars, active, usage, inFlight, taskVars, quotaVars, wishVars>>

\* persist_activation, unless the request or the configuration forbids it.
Persist(o) ==
  /\ opAt[o] = "persisting"
  /\ fileEnabled' \in {fileEnabled, opOn[o]}
  /\ Answer(o)
  /\ UNCHANGED <<current, newest, enabled, relayVars, taskVars, quotaVars, wishVars>>

\* Faulty variant for ClosedBelowThreshold: the breaker is closed, its count kept.
ResetCircuitKeepingCount(o) ==
  /\ opAt[o] = "idle"
  /\ circuit' = [circuit EXCEPT ![current] = [@ EXCEPT !.state = "closed", !.wait = 0]]
  /\ UNCHANGED <<poolVars, active, usage, inFlight, taskVars, operatorVars, quotaVars, wishVars>>

ResetCircuit(o) ==
  /\ opAt[o] = "idle"
  /\ circuit' = [circuit EXCEPT ![current] =
                   [@ EXCEPT !.state = "closed", !.wait = 0, !.failures = 0]]
  /\ UNCHANGED <<poolVars, active, usage, inFlight, taskVars, operatorVars, quotaVars, wishVars>>

-----------------------------------------------------------------------------
(* Configuration reloads: apply_config.                                    *)

\* What carry_over_from keeps of the quota counters.
CarriedOver(u) == [w \in Windows |-> IF w \in Carried THEN u[w] ELSE NewUsage[w]]

\* Pool::rebuild_from builds the next generation and copies into it; the new
\* configuration has the relay enabled or not.
Rebuild(on) ==
  LET g == newest + 1
      forgotten(w) == w \notin Carried IN
  /\ newest = current /\ newest < MaxReloads
  /\ newest' = g
  /\ enabled' = [enabled EXCEPT ![g] = on]
  /\ active' = [active EXCEPT ![g] = IF enabled[current] = on THEN active[current] ELSE on]
  /\ circuit' = [circuit EXCEPT ![g] = circuit[current]]
  /\ usage' = [usage EXCEPT ![g] = CarriedOver(usage[current])]
  /\ inFlight' = [inFlight EXCEPT ![g] = 0]
  /\ charge' = [d \in Deliveries |-> [w \in Windows |->
                 IF forgotten(w) /\ charge[d][w] = "counted" THEN "hidden" ELSE charge[d][w]]]
  /\ spent' = [w \in Windows |->
                 IF forgotten(w) THEN [counted |-> 0, hidden |-> spent[w].counted + spent[w].hidden]
                 ELSE spent[w]]
  /\ edited' = (on # fileEnabled)
  /\ UNCHANGED <<current, fileEnabled, at, gen, operatorVars, late, wish>>

\* store_config, store_pool
Install ==
  /\ newest # current
  /\ current' = newest
  /\ fileEnabled' = enabled[newest]
  /\ wish' = IF edited THEN enabled[newest] ELSE wish
  /\ edited' = FALSE
  /\ UNCHANGED <<newest, enabled, relayVars, taskVars, operatorVars, quotaVars>>

-----------------------------------------------------------------------------
DeliveryStep(d) ==
  \/ Begin(d)
  \/ Choose(d)
  \/ PassBy(d)
  \/ Reserve(d)
  \/ ReserveRefused(d)
  \/ Delivered(d)
  \/ Refund(d)
  \/ Deferred(d)
  \/ Rejected(d)
  \/ BeginTest(d)
  \/ EndTest(d)

OperatorStep(o) ==
  \/ \E on \in BOOLEAN : Toggle(o, on)
  \/ SwitchCircuit(o)
  \/ Persist(o)
  \/ ResetCircuit(o)

Next ==
  \/ \E d \in Deliveries : DeliveryStep(d)
  \/ \E g \in Generations : Look(g)
  \/ \E g \in Generations, ok \in BOOLEAN : ProbeEnds(g, ok)
  \/ Snapshot
  \/ Tick
  \/ \E n \in Windows : NextWindow(n)
  \/ \E o \in Operators : OperatorStep(o)
  \/ \E on \in BOOLEAN : Rebuild(on)
  \/ Install

Spec == Init /\ [][Next]_vars

\* Time passes, and the health loop probes every relay of the pool in force at
\* each interval, looking at its breaker whatever the probes say.
Fairness == WF_vars(Tick) /\ \A g \in Generations : WF_vars(g = current /\ Look(g))

FairSpec == Spec /\ Fairness

-----------------------------------------------------------------------------
(* Properties.                                                             *)

TypeOK ==
  /\ current \in Generations /\ newest \in Generations /\ newest - current \in {0, 1}
  /\ fileEnabled \in BOOLEAN /\ enabled \in [Generations -> BOOLEAN]
  /\ active \in [Generations -> BOOLEAN] /\ circuit \in [Generations -> Circuit]
  /\ usage \in [Generations -> Usage] /\ inFlight \in [Generations -> Nat]
  /\ at \in [Deliveries -> {"idle", "routing", "chosen", "sending", "refunded", "testing"}]
  /\ gen \in [Deliveries -> Generations]
  /\ charge \in [Deliveries -> [Windows -> Charge]]
  /\ opAt \in [Operators -> {"idle", "changed", "unchanged", "persisting"}]
  /\ opOn \in [Operators -> BOOLEAN] /\ opGen \in [Operators -> Generations]
  /\ spent \in [Windows -> [counted : Nat, hidden : Nat]] /\ late \in [Windows -> Nat]
  /\ wish \in BOOLEAN /\ edited \in BOOLEAN

\* A breaker that lets everything through has fewer consecutive failures than
\* trip it, whatever mix of deliveries, probes, switches and reloads led there;
\* so the threshold is never passed unnoticed.
ClosedBelowThreshold ==
  AutoDisable =>
    \A g \in Generations : circuit[g].state = "closed" => circuit[g].failures < FailureThreshold

Slots(g) == {d \in Deliveries : gen[d] = g /\ at[d] \in {"sending", "refunded", "testing"}}

\* "An in-flight count can never leak on an early return" (pool.rs:409): each
\* generation counts exactly the attempts and tests that hold one of its slots.
InFlightExact == \A g \in Generations : inFlight[g] = Cardinality(Slots(g))

Charged(w, kind) == Cardinality({d \in Deliveries : charge[d][w] = kind})

\* Sent and being sent on reservations of the current window.
Outstanding(w) == spent[w].counted + spent[w].hidden + Charged(w, "counted") + Charged(w, "hidden")

\* The send limit holds for the messages that are routed, up to two effects of
\* the code: a refund that comes a window late frees a slot of the wrong window,
\* and a reload does not see the minute's usage nor what superseded generations
\* still reserve.  A test message is sent without a reservation, and no limit
\* counts it (send_test, routes.rs:803).
QuotaHeld ==
  \A w \in Windows : spent[w].counted + Charged(w, "counted") <= Limit[w] + late[w]

\* A tripped relay that stays switched on is given traffic again: no sequence
\* of failures, probes or reloads keeps it out for ever.
TrippedComesBack ==
  \A g \in Generations :
    circuit[g].state = "open" ~> circuit[g].state # "open" \/ ~active[g] \/ g # current

-----------------------------------------------------------------------------
(* What the properties above rest on: the parts of the inductive           *)
(* invariants of RelayRuntimeProofs and RelayQuotaProofs.                  *)

\* An attempt is charged for exactly while it is being sent, it works with an
\* installed generation, and only a superseded one charges unseen.
TasksAgree ==
  \A d \in Deliveries :
    /\ gen[d] <= current
    /\ \A w \in Windows : charge[d][w] # "none" <=> at[d] = "sending"
    /\ \A w \in Windows : charge[d][w] = "hidden" => gen[d] # newest

Counter(w) == IF usage[newest][w].fresh THEN usage[newest][w].count ELSE 0

\* The newest generation's counter has seen every charge that is held against
\* it, but for late refunds.
QuotaCounted ==
  \A w \in Windows :
    /\ Counter(w) <= Limit[w]
    /\ spent[w].counted + Charged(w, "counted") <= Counter(w) + late[w]

-----------------------------------------------------------------------------
\* "Reserving up-front ... is what keeps a hard provider limit from being
\* exceeded by concurrent deliveries" (pool.rs:330): no window sends more than
\* its limit.
QuotaNeverExceeded == \A w \in Windows : Outstanding(w) <= Limit[w]

\* "If the operator changed `enabled` in the file, that wins; otherwise the live
\* toggle is preserved" (pool.rs:760): once everything has come to rest, the
\* relay is switched as it was last asked to be.
ToggleHeld ==
  newest = current /\ (\A o \in Operators : opAt[o] = "idle") => active[current] = wish

=============================================================================
