------------------------- MODULE RelayRuntimeProofs -------------------------
(***************************************************************************)
(* Proofs about one relay: its types, its breaker and its slots hold for   *)
(* any number of deliveries, operators, windows and reloads.               *)
(***************************************************************************)
EXTENDS RelayRuntime, FiniteSetTheorems, TLAPS

-----------------------------------------------------------------------------
(* Lemmas about the helpers.                                               *)

\* The breaker's operations yield breakers.
LEMMA CircuitType ==
  ASSUME NEW c \in Circuit
  PROVE  /\ Observed(c) \in Circuit /\ Succeeded(c) \in Circuit /\ Failed(c) \in Circuit
         /\ Switched(c, TRUE) \in Circuit /\ Switched(c, FALSE) \in Circuit
         /\ [c EXCEPT !.wait = Less(@)] \in Circuit
         /\ [c EXCEPT !.state = "closed", !.wait = 0, !.failures = 0] \in Circuit
<1> USE RelayAssumption
<1>1. /\ c.state \in {"closed", "open", "half_open"} /\ c.wait \in 0..Cooldown
      /\ c.failures \in 0..FailureThreshold /\ c.successes \in 0..SuccessThreshold
  BY DEF Circuit
<1>2. /\ Up(c.failures, FailureThreshold) \in 0..FailureThreshold
      /\ Up(c.successes, SuccessThreshold) \in 0..SuccessThreshold
      /\ 0 \in 0..FailureThreshold /\ 0 \in 0..SuccessThreshold
      /\ 0 \in 0..Cooldown /\ Cooldown \in 0..Cooldown
  BY <1>1 DEF Up
<1>3. Observed(c) \in Circuit
  BY DEF Observed, Circuit
<1>4. Succeeded(c) \in Circuit
  BY <1>1, <1>2, Zenon DEF Succeeded, Circuit
<1>5. Failed(c) \in Circuit
  BY <1>1, <1>2, Zenon DEF Failed, Circuit
<1>6. Switched(c, TRUE) \in Circuit /\ Switched(c, FALSE) \in Circuit
  BY <1>1, <1>2, Zenon DEF Switched, Circuit
<1>7. [c EXCEPT !.wait = Less(@)] \in Circuit
  BY DEF Less, Circuit
<1>8. [c EXCEPT !.state = "closed", !.wait = 0, !.failures = 0] \in Circuit
  BY <1>1, <1>2, Zenon DEF Circuit
<1>9. QED
  BY <1>3, <1>4, <1>5, <1>6, <1>7, <1>8

\* A breaker is below its threshold if it is closed.
Sound(c) == AutoDisable => (c.state = "closed" => c.failures < FailureThreshold)

\* No operation on the breaker closes it, or keeps it closed, at the threshold.
LEMMA CircuitSound ==
  ASSUME NEW c \in Circuit, Sound(c)
  PROVE  /\ Sound(Observed(c)) /\ Sound(Succeeded(c)) /\ Sound(Failed(c))
         /\ Sound(Switched(c, TRUE)) /\ Sound(Switched(c, FALSE))
         /\ Sound([c EXCEPT !.wait = Less(@)])
         /\ Sound([c EXCEPT !.state = "closed", !.wait = 0, !.failures = 0])
<1> USE RelayAssumption
<1>1. Sound(Observed(c))
  BY DEF Observed, Circuit, Sound
<1>2. Sound(Succeeded(c))
  BY DEF Succeeded, Circuit, Sound
<1>3. Sound(Failed(c))
  BY DEF Failed, Up, Circuit, Sound
<1>4. Sound(Switched(c, TRUE)) /\ Sound(Switched(c, FALSE))
  BY DEF Switched, Circuit, Sound
<1>5. Sound([c EXCEPT !.wait = Less(@)])
  BY DEF Circuit, Sound
<1>6. Sound([c EXCEPT !.state = "closed", !.wait = 0, !.failures = 0])
  BY DEF Circuit, Sound
<1>7. QED
  BY <1>1, <1>2, <1>3, <1>4, <1>5, <1>6

\* Rolling, refunding and ending windows yields counters.
LEMMA UsageType ==
  ASSUME NEW u \in Usage, NEW over
  PROVE  Rolled(u) \in Usage /\ Refunded(u) \in Usage /\ Ended(u, over) \in Usage
<1>1. Rolled(u) \in Usage
  BY DEF Rolled, Usage
<1>2. \A w \in Windows : u[w] \in [fresh : BOOLEAN, count : Nat] /\ Less(u[w].count) \in Nat
  BY DEF Usage, Less
<1>3. \A w \in Windows : [u[w] EXCEPT !.count = Less(@)] \in [fresh : BOOLEAN, count : Nat]
  BY <1>2
<1>4. Refunded(u) \in Usage
  BY <1>3 DEF Refunded, Usage
<1>5. \A w \in Windows : [u[w] EXCEPT !.fresh = FALSE] \in [fresh : BOOLEAN, count : Nat]
  BY <1>2
<1>6. Ended(u, over) \in Usage
  BY <1>2, <1>5 DEF Ended, Usage
<1>7. QED
  BY <1>1, <1>4, <1>6

\* What the invariant of the breaker and of the types says of one step of the
\* breakers: every generation's is replaced by a sound one.
Breakers(cs) == cs \in [Generations -> Circuit] /\ \A g \in Generations : Sound(cs[g])

\* Looking at a generation keeps its breaker and its counters well formed.
LEMMA InspectKeeps ==
  ASSUME NEW g \in Generations, Inspect(g), Breakers(circuit), usage \in [Generations -> Usage]
  PROVE  Breakers(circuit') /\ usage' \in [Generations -> Usage]
<1>1. circuit[g] \in Circuit /\ Sound(circuit[g])
  BY DEF Breakers
<1>2. Observed(circuit[g]) \in Circuit /\ Sound(Observed(circuit[g]))
  BY <1>1, CircuitType, CircuitSound
<1>3. Breakers(circuit')
  BY <1>2 DEF Inspect, Breakers
<1>4. Rolled(usage[g]) \in Usage
  BY UsageType
<1>5. QED
  BY <1>3, <1>4 DEF Inspect

-----------------------------------------------------------------------------
(* Types and the breaker.                                                  *)

BreakerInv == TypeOK /\ Breakers(circuit)

\* A delivery's step keeps the types and the breakers' soundness.
LEMMA DeliveryKeepsBreakers ==
  ASSUME BreakerInv, NEW d \in Deliveries, DeliveryStep(d)
  PROVE  BreakerInv'
<1> USE DEF BreakerInv
<1>0. /\ gen[d] \in Generations /\ 0 \in Generations
      /\ circuit[gen[d]] \in Circuit /\ Sound(circuit[gen[d]])
      /\ usage[gen[d]] \in Usage /\ inFlight[gen[d]] \in Nat
  BY RelayAssumption DEF TypeOK, Breakers, Generations
<1>00. Less(inFlight[gen[d]]) \in Nat
  BY <1>0 DEF Less
<1>1. CASE Begin(d)
  BY <1>1 DEF Begin, TypeOK, Breakers, poolVars, relayVars, taskVars, operatorVars, quotaVars, wishVars
<1>2. CASE Choose(d) \/ PassBy(d)
  <2>1. Breakers(circuit') /\ usage' \in [Generations -> Usage]
    BY <1>0, <1>2, InspectKeeps DEF Choose, PassBy, TypeOK
  <2>2. QED
    BY <1>0, <1>2, <2>1 DEF Choose, PassBy, Leave, TypeOK, Breakers, poolVars, relayVars, taskVars, operatorVars, quotaVars, wishVars
<1>3. CASE Reserve(d)
  <2>1. Rolled(usage[gen[d]]) \in Usage
    BY <1>0, UsageType
  <2>2. [w \in Windows |-> [Rolled(usage[gen[d]])[w] EXCEPT !.count = @ + 1]] \in Usage
    BY <2>1 DEF Usage
  <2>3. usage' \in [Generations -> Usage] /\ inFlight' \in [Generations -> Nat]
    BY <1>0, <1>3, <2>2 DEF Reserve, TypeOK
  <2>4. charge' \in [Deliveries -> [Windows -> Charge]]
    BY <1>3 DEF Reserve, TypeOK, Charge
  <2>5. QED
    BY <1>3, <2>3, <2>4 DEF Reserve, TypeOK, Breakers, poolVars, relayVars, taskVars, operatorVars, quotaVars, wishVars
<1>4. CASE ReserveRefused(d)
  <2>1. Rolled(usage[gen[d]]) \in Usage
    BY <1>0, UsageType
  <2>2. usage' \in [Generations -> Usage]
    BY <1>0, <1>4, <2>1 DEF ReserveRefused, TypeOK
  <2>3. QED
    BY <1>0, <1>4, <2>2 DEF ReserveRefused, Leave, TypeOK, Breakers, poolVars, relayVars, taskVars, operatorVars, quotaVars, wishVars
<1>5. CASE Delivered(d)
  <2>1. Breakers(circuit')
    BY <1>0, <1>5, CircuitType, CircuitSound DEF Delivered, TypeOK, Breakers
  <2>2. spent' \in [Windows -> [counted : Nat, hidden : Nat]]
    BY <1>5 DEF Delivered, TypeOK
  <2>3. charge' \in [Deliveries -> [Windows -> Charge]]
    BY <1>5 DEF Delivered, NoCharge, Charge, TypeOK
  <2>4. inFlight' \in [Generations -> Nat]
    BY <1>00, <1>5 DEF Delivered, GuardDropped, TypeOK
  <2>5. QED
    BY <1>0, <1>5, <2>1, <2>2, <2>3, <2>4 DEF Delivered, Leave, TypeOK, Breakers, poolVars, relayVars, taskVars, operatorVars, quotaVars, wishVars
<1>6. CASE Refund(d)
  <2>1. Refunded(usage[gen[d]]) \in Usage
    BY <1>0, UsageType
  <2>2. usage' \in [Generations -> Usage]
    BY <1>0, <1>6, <2>1 DEF Refund, TypeOK
  <2>3. late' \in [Windows -> Nat] /\ charge' \in [Deliveries -> [Windows -> Charge]]
    BY <1>6 DEF Refund, NoCharge, Charge, TypeOK
  <2>4. QED
    BY <1>6, <2>2, <2>3 DEF Refund, TypeOK, Breakers, poolVars, relayVars, taskVars, operatorVars, quotaVars, wishVars
<1>7. CASE Deferred(d)
  <2>1. Breakers(circuit')
    BY <1>0, <1>7, CircuitType, CircuitSound DEF Deferred, TypeOK, Breakers
  <2>2. inFlight' \in [Generations -> Nat]
    BY <1>00, <1>7 DEF Deferred, GuardDropped, TypeOK
  <2>3. QED
    BY <1>0, <1>7, <2>1, <2>2 DEF Deferred, Leave, TypeOK, Breakers, poolVars, relayVars, taskVars, operatorVars, quotaVars, wishVars
<1>8. CASE Rejected(d)
  <2>1. inFlight' \in [Generations -> Nat]
    BY <1>00, <1>8 DEF Rejected, GuardDropped, TypeOK
  <2>2. QED
    BY <1>0, <1>8, <2>1 DEF Rejected, Leave, TypeOK, Breakers, poolVars, relayVars, taskVars, operatorVars, quotaVars, wishVars
<1>9. CASE BeginTest(d)
  <2>1. current \in Generations /\ inFlight' \in [Generations -> Nat]
    BY <1>9 DEF BeginTest, TypeOK
  <2>2. QED
    BY <1>9, <2>1 DEF BeginTest, TypeOK, Breakers, poolVars, relayVars, taskVars, operatorVars, quotaVars, wishVars
<1>10. CASE EndTest(d)
  <2> PICK after \in {Succeeded(circuit[gen[d]]), Failed(circuit[gen[d]]), circuit[gen[d]]} :
         circuit' = [circuit EXCEPT ![gen[d]] = after]
    BY <1>10 DEF EndTest
  <2>0. after \in Circuit /\ Sound(after)
    BY <1>0, CircuitType, CircuitSound
  <2>1. Breakers(circuit')
    BY <1>0, <2>0 DEF TypeOK, Breakers
  <2>2. inFlight' \in [Generations -> Nat]
    BY <1>00, <1>10 DEF EndTest, GuardDropped, TypeOK
  <2>3. QED
    BY <1>0, <1>10, <2>1, <2>2 DEF EndTest, Leave, TypeOK, Breakers, poolVars, relayVars, taskVars, operatorVars, quotaVars, wishVars
<1>11. QED
  BY <1>1, <1>2, <1>3, <1>4, <1>5, <1>6, <1>7, <1>8, <1>9, <1>10 DEF DeliveryStep

\* So does an operator's step ...
LEMMA OperatorKeepsBreakers ==
  ASSUME BreakerInv, NEW o \in Operators, OperatorStep(o)
  PROVE  BreakerInv'
<1> USE DEF BreakerInv
<1>0. /\ opGen[o] \in Generations /\ opOn[o] \in BOOLEAN
      /\ current \in Generations /\ 0 \in Generations
  BY RelayAssumption DEF TypeOK, Generations
<1>1. CASE \E on \in BOOLEAN : Toggle(o, on)
  BY <1>0, <1>1 DEF Toggle, TypeOK, Breakers, poolVars, relayVars, taskVars, operatorVars, quotaVars, wishVars
<1>2. CASE SwitchCircuit(o)
  <2>1. Switched(circuit[opGen[o]], opOn[o]) \in Circuit /\ Sound(Switched(circuit[opGen[o]], opOn[o]))
    <3>1. circuit[opGen[o]] \in Circuit /\ Sound(circuit[opGen[o]])
      BY <1>0 DEF Breakers
    <3>2. QED
      BY <1>0, <3>1, CircuitType, CircuitSound
  <2>2. Breakers(circuit')
    BY <1>0, <1>2, <2>1 DEF SwitchCircuit, Breakers
  <2>3. /\ opAt' \in [Operators -> {"idle", "changed", "unchanged", "persisting"}]
        /\ opOn' \in [Operators -> BOOLEAN] /\ opGen' \in [Operators -> Generations]
    BY <1>0, <1>2 DEF SwitchCircuit, Answer, TypeOK
  <2>4. QED
    BY <1>2, <2>2, <2>3 DEF SwitchCircuit, TypeOK, Breakers, poolVars, relayVars, taskVars, operatorVars, quotaVars, wishVars
<1>3. CASE Persist(o)
  BY <1>0, <1>3 DEF Persist, Answer, TypeOK, Breakers, poolVars, relayVars, taskVars, operatorVars, quotaVars, wishVars
<1>4. CASE ResetCircuit(o)
  <2>1. circuit[current] \in Circuit /\ Sound(circuit[current])
    BY <1>0 DEF Breakers
  <2>2. Breakers(circuit')
    BY <1>0, <1>4, <2>1, CircuitType, CircuitSound DEF ResetCircuit, Breakers
  <2>3. QED
    BY <1>4, <2>2 DEF ResetCircuit, TypeOK, Breakers, poolVars, relayVars, taskVars, operatorVars, quotaVars, wishVars
<1>5. QED
  BY <1>1, <1>2, <1>3, <1>4 DEF OperatorStep

\* ... and every other step: probes, the dashboard, time and reloads.
LEMMA BreakersKept ==
  ASSUME BreakerInv, [Next]_vars
  PROVE  BreakerInv'
<1> USE DEF BreakerInv
<1>0. current \in Generations /\ newest \in Generations
  BY DEF TypeOK
<1>1. ASSUME NEW g \in Generations, Look(g) PROVE BreakerInv'
  <2>1. Breakers(circuit') /\ usage' \in [Generations -> Usage]
    BY <1>1, InspectKeeps DEF Look, TypeOK
  <2>2. QED
    BY <1>1, <2>1 DEF Look, TypeOK, Breakers, poolVars, relayVars, taskVars, operatorVars, quotaVars, wishVars
<1>2. ASSUME NEW g \in Generations, NEW ok \in BOOLEAN, ProbeEnds(g, ok) PROVE BreakerInv'
  <2>1. circuit[g] \in Circuit /\ Sound(circuit[g])
    BY DEF Breakers
  <2>2. Breakers(circuit')
    BY <1>2, <2>1, CircuitType, CircuitSound DEF ProbeEnds, Breakers
  <2>3. QED
    BY <1>2, <2>2 DEF ProbeEnds, TypeOK, Breakers, poolVars, relayVars, taskVars, operatorVars, quotaVars, wishVars
<1>3. CASE Snapshot
  <2>1. circuit[current] \in Circuit /\ Sound(circuit[current])
    BY <1>0 DEF Breakers
  <2>2. Breakers(circuit')
    BY <1>0, <1>3, <2>1, CircuitType, CircuitSound DEF Snapshot, Breakers
  <2>3. Rolled(usage[current]) \in Usage
    BY <1>0, UsageType DEF TypeOK
  <2>4. usage' \in [Generations -> Usage]
    BY <1>3, <2>3 DEF Snapshot, TypeOK
  <2>5. QED
    BY <1>3, <2>2, <2>4 DEF Snapshot, TypeOK, Breakers, poolVars, relayVars, taskVars, operatorVars, quotaVars, wishVars
<1>4. CASE Tick
  <2>1. Breakers(circuit')
    BY <1>4, CircuitType, CircuitSound DEF Tick, Breakers
  <2>2. QED
    BY <1>4, <2>1 DEF Tick, TypeOK, Breakers, poolVars, relayVars, taskVars, operatorVars, quotaVars, wishVars
<1>5. ASSUME NEW n \in Windows, NextWindow(n) PROVE BreakerInv'
  <2>1. usage' \in [Generations -> Usage]
    BY <1>5, UsageType DEF NextWindow, TypeOK
  <2>2. charge' \in [Deliveries -> [Windows -> Charge]]
    BY <1>5 DEF NextWindow, Charge, TypeOK
  <2>3. spent' \in [Windows -> [counted : Nat, hidden : Nat]] /\ late' \in [Windows -> Nat]
    BY <1>5 DEF NextWindow, TypeOK
  <2>4. QED
    BY <1>5, <2>1, <2>2, <2>3 DEF NextWindow, TypeOK, Breakers, poolVars, relayVars, taskVars, operatorVars, quotaVars, wishVars
<1>6. ASSUME NEW on \in BOOLEAN, Rebuild(on) PROVE BreakerInv'
  <2>1. newest + 1 \in Generations /\ newest' = newest + 1
    BY <1>0, <1>6, RelayAssumption DEF Rebuild, Generations
  <2>2. Breakers(circuit')
    BY <1>0, <1>6, <2>1 DEF Rebuild, Breakers
  <2>3. usage' \in [Generations -> Usage]
    <3>1. CarriedOver(usage[current]) \in Usage
      BY <1>0 DEF CarriedOver, NewUsage, Usage, TypeOK
    <3>2. QED
      BY <1>6, <2>1, <3>1 DEF Rebuild, TypeOK
  <2>4. charge' \in [Deliveries -> [Windows -> Charge]]
    BY <1>6 DEF Rebuild, Charge, TypeOK
  <2>5. spent' \in [Windows -> [counted : Nat, hidden : Nat]]
    BY <1>6 DEF Rebuild, TypeOK
  <2>6. active' \in [Generations -> BOOLEAN] /\ enabled' \in [Generations -> BOOLEAN]
    BY <1>0, <1>6, <2>1 DEF Rebuild, TypeOK
  <2>7. newest' - current' \in {0, 1} /\ current' = current /\ edited' \in BOOLEAN
    BY <1>0, <1>6 DEF Rebuild, Generations
  <2>8. inFlight' \in [Generations -> Nat]
    BY <1>6 DEF Rebuild, TypeOK
  <2>9. QED
    BY <1>6, <2>1, <2>2, <2>3, <2>4, <2>5, <2>6, <2>7, <2>8 DEF Rebuild, TypeOK, poolVars, relayVars, taskVars, operatorVars, quotaVars, wishVars
<1>7. CASE Install
  <2>1. enabled[newest] \in BOOLEAN
    BY <1>0 DEF TypeOK
  <2>2. newest - newest = 0
    BY <1>0, RelayAssumption DEF Generations
  <2>3. QED
    BY <1>0, <1>7, <2>1, <2>2 DEF Install, TypeOK, Breakers, poolVars, relayVars, taskVars, operatorVars, quotaVars, wishVars
<1>8. CASE UNCHANGED vars
  BY <1>8 DEF vars, TypeOK, Breakers, poolVars, relayVars, taskVars, operatorVars, quotaVars, wishVars
<1>9. QED
  BY <1>1, <1>2, <1>3, <1>4, <1>5, <1>6, <1>7, <1>8, DeliveryKeepsBreakers, OperatorKeepsBreakers
  DEF Next

\* The initial state is well typed, its breakers closed without a failure.
LEMMA BreakersAtFirst == Init => BreakerInv
<1> SUFFICES ASSUME Init PROVE BreakerInv
  OBVIOUS
<1>1. NewCircuit \in Circuit /\ Sound(NewCircuit)
  BY RelayAssumption DEF NewCircuit, Circuit, Sound
<1>2. NewUsage \in Usage /\ NoCharge \in [Windows -> Charge] /\ 0 \in Generations
  BY RelayAssumption DEF NewUsage, Usage, NoCharge, Charge, Generations
<1>3. Breakers(circuit)
  BY <1>1 DEF Init, Breakers
<1>4. current \in Generations /\ newest \in Generations /\ newest - current \in {0, 1}
  BY <1>2 DEF Init
<1>5. /\ fileEnabled \in BOOLEAN /\ enabled \in [Generations -> BOOLEAN]
      /\ active \in [Generations -> BOOLEAN] /\ wish \in BOOLEAN /\ edited \in BOOLEAN
  BY Zenon DEF Init
<1>6. /\ usage \in [Generations -> Usage] /\ inFlight \in [Generations -> Nat]
      /\ charge \in [Deliveries -> [Windows -> Charge]]
      /\ spent \in [Windows -> [counted : Nat, hidden : Nat]] /\ late \in [Windows -> Nat]
  BY <1>2 DEF Init
<1>7. /\ at \in [Deliveries -> {"idle", "routing", "chosen", "sending", "refunded", "testing"}]
      /\ gen \in [Deliveries -> Generations]
      /\ opAt \in [Operators -> {"idle", "changed", "unchanged", "persisting"}]
      /\ opOn \in [Operators -> BOOLEAN] /\ opGen \in [Operators -> Generations]
  BY <1>2 DEF Init
<1>8. QED
  BY <1>3, <1>4, <1>6, <1>7, <1>5 DEF BreakerInv, Breakers, TypeOK

\* Every state of a relay is well typed.
THEOREM RelayTypes == Spec => []TypeOK
<1>1. Spec => []BreakerInv
  BY BreakersAtFirst, BreakersKept, PTL DEF Spec
<1>2. BreakerInv => TypeOK
  BY DEF BreakerInv
<1>3. QED
  BY <1>1, <1>2, PTL

\* A breaker that is closed is below its threshold, for any thresholds and any
\* interleaving of deliveries, probes, switches, resets and reloads.
THEOREM BreakerNeverPassedOver == Spec => []ClosedBelowThreshold
<1>1. Spec => []BreakerInv
  BY BreakersAtFirst, BreakersKept, PTL DEF Spec
<1>2. BreakerInv => ClosedBelowThreshold
  BY DEF BreakerInv, Breakers, Sound, ClosedBelowThreshold
<1>3. QED
  BY <1>1, <1>2, PTL

-----------------------------------------------------------------------------
(***************************************************************************)
(* A relay's slots and quotas: the in-flight count of every generation is  *)
(* exact, and the limits are held up to late refunds.                      *)
(***************************************************************************)


-----------------------------------------------------------------------------
(* Counting sets of deliveries.                                            *)

\* Every set of deliveries is finite, and counts to a natural number.
LEMMA Counts ==
  ASSUME NEW S, S \subseteq Deliveries
  PROVE  IsFiniteSet(S) /\ Cardinality(S) \in Nat
BY RelayAssumption, FS_Subset, FS_CardinalityType

\* One delivery more or less in a set.
LEMMA OneMore ==
  ASSUME NEW S, S \subseteq Deliveries, NEW d \in Deliveries
  PROVE  /\ d \notin S => Cardinality(S \cup {d}) = Cardinality(S) + 1
         /\ d \in S => Cardinality(S \ {d}) = Cardinality(S) - 1 /\ Cardinality(S) > 0
<1>1. IsFiniteSet(S) /\ Cardinality(S) \in Nat
  BY Counts
<1>2. CASE d \notin S
  BY <1>1, <1>2, FS_AddElement
<1>3. CASE d \in S
  <2>1. Cardinality(S \ {d}) = Cardinality(S) - 1
    BY <1>1, <1>3, FS_RemoveElement
  <2>2. Cardinality(S \ {d}) \in Nat
    BY Counts
  <2>3. QED
    BY <1>1, <1>3, <2>1, <2>2
<1>4. QED
  BY <1>2, <1>3

\* How the number of counted charges changes with one delivery's charges.
LEMMA ChargesMove ==
  ASSUME TypeOK, NEW d \in Deliveries, NEW w \in Windows,
         NEW v \in [Windows -> Charge], charge' = [charge EXCEPT ![d] = v]
  PROVE  /\ charge[d][w] = "counted" /\ v[w] # "counted"
              => Charged(w, "counted")' = Charged(w, "counted") - 1
         /\ charge[d][w] # "counted" /\ v[w] = "counted"
              => Charged(w, "counted")' = Charged(w, "counted") + 1
         /\ charge[d][w] # "counted" /\ v[w] # "counted"
              => Charged(w, "counted")' = Charged(w, "counted")
<1> DEFINE S == {e \in Deliveries : charge[e][w] = "counted"}
           T == {e \in Deliveries : charge'[e][w] = "counted"}
<1>1. charge \in [Deliveries -> [Windows -> Charge]]
  BY DEF TypeOK
<1>2. S \subseteq Deliveries /\ (d \in S <=> charge[d][w] = "counted")
  OBVIOUS
<1>3. charge[d][w] = "counted" /\ v[w] # "counted" => T = S \ {d}
  BY <1>1
<1>4. charge[d][w] # "counted" /\ v[w] = "counted" => T = S \cup {d}
  BY <1>1
<1>5. charge[d][w] # "counted" /\ v[w] # "counted" => T = S
  BY <1>1
<1>6. Charged(w, "counted") = Cardinality(S) /\ Charged(w, "counted")' = Cardinality(T)
  BY DEF Charged
<1> HIDE DEF S, T
<1>7. /\ d \notin S => Cardinality(S \cup {d}) = Cardinality(S) + 1
      /\ d \in S => Cardinality(S \ {d}) = Cardinality(S) - 1
  BY <1>2, OneMore
<1>8. QED
  BY <1>2, <1>3, <1>4, <1>5, <1>6, <1>7

-----------------------------------------------------------------------------
(* Tasks, generations and charges.                                         *)

\* Attempts stay with installed generations and are charged while they send.
LEMMA TasksKept ==
  ASSUME BreakerInv, TasksAgree, [Next]_vars
  PROVE  TasksAgree'
<1>0. /\ current \in Nat /\ newest \in Nat /\ current <= newest
      /\ \A d \in Deliveries : gen[d] \in Nat
      /\ at \in [Deliveries -> {"idle", "routing", "chosen", "sending", "refunded", "testing"}]
      /\ gen \in [Deliveries -> Generations]
      /\ charge \in [Deliveries -> [Windows -> Charge]]
  BY RelayAssumption DEF BreakerInv, TypeOK, Generations
<1>1. ASSUME NEW d \in Deliveries, DeliveryStep(d) PROVE TasksAgree'
  <2>1. UNCHANGED <<current, newest>>
    BY <1>1 DEF DeliveryStep, Begin, Choose, PassBy, Reserve, ReserveRefused, Delivered, Refund,
                Deferred, Rejected, BeginTest, EndTest, poolVars
  <2>2. CASE Begin(d)
    BY <1>0, <2>1, <2>2 DEF Begin, TasksAgree, poolVars, relayVars, taskVars, operatorVars, quotaVars, wishVars
  <2>3. CASE Choose(d)
    BY <1>0, <2>1, <2>3 DEF Choose, TasksAgree, poolVars, relayVars, taskVars, operatorVars, quotaVars, wishVars
  <2>4. CASE PassBy(d) \/ ReserveRefused(d) \/ Deferred(d) \/ Rejected(d) \/ EndTest(d)
    <3>1. at[d] # "sending" /\ Leave(d) /\ UNCHANGED charge
      BY <2>4 DEF PassBy, ReserveRefused, Deferred, Rejected, EndTest
    <3>2. QED
      BY <1>0, <2>1, <3>1 DEF Leave, TasksAgree
  <2>5. CASE Reserve(d)
    BY <1>0, <2>1, <2>5 DEF Reserve, TasksAgree, poolVars, relayVars, taskVars, operatorVars, quotaVars, wishVars
  <2>6. CASE Delivered(d)
    BY <1>0, <2>1, <2>6 DEF Delivered, Leave, NoCharge, TasksAgree
  <2>7. CASE Refund(d)
    BY <1>0, <2>1, <2>7 DEF Refund, NoCharge, TasksAgree
  <2>8. CASE BeginTest(d)
    BY <1>0, <2>1, <2>8 DEF BeginTest, TasksAgree
  <2>9. QED
    BY <1>1, <2>2, <2>3, <2>4, <2>5, <2>6, <2>7, <2>8 DEF DeliveryStep
<1>2. ASSUME NEW n \in Windows, NextWindow(n) PROVE TasksAgree'
  <2>1. UNCHANGED <<current, newest, at, gen>>
    BY <1>2 DEF NextWindow, poolVars
  <2>2. \A d \in Deliveries, w \in Windows : charge'[d][w] \in {charge[d][w], "past"}
                                             /\ (charge'[d][w] = "none" <=> charge[d][w] = "none")
    BY <1>0, <1>2 DEF NextWindow
  <2>3. QED
    BY <2>1, <2>2 DEF TasksAgree
<1>3. ASSUME NEW on \in BOOLEAN, Rebuild(on) PROVE TasksAgree'
  <2>1. UNCHANGED <<current, at, gen>> /\ newest' = newest + 1 /\ newest = current
    BY <1>3 DEF Rebuild
  <2>2. \A d \in Deliveries, w \in Windows : charge'[d][w] = "none" <=> charge[d][w] = "none"
    BY <1>0, <1>3 DEF Rebuild
  <2>3. \A d \in Deliveries : gen[d] # newest'
    BY <1>0, <2>1 DEF TasksAgree
  <2>4. QED
    BY <2>1, <2>2, <2>3 DEF TasksAgree
<1>4. CASE Install
  <2>1. UNCHANGED <<newest, at, gen, charge>> /\ current' = newest
    BY <1>4 DEF Install, taskVars
  <2>2. QED
    BY <1>0, <2>1 DEF TasksAgree
<1>5. ASSUME UNCHANGED <<current, newest, taskVars>> PROVE TasksAgree'
  BY <1>5 DEF TasksAgree, taskVars
<1>6. QED
  BY <1>1, <1>2, <1>3, <1>4, <1>5
  DEF Next, Look, ProbeEnds, Snapshot, Tick, OperatorStep, Toggle, SwitchCircuit, Persist,
      ResetCircuit, poolVars, vars

-----------------------------------------------------------------------------
(* Slots.                                                                  *)

\* A step that takes d out of its slot and drops its guard keeps the counts exact.
LEMMA SlotFreed ==
  ASSUME BreakerInv, InFlightExact, NEW d \in Deliveries,
         at[d] \in {"sending", "refunded", "testing"}, Leave(d), GuardDropped(d)
  PROVE  InFlightExact'
<1>0. /\ gen[d] \in Generations /\ inFlight \in [Generations -> Nat]
      /\ at \in [Deliveries -> {"idle", "routing", "chosen", "sending", "refunded", "testing"}]
      /\ gen \in [Deliveries -> Generations]
  BY DEF BreakerInv, TypeOK
<1> PICK here \in Generations : here = gen[d]
  BY <1>0
<1>1. Slots(here)' = Slots(here) \ {d} /\ d \in Slots(here)
  BY <1>0 DEF Slots, Leave
<1>2. \A g \in Generations \ {here} : Slots(g)' = Slots(g)
  BY <1>0 DEF Slots, Leave
<1>3. \A g : Slots(g) \subseteq Deliveries
  BY DEF Slots
<1>4. /\ Cardinality(Slots(here)') = Cardinality(Slots(here)) - 1
      /\ Cardinality(Slots(here)) > 0 /\ Cardinality(Slots(here)) \in Nat
  BY <1>1, <1>3, OneMore, Counts
<1>5. inFlight'[here] = Cardinality(Slots(here)')
  BY <1>0, <1>4 DEF GuardDropped, Less, InFlightExact
<1>6. \A g \in Generations \ {here} : inFlight'[g] = inFlight[g]
  BY <1>0 DEF GuardDropped
<1>7. \A g \in Generations \ {here} : inFlight'[g] = Cardinality(Slots(g)')
  BY <1>2, <1>6 DEF InFlightExact
<1>8. QED
  BY <1>5, <1>7 DEF InFlightExact

\* The in-flight counts stay exact in every step.
LEMMA SlotsKept ==
  ASSUME BreakerInv, TasksAgree, InFlightExact, [Next]_vars
  PROVE  InFlightExact'
<1>0. /\ current \in Nat /\ newest \in Nat /\ newest \in Generations
      /\ inFlight \in [Generations -> Nat]
      /\ at \in [Deliveries -> {"idle", "routing", "chosen", "sending", "refunded", "testing"}]
      /\ gen \in [Deliveries -> Generations]
  BY RelayAssumption DEF BreakerInv, TypeOK, Generations
<1>1. ASSUME NEW d \in Deliveries, DeliveryStep(d) PROVE InFlightExact'
  <2>1. CASE Begin(d) \/ Choose(d) \/ PassBy(d) \/ ReserveRefused(d)
    <3>1. /\ at[d] \notin {"sending", "refunded", "testing"} /\ at'[d] \notin {"sending", "refunded", "testing"}
          /\ \A e \in Deliveries \ {d} : at'[e] = at[e] /\ gen'[e] = gen[e]
          /\ UNCHANGED inFlight
      BY <1>0, <2>1 DEF Begin, Choose, PassBy, ReserveRefused, Leave, relayVars
    <3>2. \A g : Slots(g)' = Slots(g)
      BY <3>1 DEF Slots
    <3>3. QED
      BY <3>1, <3>2 DEF InFlightExact
  <2>2. CASE Reserve(d)
    <3> PICK here \in Generations : here = gen[d]
      BY <1>0
    <3>1. Slots(here)' = Slots(here) \cup {d} /\ d \notin Slots(here)
      BY <1>0, <2>2 DEF Slots, Reserve
    <3>2. \A g \in Generations \ {here} : Slots(g)' = Slots(g)
      BY <1>0, <2>2 DEF Slots, Reserve
    <3>3. Slots(here) \subseteq Deliveries
      BY DEF Slots
    <3>4. Cardinality(Slots(here)') = Cardinality(Slots(here)) + 1
      BY <3>1, <3>3, OneMore
    <3>5. inFlight' = [inFlight EXCEPT ![here] = @ + 1]
      BY <2>2 DEF Reserve
    <3>6. inFlight'[here] = Cardinality(Slots(here)')
      BY <1>0, <3>4, <3>5 DEF InFlightExact
    <3>7. \A g \in Generations \ {here} : inFlight'[g] = Cardinality(Slots(g)')
      BY <1>0, <3>2, <3>5 DEF InFlightExact
    <3>8. QED
      BY <3>6, <3>7 DEF InFlightExact
  <2>3. CASE Refund(d)
    <3>1. (\A g : Slots(g)' = Slots(g)) /\ UNCHANGED inFlight
      BY <1>0, <2>3 DEF Slots, Refund
    <3>2. QED
      BY <3>1 DEF InFlightExact
  <2>4. CASE Delivered(d) \/ Deferred(d) \/ Rejected(d) \/ EndTest(d)
    <3>1. at[d] \in {"sending", "refunded", "testing"} /\ Leave(d) /\ GuardDropped(d)
      BY <2>4 DEF Delivered, Deferred, Rejected, EndTest
    <3>2. QED
      BY <3>1, SlotFreed
  <2>5. CASE BeginTest(d)
    <3> PICK here \in Generations : here = current
      BY DEF BreakerInv, TypeOK
    <3>1. Slots(here)' = Slots(here) \cup {d} /\ d \notin Slots(here)
      BY <1>0, <2>5 DEF Slots, BeginTest
    <3>2. \A g \in Generations \ {here} : Slots(g)' = Slots(g)
      BY <1>0, <2>5 DEF Slots, BeginTest
    <3>3. Slots(here) \subseteq Deliveries
      BY DEF Slots
    <3>4. Cardinality(Slots(here)') = Cardinality(Slots(here)) + 1
      BY <3>1, <3>3, OneMore
    <3>5. inFlight' = [inFlight EXCEPT ![here] = @ + 1]
      BY <2>5 DEF BeginTest
    <3>6. inFlight'[here] = Cardinality(Slots(here)')
      BY <1>0, <3>4, <3>5 DEF InFlightExact
    <3>7. \A g \in Generations \ {here} : inFlight'[g] = Cardinality(Slots(g)')
      BY <1>0, <3>2, <3>5 DEF InFlightExact
    <3>8. QED
      BY <3>6, <3>7 DEF InFlightExact
  <2>6. QED
    BY <1>1, <2>1, <2>2, <2>3, <2>4, <2>5 DEF DeliveryStep
<1>2. ASSUME NEW on \in BOOLEAN, Rebuild(on) PROVE InFlightExact'
  <2>1. (\A g : Slots(g)' = Slots(g)) /\ inFlight' = [inFlight EXCEPT ![newest + 1] = 0]
    BY <1>2 DEF Rebuild, Slots
  <2>2. Slots(newest + 1) = {}
    <3>1. \A d \in Deliveries : gen[d] \in Nat /\ gen[d] <= newest
      BY <1>0, <1>2, RelayAssumption DEF Rebuild, TasksAgree, Generations
    <3>2. QED
      BY <1>0, <3>1 DEF Slots
  <2>3. Cardinality(Slots(newest + 1)) = 0
    BY <2>2, FS_EmptySet
  <2>4. QED
    BY <1>0, <2>1, <2>3 DEF InFlightExact
<1>3. ASSUME UNCHANGED <<inFlight, at, gen>> PROVE InFlightExact'
  BY <1>3 DEF InFlightExact, Slots
<1>4. QED
  BY <1>1, <1>2, <1>3
  DEF Next, Look, ProbeEnds, Snapshot, Tick, NextWindow, Install, OperatorStep, Toggle,
      SwitchCircuit, Persist, ResetCircuit, relayVars, taskVars, vars

-----------------------------------------------------------------------------
(* Quotas.                                                                 *)

Within(w) ==
  /\ Counter(w) <= Limit[w]
  /\ spent[w].counted + Charged(w, "counted") <= Counter(w) + late[w]

\* The types the arithmetic on one window needs.
LEMMA QuotaTypes ==
  ASSUME TypeOK, NEW w \in Windows
  PROVE  /\ Counter(w) \in Nat /\ Limit[w] \in Nat /\ late[w] \in Nat
         /\ spent[w].counted \in Nat /\ spent[w].hidden \in Nat
         /\ Charged(w, "counted") \in Nat
<1>1. usage[newest][w] \in [fresh : BOOLEAN, count : Nat]
  BY DEF TypeOK, Usage
<1>2. {d \in Deliveries : charge[d][w] = "counted"} \subseteq Deliveries
  OBVIOUS
<1>3. Charged(w, "counted") \in Nat
  BY <1>2, Counts DEF Charged
<1>4. spent[w] \in [counted : Nat, hidden : Nat] /\ late[w] \in Nat
  BY DEF TypeOK
<1>5. QED
  BY <1>1, <1>3, <1>4, RelayAssumption DEF Counter

\* Rolling any generation's windows leaves the newest one's counter alone.
LEMMA RollKeepsCounter ==
  ASSUME TypeOK, NEW g \in Generations, NEW w \in Windows,
         usage' = usage \/ usage' = [usage EXCEPT ![g] = Rolled(@)],
         newest' = newest
  PROVE  Counter(w)' = Counter(w)
<1>1. usage \in [Generations -> Usage] /\ newest \in Generations
  BY DEF TypeOK
<1>2. CASE usage' = usage
  BY <1>2 DEF Counter
<1>3. CASE usage' = [usage EXCEPT ![g] = Rolled(@)]
  <2>1. usage'[newest] = usage[newest] \/ usage'[newest] = Rolled(usage[newest])
    BY <1>1, <1>3
  <2>2. QED
    BY <1>1, <2>1 DEF Counter, Rolled
<1>4. QED
  BY <1>2, <1>3

\* A step that leaves charges and accounts alone and at most rolls a window.
LEMMA RollKeepsQuota ==
  ASSUME TypeOK, NEW g \in Generations, NEW w \in Windows, Within(w),
         usage' = usage \/ usage' = [usage EXCEPT ![g] = Rolled(@)],
         UNCHANGED <<newest, charge, spent, late>>
  PROVE  Within(w)'
<1>1. Counter(w)' = Counter(w)
  BY RollKeepsCounter
<1>2. Charged(w, "counted")' = Charged(w, "counted")
  BY DEF Charged
<1>3. QED
  BY <1>1, <1>2 DEF Within

\* A reservation on the newest generation is counted, and only below the limit;
\* one on an older generation is not among the counted.
LEMMA ReserveKeepsQuota ==
  ASSUME TypeOK, TasksAgree, NEW w \in Windows, Within(w), NEW d \in Deliveries, Reserve(d)
  PROVE  Within(w)'
<1> PICK here \in Generations : here = gen[d]
  BY DEF TypeOK
<1>1. /\ usage \in [Generations -> Usage] /\ newest \in Generations /\ newest' = newest
      /\ charge \in [Deliveries -> [Windows -> Charge]]
      /\ UNCHANGED <<spent, late>>
  BY DEF TypeOK, Reserve, poolVars, quotaVars
<1> DEFINE kind == IF here = newest THEN "counted" ELSE "hidden"
           v == [x \in Windows |-> kind]
<1>2. charge' = [charge EXCEPT ![d] = v] /\ v \in [Windows -> Charge] /\ v[w] = kind
  BY <1>1 DEF Reserve, Charge
<1>3. charge[d][w] # "counted"
  BY DEF Reserve, TasksAgree
<1>5. usage' = [usage EXCEPT ![here] = [x \in Windows |-> [Rolled(usage[here])[x] EXCEPT !.count = @ + 1]]]
  BY DEF Reserve
<1>6. usage[here] \in Usage
  BY <1>1
<1>7. CASE here = newest
  <2>1. Counter(w) < Limit[w]
    <3>1. ~(Rolled(usage[newest])[w].count >= Limit[w])
      BY <1>7 DEF Reserve, Exhausted
    <3>2. Rolled(usage[newest])[w].count = Counter(w)
      BY <1>6, <1>7 DEF Rolled, Counter
    <3>3. QED
      BY <3>1, <3>2, QuotaTypes
  <2>2. Counter(w)' = Counter(w) + 1
    <3>1. usage'[newest][w] = [Rolled(usage[newest])[w] EXCEPT !.count = @ + 1]
      BY <1>1, <1>5, <1>7
    <3>2. Rolled(usage[newest])[w] = [fresh |-> TRUE, count |-> Counter(w)]
      BY <1>6, <1>7 DEF Rolled, Counter, Usage
    <3>3. QED
      BY <1>1, <3>1, <3>2 DEF Counter
  <2>3. Charged(w, "counted")' = Charged(w, "counted") + 1
    BY <1>2, <1>3, <1>7, ChargesMove
  <2>4. QED
    BY <1>1, <2>1, <2>2, <2>3, QuotaTypes DEF Within
<1>8. CASE here # newest
  <2>1. Counter(w)' = Counter(w)
    BY <1>1, <1>5, <1>8 DEF Counter
  <2>2. Charged(w, "counted")' = Charged(w, "counted")
    BY <1>2, <1>3, <1>8, ChargesMove
  <2>3. QED
    BY <1>1, <2>1, <2>2 DEF Within
<1>9. QED
  BY <1>7, <1>8

\* A delivered message moves from the charges to the account of its window.
LEMMA DeliveredKeepsQuota ==
  ASSUME TypeOK, NEW w \in Windows, Within(w), NEW d \in Deliveries, Delivered(d)
  PROVE  Within(w)'
<1>1. /\ charge \in [Deliveries -> [Windows -> Charge]] /\ NoCharge \in [Windows -> Charge]
      /\ NoCharge[w] # "counted" /\ charge' = [charge EXCEPT ![d] = NoCharge]
      /\ UNCHANGED <<newest, usage, late>>
  BY DEF TypeOK, Delivered, NoCharge, Charge, poolVars
<1>2. Counter(w)' = Counter(w)
  BY <1>1 DEF Counter
<1>4. spent[w] \in [counted : Nat, hidden : Nat]
  BY DEF TypeOK
<1>5. CASE charge[d][w] = "counted"
  <2>1. spent'[w].counted = spent[w].counted + 1
    BY <1>4, <1>5 DEF Delivered
  <2>2. Charged(w, "counted")' = Charged(w, "counted") - 1
    BY <1>1, <1>5, ChargesMove
  <2>3. QED
    BY <1>1, <1>2, <2>1, <2>2, QuotaTypes DEF Within
<1>6. CASE charge[d][w] # "counted"
  <2>1. spent'[w].counted = spent[w].counted
    BY <1>4, <1>6 DEF Delivered
  <2>2. Charged(w, "counted")' = Charged(w, "counted")
    BY <1>1, <1>6, ChargesMove
  <2>3. QED
    BY <1>1, <1>2, <2>1, <2>2, QuotaTypes DEF Within
<1>7. QED
  BY <1>5, <1>6

\* A refund takes one off the counter and off what is held against it: the
\* charge it gives back, or a late refund more.
LEMMA RefundKeepsQuota ==
  ASSUME TypeOK, TasksAgree, NEW w \in Windows, Within(w), NEW d \in Deliveries, Refund(d)
  PROVE  Within(w)'
<1> PICK here \in Generations : here = gen[d]
  BY DEF TypeOK
<1>1. /\ charge \in [Deliveries -> [Windows -> Charge]] /\ NoCharge \in [Windows -> Charge]
      /\ NoCharge[w] # "counted" /\ charge' = [charge EXCEPT ![d] = NoCharge]
      /\ UNCHANGED <<newest, spent>> /\ newest \in Generations
      /\ usage \in [Generations -> Usage]
  BY DEF TypeOK, Refund, NoCharge, Charge, poolVars
<1>3. /\ charge[d][w] = "counted" => Charged(w, "counted")' = Charged(w, "counted") - 1
      /\ charge[d][w] # "counted" => Charged(w, "counted")' = Charged(w, "counted")
  BY <1>1, ChargesMove
<1>4. charge[d][w] \in {"counted", "hidden", "past"} /\ (charge[d][w] = "hidden" => here # newest)
  BY <1>1 DEF Refund, TasksAgree, Charge
<1>5. late'[w] = IF charge[d][w] = "past" THEN late[w] + 1 ELSE late[w]
  BY DEF Refund
<1>6. usage' = [usage EXCEPT ![here] = Refunded(@)]
  BY DEF Refund
<1>7. CASE here = newest
  <2>1. usage[newest][w] \in [fresh : BOOLEAN, count : Nat]
    BY <1>1 DEF Usage
  <2>2. usage'[newest][w] = [usage[newest][w] EXCEPT !.count = Less(@)]
    BY <1>1, <1>6, <1>7 DEF Refunded
  <2>3. Counter(w)' = Less(Counter(w))
    BY <1>1, <2>1, <2>2 DEF Counter, Less
  <2>4. QED
    BY <1>1, <1>3, <1>4, <1>5, <1>7, <2>3, QuotaTypes DEF Within, Less
<1>8. CASE here # newest
  <2>1. Counter(w)' = Counter(w)
    BY <1>1, <1>6, <1>8 DEF Counter
  <2>2. QED
    BY <1>1, <1>3, <1>4, <1>5, <2>1, QuotaTypes DEF Within
<1>9. QED
  BY <1>7, <1>8

\* A window whose charges and account are dropped is within any limit.
LEMMA EmptyWindow ==
  ASSUME TypeOK, NEW w \in Windows, Counter(w)' = 0, spent'[w].counted = 0, late'[w] \in Nat,
         \A d \in Deliveries : charge'[d][w] # "counted"
  PROVE  Within(w)'
<1>1. {d \in Deliveries : charge'[d][w] = "counted"} = {}
  OBVIOUS
<1>2. Charged(w, "counted")' = 0
  BY <1>1, FS_EmptySet DEF Charged
<1>3. QED
  BY <1>2, RelayAssumption DEF Within

\* A new window clears the windows that end and leaves the longer ones alone.
LEMMA WindowKeepsQuota ==
  ASSUME TypeOK, NEW w \in Windows, Within(w), NEW n \in Windows, NextWindow(n)
  PROVE  Within(w)'
<1>1. /\ usage \in [Generations -> Usage] /\ newest \in Generations /\ newest' = newest
      /\ charge \in [Deliveries -> [Windows -> Charge]]
  BY DEF TypeOK, NextWindow, poolVars
<1>2. CASE w <= n
  <2>1. usage'[newest][w] = [usage[newest][w] EXCEPT !.fresh = FALSE]
    BY <1>1, <1>2 DEF NextWindow, Ended
  <2>2. Counter(w)' = 0
    BY <1>1, <2>1 DEF Counter, Usage
  <2>3. spent'[w].counted = 0 /\ late'[w] = 0
    BY <1>2 DEF NextWindow
  <2>4. \A d \in Deliveries : charge'[d][w] # "counted"
    BY <1>1, <1>2 DEF NextWindow
  <2>5. QED
    BY <2>2, <2>3, <2>4, EmptyWindow
<1>3. CASE ~(w <= n)
  <2>1. usage'[newest][w] = usage[newest][w]
    BY <1>1, <1>3 DEF NextWindow, Ended
  <2>2. spent'[w] = spent[w] /\ late'[w] = late[w]
    BY <1>3 DEF NextWindow
  <2>3. \A d \in Deliveries : charge'[d][w] = charge[d][w]
    BY <1>1, <1>3 DEF NextWindow
  <2>4. Charged(w, "counted")' = Charged(w, "counted")
    BY <2>3 DEF Charged
  <2>5. QED
    BY <1>1, <2>1, <2>2, <2>4 DEF Within, Counter
<1>4. QED
  BY <1>2, <1>3

\* A reload carries a window's usage with all that is held against it, or
\* forgets both.
LEMMA RebuildKeepsQuota ==
  ASSUME TypeOK, NEW w \in Windows, Within(w), NEW on \in BOOLEAN, Rebuild(on)
  PROVE  Within(w)'
<1>1. /\ usage \in [Generations -> Usage] /\ newest \in Generations
      /\ newest = current /\ newest' = newest + 1 /\ newest + 1 \in Generations
      /\ charge \in [Deliveries -> [Windows -> Charge]]
      /\ late' = late /\ late[w] \in Nat
  BY RelayAssumption DEF TypeOK, Rebuild, Generations
<1>2. usage'[newest + 1][w] = IF w \in Carried THEN usage[newest][w] ELSE NewUsage[w]
  BY <1>1 DEF Rebuild, CarriedOver
<1>3. CASE w \notin Carried
  <2>1. Counter(w)' = 0
    BY <1>1, <1>2, <1>3 DEF Counter, NewUsage
  <2>2. spent'[w].counted = 0
    BY <1>3 DEF Rebuild
  <2>3. \A d \in Deliveries : charge'[d][w] # "counted"
    BY <1>1, <1>3 DEF Rebuild
  <2>4. QED
    BY <1>1, <2>1, <2>2, <2>3, EmptyWindow
<1>4. CASE w \in Carried
  <2>1. Counter(w)' = Counter(w)
    BY <1>1, <1>2, <1>4 DEF Counter
  <2>2. spent'[w] = spent[w]
    BY <1>4 DEF Rebuild
  <2>3. \A d \in Deliveries : charge'[d][w] = charge[d][w]
    BY <1>1, <1>4 DEF Rebuild
  <2>4. Charged(w, "counted")' = Charged(w, "counted")
    BY <2>3 DEF Charged
  <2>5. QED
    BY <1>1, <2>1, <2>2, <2>4 DEF Within
<1>5. QED
  BY <1>3, <1>4

\* Every step keeps every window within its limit.
LEMMA QuotaKept ==
  ASSUME TypeOK, TasksAgree, QuotaCounted, [Next]_vars
  PROVE  QuotaCounted'
<1> SUFFICES ASSUME NEW w \in Windows PROVE Within(w)'
  BY DEF QuotaCounted, Within
<1>0. Within(w)
  BY DEF QuotaCounted, Within
<1>1. ASSUME NEW d \in Deliveries, DeliveryStep(d) PROVE Within(w)'
  <2>1. CASE Begin(d) \/ Choose(d) \/ PassBy(d) \/ ReserveRefused(d) \/ Deferred(d) \/ Rejected(d)
            \/ BeginTest(d) \/ EndTest(d)
    <3>1. PICK g \in Generations : g = gen[d]
      BY DEF TypeOK
    <3>2. /\ usage' = usage \/ usage' = [usage EXCEPT ![g] = Rolled(@)]
          /\ UNCHANGED <<newest, charge, spent, late>>
      BY <2>1, <3>1 DEF Begin, Choose, PassBy, Inspect, ReserveRefused, Deferred, Rejected,
                        BeginTest, EndTest, poolVars, relayVars, quotaVars
    <3>3. QED
      BY <1>0, <3>2, RollKeepsQuota
  <2>2. QED
    BY <1>0, <1>1, <2>1, ReserveKeepsQuota, DeliveredKeepsQuota, RefundKeepsQuota DEF DeliveryStep
<1>2. ASSUME NEW g \in Generations, Look(g) PROVE Within(w)'
  <2>1. /\ usage' = usage \/ usage' = [usage EXCEPT ![g] = Rolled(@)]
        /\ UNCHANGED <<newest, charge, spent, late>>
    BY <1>2 DEF Look, Inspect, poolVars, taskVars, quotaVars
  <2>2. QED
    BY <1>0, <2>1, RollKeepsQuota
<1>3. CASE Snapshot
  <2>1. PICK g \in Generations : g = current
    BY DEF TypeOK
  <2>2. /\ usage' = [usage EXCEPT ![g] = Rolled(@)]
        /\ UNCHANGED <<newest, charge, spent, late>>
    BY <1>3, <2>1 DEF Snapshot, poolVars, taskVars, quotaVars
  <2>3. QED
    BY <1>0, <2>2, RollKeepsQuota
<1>4. ASSUME UNCHANGED <<newest, usage, charge, spent, late>> PROVE Within(w)'
  <2>1. Charged(w, "counted")' = Charged(w, "counted")
    BY <1>4 DEF Charged
  <2>2. QED
    BY <1>0, <1>4, <2>1 DEF Within, Counter
<1>5. QED
  BY <1>0, <1>1, <1>2, <1>3, <1>4, WindowKeepsQuota, RebuildKeepsQuota
  DEF Next, ProbeEnds, Tick, Install, OperatorStep, Toggle, SwitchCircuit, Persist, ResetCircuit,
      poolVars, relayVars, taskVars, quotaVars, vars

-----------------------------------------------------------------------------
(* The theorems.                                                           *)

RelayInv == BreakerInv /\ TasksAgree /\ InFlightExact /\ QuotaCounted

\* At first nothing is in flight and nothing is charged.
LEMMA RelayAtFirst == Init => RelayInv
<1> SUFFICES ASSUME Init PROVE RelayInv
  OBVIOUS
<1>1. BreakerInv
  BY BreakersAtFirst
<1>2. TasksAgree
  BY RelayAssumption DEF Init, TasksAgree, NoCharge
<1>3. InFlightExact
  <2>1. \A g \in Generations : Slots(g) = {} /\ inFlight[g] = 0
    BY DEF Init, Slots
  <2>2. QED
    BY <2>1, FS_EmptySet DEF InFlightExact
<1>4. QuotaCounted
  <2>1. ASSUME NEW w \in Windows
        PROVE  Counter(w) = 0 /\ Charged(w, "counted") = 0 /\ spent[w].counted = 0 /\ late[w] = 0
    <3>1. {d \in Deliveries : charge[d][w] = "counted"} = {}
      BY DEF Init, NoCharge
    <3>2. usage[newest][w] = [fresh |-> FALSE, count |-> 0]
      BY RelayAssumption DEF Init, NewUsage, Generations
    <3>3. spent[w] = [counted |-> 0, hidden |-> 0] /\ late[w] = 0
      BY DEF Init
    <3>4. Charged(w, "counted") = 0
      BY <3>1, FS_EmptySet DEF Charged
    <3>5. QED
      BY <3>2, <3>3, <3>4 DEF Counter
  <2>2. \A w \in Windows : Limit[w] \in Nat
    BY RelayAssumption
  <2>3. QED
    BY <2>1, <2>2 DEF QuotaCounted
<1>5. QED
  BY <1>1, <1>2, <1>3, <1>4 DEF RelayInv

\* The parts of RelayInv hold together in every state.
LEMMA RelayInvariant == Spec => []RelayInv
<1>1. RelayInv /\ [Next]_vars => RelayInv'
  <2>1. SUFFICES ASSUME RelayInv, [Next]_vars PROVE RelayInv'
    OBVIOUS
  <2>2. TypeOK
    BY <2>1 DEF RelayInv, BreakerInv
  <2>3. QED
    BY <2>1, <2>2, BreakersKept, TasksKept, SlotsKept, QuotaKept DEF RelayInv
<1>2. QED
  BY <1>1, RelayAtFirst, PTL DEF Spec

\* "An in-flight count can never leak on an early return": for any number of
\* attempts, reloads and failures each generation counts the attempts that hold
\* its slots, no more and no fewer.
THEOREM SlotsNeverLeak == Spec => []InFlightExact
<1>1. RelayInv => InFlightExact
  BY DEF RelayInv
<1>2. QED
  BY <1>1, RelayInvariant, PTL

\* What is sent and being sent on a window's counted reservations is within its
\* limit, but for the refunds that come a window late.
THEOREM QuotaStaysHeld == Spec => []QuotaHeld
<1>1. RelayInv => QuotaHeld
  <2>1. ASSUME RelayInv, NEW w \in Windows
        PROVE  spent[w].counted + Charged(w, "counted") <= Limit[w] + late[w]
    <3>1. TypeOK /\ Counter(w) <= Limit[w]
          /\ spent[w].counted + Charged(w, "counted") <= Counter(w) + late[w]
      BY <2>1 DEF RelayInv, BreakerInv, QuotaCounted
    <3>2. QED
      BY <3>1, QuotaTypes
  <2>2. QED
    BY <2>1 DEF QuotaHeld
<1>2. QED
  BY <1>1, RelayInvariant, PTL
=============================================================================
