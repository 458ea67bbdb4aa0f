------------------------------ MODULE Selector ------------------------------
(***************************************************************************)
(* Which relay carries a message (relay/selector.rs), with the routing     *)
(* state of the pool (relay/pool.rs): the round-robin cursor and the       *)
(* weights of smooth weighted round robin.                                 *)
(*                                                                         *)
(* A relay is its position in the pool.  Eligibility belongs to the relays *)
(* and changes by itself, so each reading of it is an input: the relays    *)
(* found open, less those already tried for the message.  Names compare    *)
(* without regard to case; a domain is its labels, last one first, and so  *)
(* is a sender, <<>> for the null one.                                     *)
(***************************************************************************)
EXTENDS Integers, FiniteSets, Sequences

Seqs == INSTANCE SequencesExt

CONSTANTS
  NumRelays,
  Weight, Priority, InRotation, DetailOf,  \* of each relay; DetailOf "" for none
  Details,     \* sequence of [id, label, hostname, username]
  Rules,       \* routing.domain_overrides: [domain, wildcard, relays]
  Hash,        \* stable_hash of the keys that occur
  Requests,    \* [user, helo, sender, senderDomain, domain]; domain of the
               \* first recipient
  Routings,    \* [strategy, sticky, fallback]
  CursorMod    \* the cursor is kept modulo a multiple of every count of relays

Relays == 1..NumRelays

ASSUME SelectorAssumption ==
  /\ NumRelays \in Nat \ {0}
  /\ Weight \in [Relays -> Nat] /\ Priority \in [Relays -> Nat]
  /\ InRotation \in [Relays -> BOOLEAN]
  /\ \A i \in DOMAIN Rules : Rules[i].relays \in Seq(Relays)
  /\ CursorMod \in Nat \ {0} /\ \A n \in Relays : CursorMod % n = 0
  /\ \A req \in Requests : \A key \in {req.sender, req.domain} \ {<<>>} : Hash[key] \in Nat
  /\ \A way \in Routings :
       /\ way.strategy \in {"round_robin", "weighted", "least_used", "failover"}
       /\ way.sticky \in {"none", "sender", "recipient_domain"} /\ way.fallback \in BOOLEAN

VARIABLES
  routing,  \* routing of the configuration
  cursor,   \* Pool::cursor, modulo CursorMod
  smooth,   \* Pool::smooth_weights
  last      \* the latest selection: what it read and the relay, 0 for none

vars == <<routing, cursor, smooth, last>>

-----------------------------------------------------------------------------
(* 0. The candidates.                                                      *)

SameName(a, b) == a # "" /\ a = b

Matches(detail, req) ==
  \/ SameName(req.user, detail.username)
  \/ SameName(detail.hostname, req.helo)
  \/ SameName(detail.hostname, req.senderDomain)
  \/ SameName(detail.label, req.helo)

Linked(detail) ==
  {r \in Relays : DetailOf[r] # "" /\ DetailOf[r] \in {detail.id, detail.label, detail.hostname}}

\* The relays the sender's SMTP detail is tied to, {} for general mail.
BoundTo == [req \in Requests |->
  LET matched == SelectSeq(Details, LAMBDA detail : Matches(detail, req))
  IN  IF matched = <<>> THEN {} ELSE Linked(Head(matched))]

InGeneralPool == {r \in Relays : InRotation[r] /\ DetailOf[r] = ""}

OrElse(S, T) == IF S # {} THEN S ELSE T

\* `first` and `second` are the relays open when eligibility is read first, and
\* when it is read again because no relay of the general pool was open.
Candidates(req, first, second) ==
  LET bound == BoundTo[req] \cap first
  IN  IF BoundTo[req] # {}
      THEN OrElse({r \in bound : InRotation[r]}, bound)
      ELSE OrElse(InGeneralPool \cap first, second)

\* The second reading is made only then.
SecondReadings(req, first) ==
  IF BoundTo[req] = {} /\ InGeneralPool \cap first = {} THEN SUBSET Relays ELSE {first}

-----------------------------------------------------------------------------
(* 1. Domain overrides.                                                    *)

Exact(rule, domain) == ~rule.wildcard /\ rule.domain = domain
Covers(rule, domain) == rule.wildcard /\ Seqs!IsPrefix(rule.domain, domain)

\* The rules for a domain: the one found first is the one that counts.
MatchOverride == [req \in Requests |->
  SelectSeq(Rules, LAMBDA rule : Exact(rule, req.domain))
    \o SelectSeq(Rules, LAMBDA rule : Covers(rule, req.domain))]

Overridden(req) == MatchOverride[req] # <<>>

Named(req) == Head(MatchOverride[req]).relays

\* Faulty variant for RoutedWell: the rule's relays are not checked against
\* the candidates.
RestrictedUnchecked(req, cands) == DOMAIN Named(req)

\* Where the rule names a candidate; it names relays in the order it prefers them.
Restricted(req, cands) == {i \in DOMAIN Named(req) : Named(req)[i] \in cands}

-----------------------------------------------------------------------------
(* 2. Stickiness.                                                          *)

\* The running total of a quantity of each relay, by position, and what it comes to.
UpTo(w) ==
  LET upTo[r \in 0..NumRelays] == IF r = 0 THEN 0 ELSE upTo[r - 1] + w[r]
  IN  upTo

Total(w) == UpTo(w)[NumRelays]

Share(r) == IF Weight[r] = 0 THEN 1 ELSE Weight[r]
SharesIn(S) == [r \in Relays |-> IF r \in S THEN Share(r) ELSE 0]
SharesOf(S) == Total(SharesIn(S))

StickyKey(req) ==
  CASE routing.sticky = "none" -> <<>>
    [] routing.sticky = "sender" -> req.sender
    [] routing.sticky = "recipient_domain" -> req.domain

\* Faulty variant for StickyShare: the target may also equal the weight.
WeightedPickByHashInclusive(cands, hash) ==
  LET upTo == UpTo(SharesIn(cands))
  IN  CHOOSE r \in cands :
        upTo[r - 1] <= hash % SharesOf(cands) /\ hash % SharesOf(cands) <= upTo[r]

\* The candidates' weights laid end to end, and where the hash falls.
WeightedPickByHash(cands, hash) ==
  LET upTo == UpTo(SharesIn(cands))
  IN  CHOOSE r \in cands :
        upTo[r - 1] <= hash % SharesOf(cands) /\ hash % SharesOf(cands) < upTo[r]

-----------------------------------------------------------------------------
(* 3. Strategies.                                                          *)

\* The candidate at an index, counted from 0.
AtIndex(cands, n) == CHOOSE r \in cands : Cardinality({c \in cands : c < r}) = n

\* The least of cands by their rank, and by position among equals.
Least(cands, rank) ==
  CHOOSE r \in cands : \A c \in cands :
    \/ rank[r] < rank[c]
    \/ rank[r] = rank[c] /\ r <= c

\* smooth_weighted_pick: the weights of the candidates are added, and the one
\* with the most - the first of equals - pays for all.
Raised(cands) == [r \in Relays |-> smooth[r] + SharesIn(cands)[r]]

Foremost(cands) == Least(cands, [r \in cands |-> -Raised(cands)[r]])

\* Faulty variant for DebtBounded: the weights of all relays are paid.
SmoothWeightedPickAll(cands) ==
  smooth' = [Raised(cands) EXCEPT ![Foremost(cands)] = @ - SharesOf(Relays)]

SmoothWeightedPick(cands) ==
  smooth' = [Raised(cands) EXCEPT ![Foremost(cands)] = @ - SharesOf(cands)]

\* Hour count and in-flight count as a rank, one reading of each candidate; the sort
\* reads a counter again for each comparison, and a counter that moves meanwhile can
\* only bring another candidate to the front.
Loads == IF routing.strategy = "least_used" THEN [Relays -> 0..1] ELSE {[r \in Relays |-> 0]}

ByStrategy(cands, load) ==
  CASE routing.strategy = "round_robin" -> AtIndex(cands, cursor % Cardinality(cands))
    [] routing.strategy = "weighted" -> Foremost(cands)
    [] routing.strategy = "least_used" -> Least(cands, load)
    [] routing.strategy = "failover" -> Least(cands, Priority)

-----------------------------------------------------------------------------
(* select: each outcome is an action, for the reading made of the relays    *)
(* and the candidates it left.                                             *)

Chose(reading, relay) ==
  last' = [req |-> reading.req, first |-> reading.first, second |-> reading.second,
           relay |-> relay]

\* A single relay of the sender's own detail is taken whatever the rules say.
Settled(req, cands) == Cardinality(cands) = 1 /\ BoundTo[req] # {}

\* No candidate, or none the override names and no falling back.
NoRoute(req, cands) ==
  \/ cands = {}
  \/ /\ ~Settled(req, cands) /\ Overridden(req)
     /\ Restricted(req, cands) = {} /\ ~routing.fallback

Refuse(reading, cands) ==
  /\ NoRoute(reading.req, cands)
  /\ Chose(reading, 0)
  /\ UNCHANGED <<routing, cursor, smooth>>

OnlyOne(reading, cands) ==
  /\ Settled(reading.req, cands)
  /\ \E r \in cands : Chose(reading, r)
  /\ UNCHANGED <<routing, cursor, smooth>>

ByRule(req, cands) ==
  cands # {} /\ ~Settled(req, cands) /\ Overridden(req) /\ Restricted(req, cands) # {}

Override(reading, cands) ==
  /\ ByRule(reading.req, cands)
  /\ LET places == Restricted(reading.req, cands)
     IN  \E i \in places : (\A j \in places : i <= j) /\ Chose(reading, Named(reading.req)[i])
  /\ UNCHANGED <<routing, cursor, smooth>>

\* Neither refused, settled nor overridden.
Open(req, cands) == ~NoRoute(req, cands) /\ ~Settled(req, cands) /\ ~ByRule(req, cands)

Sticks(req, cands) == Cardinality(cands) > 1 /\ StickyKey(req) # <<>>

Sticky(reading, cands) ==
  /\ Open(reading.req, cands) /\ Sticks(reading.req, cands)
  /\ Chose(reading, WeightedPickByHash(cands, Hash[StickyKey(reading.req)]))
  /\ UNCHANGED <<routing, cursor, smooth>>

Strategy(reading, cands, load) ==
  /\ Open(reading.req, cands) /\ ~Sticks(reading.req, cands)
  /\ Chose(reading, ByStrategy(cands, load))
  /\ IF routing.strategy = "round_robin"
     THEN cursor' = (cursor + 1) % CursorMod ELSE UNCHANGED cursor
  /\ IF routing.strategy = "weighted"
     THEN SmoothWeightedPick(cands) ELSE UNCHANGED smooth
  /\ UNCHANGED routing

Select(reading, cands) ==
  \/ Refuse(reading, cands)
  \/ OnlyOne(reading, cands)
  \/ Override(reading, cands)
  \/ Sticky(reading, cands)
  \/ \E load \in Loads : Strategy(reading, cands, load)

Init ==
  /\ routing \in Routings /\ cursor = 0
  /\ smooth = [r \in Relays |-> 0]
  /\ last = [req |-> CHOOSE req \in Requests : TRUE, first |-> {}, second |-> {}, relay |-> 0]

Next ==
  \E req \in Requests, first \in SUBSET Relays : \E second \in SecondReadings(req, first) :
    Select([req |-> req, first |-> first, second |-> second], Candidates(req, first, second))

Spec == Init /\ [][Next]_vars

-----------------------------------------------------------------------------
(* Properties.                                                             *)

\* Whatever stage decides, the relay was open when it was read; mail of an SMTP
\* detail with relays of its own leaves through none but these; and general mail
\* leaves through a relay outside the general pool only when no relay of the
\* pool was open.  A message is refused with a relay open to it only where its
\* override names another and falling back is off.
RoutedWell ==
  LET r == last.relay
      mine == BoundTo[last.req]
      usable == IF mine # {} THEN mine \cap last.first
                ELSE OrElse(InGeneralPool \cap last.first, last.second)
  IN  /\ r # 0 => r \in usable
      /\ r # 0 /\ mine = {} /\ r \notin InGeneralPool => InGeneralPool \cap last.first = {}
      /\ r = 0 /\ usable # {} => Overridden(last.req) /\ ~routing.fallback

LargestShare == CHOOSE n \in {Share(r) : r \in Relays} : \A r \in Relays : Share(r) <= n

MostOwed == (NumRelays - 1) * LargestShare

\* However the candidates change from message to message, smooth weighted round
\* robin owes no relay and is owed by none more than the largest weight once for
\* each other relay, and the debts cancel (smooth_weighted_pick, pool.rs:935-966).
\* While the candidates stay the same every pick has one price, so the picks keep to
\* the weights within that bound.  When they change the prices differ and the weights
\* promise no share: with weights 1, 1 and 8, the third relay a candidate of every
\* other message only, the picks are 5, 1 and 4 of every ten.
DebtBounded ==
  /\ Total(smooth) = 0
  /\ \A r \in Relays : smooth[r] \in -MostOwed .. MostOwed

\* Of all values a hash can take modulo the candidates' weights, each candidate
\* gets as many as its weight: sticky routing keeps the configured split.
StickyShare ==
  LET cands == Candidates(last.req, last.first, last.second)
      all == SharesOf(cands)
  IN  \A r \in cands :
        Cardinality({h \in 0..all - 1 : WeightedPickByHash(cands, h) = r}) = Share(r)
=============================================================================
