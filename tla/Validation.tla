----------------------------- MODULE Validation -----------------------------
(***************************************************************************)
(* The check of a message's recipients before its first attempt            *)
(* (validation.rs).  All recipients are checked at once.  An address of    *)
(* the Yahoo family is put to the verify APIs, one after the other from a   *)
(* rotating start; any other to every Stalwart server at the same time,    *)
(* each of which reports the stages of a trial delivery.  Requests fail,   *)
(* streams break off and servers disagree.                                 *)
(***************************************************************************)
EXTENDS Integers, FiniteSets, Sequences

CONSTANTS
  Recipients,
  YahooMail,    \* those for which is_yahoo_address holds
  Servers,      \* usable Stalwart servers
  NumEndpoints, \* resolved Yahoo endpoints
  Concurrency,  \* validation.yahoo.concurrency
  ValidationOn  \* validation.enabled

ASSUME ValidationAssumption ==
  /\ IsFiniteSet(Recipients) /\ YahooMail \subseteq Recipients
  /\ IsFiniteSet(Servers) /\ NumEndpoints \in Nat /\ Concurrency \in Nat \ {0}
  /\ ValidationOn \in BOOLEAN

VARIABLES
  allow,    \* on_probe_error is `allow`, in the configuration the check began with
  check,    \* of each recipient: not begun, waiting for a slot, asking, decided
  next,     \* the endpoint a Yahoo address is at, and how many have failed
  probe,    \* of each recipient on each server
  rotation, \* YAHOO_RR, modulo the number of endpoints
  heard     \* verdicts given so far on each recipient; read by properties only

checkVars == <<allow, check, next, probe, rotation, heard>>

Endpoints == 0..NumEndpoints - 1
Checks == {"idle", "queued", "asking", "probing", "deliver", "skip"}
Probes == {"none", "open", "refused", "acceptable", "invalid", "failed"}

Verdict(yes) == IF yes THEN "deliver" ELSE "skip"
Decided(r) == check[r] \in {"deliver", "skip"}
Decides(r, yes) == check' = [check EXCEPT ![r] = Verdict(yes)]
Hears(r, verdict) == heard' = [heard EXCEPT ![r] = @ \cup {verdict}]

CheckInit ==
  /\ allow = TRUE
  /\ check = [r \in Recipients |-> "idle"]
  /\ next = [r \in Recipients |-> [at |-> 0, failed |-> 0]]
  /\ probe = [r \in Recipients |-> [s \in Servers |-> "none"]]
  /\ rotation = 0
  /\ heard = [r \in Recipients |-> {}]

-----------------------------------------------------------------------------
(* filter_recipients                                                       *)

HasAnyChannel == Servers # {} \/ NumEndpoints > 0

\* What becomes of a recipient at once: a wait for the APIs, a decision without
\* asking anyone, or probes on every server.
Begun(r, policy) ==
  CASE ~HasAnyChannel -> "deliver"
    [] HasAnyChannel /\ r \in YahooMail /\ NumEndpoints > 0 -> "queued"
    [] HasAnyChannel /\ r \in YahooMail /\ NumEndpoints = 0 -> Verdict(policy)
    [] HasAnyChannel /\ r \notin YahooMail /\ Servers = {} -> "deliver"
    [] HasAnyChannel /\ r \notin YahooMail /\ Servers # {} -> "probing"

StartChecks(rcpts) ==
  /\ \E policy \in BOOLEAN :
       /\ allow' = policy
       /\ check' = [r \in Recipients |-> IF r \in rcpts THEN Begun(r, policy) ELSE check[r]]
       /\ probe' = [r \in Recipients |-> [s \in Servers |->
            IF r \in rcpts /\ Begun(r, policy) = "probing" THEN "open" ELSE probe[r][s]]]
  /\ UNCHANGED <<next, rotation, heard>>

\* A slot is taken and given back before the address is checked, so that there
\* is always one; check_yahoo then draws where it starts.
Admit(r) ==
  /\ check[r] = "queued"
  /\ check' = [check EXCEPT ![r] = "asking"]
  /\ next' = [next EXCEPT ![r] = [at |-> rotation, failed |-> 0]]
  /\ rotation' = IF NumEndpoints > 1 THEN (rotation + 1) % NumEndpoints ELSE rotation
  /\ UNCHANGED <<allow, probe, heard>>

-----------------------------------------------------------------------------
(* Verify APIs: what a reply says is found in its fields.                  *)

\* What a field holds: a plain yes (true, "valid", "ok", ...) or no (false, "invalid",
\* "bounce", ...), a word that is no verdict (`unknown`, `error`), a number, 0, or
\* nothing that is read (absent, null, any other word).
Values == {"yes", "no", "vague", "number", "zero", "none"}

\* status_bool and json_bool, which differ in "1" and "0" only and are tried in turn.
AsBool(value) ==
  CASE value \in {"yes", "number"} -> "true"
    [] value \in {"no", "vague", "zero"} -> "false"
    [] value = "none" -> "none"

\* A reply, by the first field of each kind that can be read.  Bound: two fields at a
\* time, which is enough to tell in which order they are read.
Fields ==
  {json \in [{"fail", "ok", "valid", "status", "data"} -> Values] :
     Cardinality({f \in DOMAIN json : json[f] # "none"}) <= 2}

\* read_validated: a validity field, else a status field, else what is nested.
ReadValidated(json) ==
  LET read == [f \in {"valid", "status", "data"} |-> AsBool(json[f])]
  IN  CASE read.valid # "none" -> read.valid
        [] read.valid = "none" /\ read.status # "none" -> read.status
        [] read.valid = "none" /\ read.status = "none" -> read.data

\* What the API says of itself comes first.
SaysFailed(json) == AsBool(json.fail) = "true" \/ AsBool(json.ok) = "false"

\* Faulty variant for VerdictsFollowed: a missing verdict counts as invalid.
InterpretMissing(json) ==
  IF SaysFailed(json) THEN "error"
  ELSE IF ReadValidated(json) = "true" THEN "true" ELSE "false"

\* interpret_yahoo_json: a verdict or an error.
Interpret(json) ==
  IF SaysFailed(json) \/ ReadValidated(json) = "none" THEN "error" ELSE ReadValidated(json)

\* The next endpoint is asked, or after the last one the policy decides.
Fails(r) ==
  /\ IF next[r].failed + 1 = NumEndpoints
     THEN Decides(r, allow) /\ UNCHANGED next
     ELSE /\ next' = [next EXCEPT ![r] = [at |-> (@.at + 1) % NumEndpoints,
                                          failed |-> @.failed + 1]]
          /\ UNCHANGED check
  /\ UNCHANGED <<allow, probe, rotation, heard>>

\* The API cannot be reached, times out, answers with an error or not in JSON.
NoAnswer(r) == check[r] = "asking" /\ Fails(r)

\* What an honest API means by a value, and by a reply: nothing if it says that it
\* failed; "unclear" where a word that is no verdict, or a number, stands for one.
Means(value) ==
  CASE value = "yes" -> "true"
    [] value = "no" -> "false"
    [] value \in {"vague", "number", "zero"} -> "unclear"
    [] value = "none" -> "none"

Meant(json) ==
  IF Means(json.fail) = "true" \/ Means(json.ok) = "false" THEN {}
  ELSE {Means(json[f]) : f \in {"valid", "status", "data"}} \ {"none"}

\* A reply is read as something and meant as something; many come to the same.
Replies == {[read |-> Interpret(json), meant |-> Meant(json)] : json \in Fields}

Answer(r, answer) ==
  /\ check[r] = "asking"
  /\ IF answer.read = "error" THEN Fails(r)
     ELSE /\ Decides(r, answer.read = "true")
          /\ heard' = [heard EXCEPT ![r] = @ \cup answer.meant]
          /\ UNCHANGED <<allow, next, probe, rotation>>

-----------------------------------------------------------------------------
(* Stalwart: the stages a server streams.                                  *)

Probed(r, s, state) == probe' = [probe EXCEPT ![r][s] = state]
Streams(r, s) == check[r] = "probing" /\ probe[r][s] \in {"open", "refused"}

\* rcptToSuccess ends the probe; rcptToError is remembered, as another of the
\* domain's hosts may still accept.
StageSuccess(r, s) ==
  /\ Streams(r, s) /\ Probed(r, s, "acceptable") /\ Hears(r, "true")
  /\ UNCHANGED <<allow, check, next, rotation>>

StageError(r, s) ==
  /\ Streams(r, s) /\ Probed(r, s, "refused") /\ Hears(r, "false")
  /\ UNCHANGED <<allow, check, next, rotation>>

\* finish_probe: `completed`, or the end of the stream.
StageDone(r, s) ==
  /\ Streams(r, s)
  /\ Probed(r, s, IF probe[r][s] = "refused" THEN "invalid" ELSE "failed")
  /\ UNCHANGED <<allow, check, next, rotation, heard>>

\* No connection, an HTTP error, or the stream breaks off.
ProbeBreaks(r, s) ==
  /\ Streams(r, s) /\ Probed(r, s, "failed")
  /\ UNCHANGED <<allow, check, next, rotation, heard>>

Outcomes(r) == {probe[r][s] : s \in Servers}

\* decide, when every probe has ended.
Decide(r) ==
  /\ check[r] = "probing" /\ \A s \in Servers : ~Streams(r, s)
  /\ Decides(r, \/ "acceptable" \in Outcomes(r)
                \/ "invalid" \notin Outcomes(r) /\ allow)
  /\ UNCHANGED <<allow, next, probe, rotation, heard>>

\* All that is left of the checks when filter_recipients returns is the rotation.
ForgetChecks ==
  /\ check' = [r \in Recipients |-> "idle"]
  /\ next' = [r \in Recipients |-> [at |-> 0, failed |-> 0]]
  /\ probe' = [r \in Recipients |-> [s \in Servers |-> "none"]]
  /\ heard' = [r \in Recipients |-> {}]
  /\ allow' = TRUE
  /\ UNCHANGED rotation

CheckStep ==
  \E r \in Recipients :
    \/ Admit(r) \/ NoAnswer(r) \/ Decide(r)
    \/ \E answer \in Replies : Answer(r, answer)
    \/ \E s \in Servers :
         StageSuccess(r, s) \/ StageError(r, s) \/ StageDone(r, s) \/ ProbeBreaks(r, s)

-----------------------------------------------------------------------------
(* Properties.                                                             *)

\* Whatever fails or breaks off on the way, a recipient is left out only on a
\* verdict: somebody called it invalid and no server accepted it.  Under the policy
\* `skip`, a recipient that had to be checked is mailed only if somebody vouched for it.
\* There is one exception, of the verify APIs alone: a field that holds a word such as
\* `unknown` or `error`, or a number, is read as a verdict although it is none
\* (status_bool, validation.rs:446-459), and decides the recipient instead of the
\* next endpoint or the policy.
Heard(r, verdict) ==
  verdict \in heard[r] \/ (r \in YahooMail /\ "unclear" \in heard[r])

VerdictsFollowed ==
  \A r \in Recipients :
    /\ check[r] = "skip" /\ allow =>
         Heard(r, "false") /\ (r \notin YahooMail => "true" \notin heard[r])
    /\ check[r] = "deliver" /\ ~allow /\ Begun(r, allow) \in {"queued", "probing"} =>
         Heard(r, "true")

\* validation.rs:251: an API error is answered by the policy.  What says `error` or
\* `unknown` is taken for a verdict all the same.
OnlyVerdictsDecide == \A r \in Recipients : Decided(r) => "unclear" \notin heard[r]

\* config.rs: concurrency is the "Max Yahoo API calls in flight".
YahooLimited == Cardinality({r \in Recipients : check[r] = "asking"}) <= Concurrency
=============================================================================
