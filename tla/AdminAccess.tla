---------------------------- MODULE AdminAccess ----------------------------
(***************************************************************************)
(* Who may use the admin API: dashboard sessions and the brake on failed   *)
(* logins (state.rs), and the rules that admit a request                   *)
(* (admin/routes.rs).  The store and the brake are maps behind a lock      *)
(* each; an operator below is what happens under one lock.  Requests are   *)
(* tasks of their own (AdminHttp): others run between two locks.           *)
(*                                                                         *)
(* Time is a tick.  An instant in the future is the ticks left until then, *)
(* so that "expires > now" is "more than 0 left".                          *)
(***************************************************************************)
EXTENDS Integers, FiniteSets, Functions

CONSTANTS
  Addresses,    \* client addresses
  Local,        \* the loopback ones
  Tokens,       \* session tokens; new_session_token never repeats one
  Policies,     \* settings of `admin:` an operator may put in force
  MaxFailures,  \* login_max_failures
  BlockTicks,   \* login_block_seconds
  SessionTicks  \* SESSION_TTL

ASSUME AdminAccessAssumption ==
  /\ IsFiniteSet(Addresses) /\ Local \subseteq Addresses
  /\ \A p \in Policies : DOMAIN p = {"networks", "password", "token"}
  /\ MaxFailures \in Nat
  /\ BlockTicks \in Nat \ {0} /\ SessionTicks \in Nat \ {0}

VARIABLES
  policy,    \* AppState.config, its admin part
  sessions,  \* SessionStore: the ticks each session it keeps has left
  attempts,  \* AuthGuard: the failures of an address and its block
  issued,    \* tokens handed out so far
  life,      \* what the user of a token is owed; read by properties only
  unused,    \* ticks since the user of a token last used it; likewise
  wrong      \* wrong passwords compared since an address started afresh; likewise

accessVars == <<policy, sessions, attempts, issued, life, unused, wrong>>

NoToken == "none"
Unset == ""
Unblocked == -1

AccessInit ==
  /\ policy \in Policies
  /\ sessions = [t \in {} |-> 0]
  /\ attempts = [a \in {} |-> 0]
  /\ issued = {}
  /\ life = [t \in Tokens |-> "unborn"]
  /\ unused = [t \in Tokens |-> 0]
  /\ wrong = [a \in Addresses |-> 0]

-----------------------------------------------------------------------------
(* AuthGuard *)

Attempts(failures, until) == [failures |-> failures, until |-> until]
WithEntry(a, e) == [x \in DOMAIN attempts \cup {a} |-> IF x = a THEN e ELSE attempts[x]]
Entry(a) == IF a \in DOMAIN attempts THEN attempts[a] ELSE Attempts(0, Unblocked)

Blocked(a) == Entry(a).until > 0
Elapsed(a) == Entry(a).until = 0

\* Faulty variant for BlocksEnd: an attempt made while blocked starts the block again.
CheckExtending(a) ==
  /\ attempts' = IF Elapsed(a) THEN WithEntry(a, Attempts(0, Unblocked))
                 ELSE IF Blocked(a) THEN WithEntry(a, Attempts(Entry(a).failures, BlockTicks))
                 ELSE attempts
  /\ wrong' = IF Elapsed(a) THEN [wrong EXCEPT ![a] = 0] ELSE wrong

\* check: an elapsed block starts the address afresh.
Check(a) ==
  /\ attempts' = IF Elapsed(a) THEN WithEntry(a, Attempts(0, Unblocked)) ELSE attempts
  /\ wrong' = IF Elapsed(a) THEN [wrong EXCEPT ![a] = 0] ELSE wrong

\* Faulty variant for GuessesBounded: a failure that was under way when the
\* block began lifts it.
FailReopening(a) ==
  LET before == IF Elapsed(a) THEN 0 ELSE Entry(a).failures
      failures == before + 1
  IN  /\ wrong' = [wrong EXCEPT ![a] = IF Elapsed(a) THEN 1 ELSE @ + 1]
      /\ attempts' =
           IF MaxFailures = 0 THEN attempts
           ELSE WithEntry(a, Attempts(failures,
                               IF failures = MaxFailures THEN BlockTicks ELSE Unblocked))

\* fail, after a wrong password: a block in force is left as it is.
Fail(a) ==
  LET before == IF Elapsed(a) THEN 0 ELSE Entry(a).failures
      failures == before + 1
  IN  /\ wrong' = [wrong EXCEPT ![a] = IF Elapsed(a) THEN 1 ELSE @ + 1]
      /\ attempts' =
           IF MaxFailures = 0 \/ Blocked(a) THEN attempts
           ELSE WithEntry(a, Attempts(failures,
                               IF failures >= MaxFailures THEN BlockTicks ELSE Unblocked))

Success(a) ==
  /\ attempts' = Restrict(attempts, DOMAIN attempts \ {a})
  /\ wrong' = [wrong EXCEPT ![a] = 0]

-----------------------------------------------------------------------------
(* SessionStore *)

WithSession(kept, t) == [x \in DOMAIN kept \cup {t} |-> IF x = t THEN SessionTicks ELSE kept[x]]

Unexpired == Restrict(sessions, {t \in DOMAIN sessions : sessions[t] > 0})

Create(t) ==
  /\ t \in Tokens \ issued
  /\ issued' = issued \cup {t}
  /\ sessions' = WithSession(sessions, t)
  /\ life' = [life EXCEPT ![t] = "live"]
  /\ unused' = [unused EXCEPT ![t] = 0]

Known(t) == t \in DOMAIN Unexpired

\* Faulty variant for SessionsAsOwed: use does not prolong a session.
UsernameFixed(t) ==
  /\ sessions' = Unexpired
  /\ unused' = IF Known(t) THEN [unused EXCEPT ![t] = 0] ELSE unused

\* username(t): forgets what has expired; a session that is used lasts on.
Username(t) ==
  /\ sessions' = IF Known(t) THEN WithSession(Unexpired, t) ELSE Unexpired
  /\ unused' = IF Known(t) THEN [unused EXCEPT ![t] = 0] ELSE unused

Revoke(t) ==
  /\ sessions' = Restrict(sessions, DOMAIN sessions \ {t})
  /\ life' = IF t \in issued THEN [life EXCEPT ![t] = "over"] ELSE life

-----------------------------------------------------------------------------
(* The rules of a request, by the settings p its handler holds. *)

LoginRequired(p) == p.password # Unset

NetworkAllowed(p, a) == a \in p.networks

IsSecret(p, token) == p.token # Unset /\ token = p.token

\* What authorize decides when no session speaks for the request.
WithoutSession(p, a, token) ==
  \/ IsSecret(p, token)
  \/ /\ token = NoToken \/ p.token = Unset
     /\ ~LoginRequired(p) /\ p.token = Unset
     /\ a \in Local

-----------------------------------------------------------------------------
Less(n) == IF n > 0 THEN n - 1 ELSE n

Tick ==
  /\ sessions' = [t \in DOMAIN sessions |-> Less(sessions[t])]
  /\ attempts' = [a \in DOMAIN attempts |-> [attempts[a] EXCEPT !.until = Less(@)]]
  /\ unused' = [t \in Tokens |->
                  IF life[t] = "live" /\ unused[t] + 1 < SessionTicks THEN unused[t] + 1 ELSE 0]
  /\ life' = [t \in Tokens |->
                IF life[t] = "live" /\ unused[t] + 1 >= SessionTicks THEN "over" ELSE life[t]]
  /\ UNCHANGED <<policy, issued, wrong>>

\* apply_config, as ConfigStore has it: sessions and blocks outlive it.
Apply ==
  /\ policy' \in Policies
  /\ UNCHANGED <<sessions, attempts, issued, life, unused, wrong>>

\* A new process: nobody is signed in, nobody is blocked.
ForgetAccess ==
  /\ sessions' = [t \in {} |-> 0]
  /\ attempts' = [a \in {} |-> 0]
  /\ life' = [t \in Tokens |-> IF t \in issued THEN "over" ELSE "unborn"]
  /\ unused' = [t \in Tokens |-> 0]
  /\ wrong' = [a \in Addresses |-> 0]
  /\ UNCHANGED <<policy, issued>>
=============================================================================
