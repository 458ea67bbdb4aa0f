-------------------------- MODULE AdminHttpProofs --------------------------
(***************************************************************************)
(* For any number of connections, addresses and tokens, and any limits:    *)
(* the types, the bound on guessed passwords, and that a session admits    *)
(* its user exactly while it is owed.                                      *)
(***************************************************************************)
EXTENDS AdminHttp, FiniteSetTheorems, TLAPS

\* The requests of an address that a comparison of their password is due to.
Comparing(a) == {c \in Conns : conn[c].at = "verify" /\ conn[c].addr = a}

\* The inductive form of GuessesBounded.  While an address is not blocked, the brake
\* has counted every wrong password; once a block has begun, only requests that are
\* let through already can add one.
BrakeAt(a) ==
  /\ a \notin DOMAIN attempts => wrong[a] = 0
  /\ a \in DOMAIN attempts /\ attempts[a].until = Unblocked =>
       wrong[a] = attempts[a].failures /\ wrong[a] < MaxFailures
  /\ a \in DOMAIN attempts /\ attempts[a].until # Unblocked =>
       wrong[a] + Cardinality(Comparing(a)) <= MaxFailures + Cardinality(Conns) - 1

BrakeHolds == MaxFailures > 0 => \A a \in Addresses : BrakeAt(a)

\* A session that is owed is kept, and has left what its user has not let pass; none
\* other is kept but those that have run out.
SessionsExact ==
  /\ \A t \in Tokens : life[t] = "live" =>
       t \in DOMAIN sessions /\ sessions[t] + unused[t] = SessionTicks
  /\ \A t \in DOMAIN sessions : sessions[t] > 0 => life[t] = "live"

\* The inductive form of SessionsAsOwed: nothing is due on account of a cookie that
\* has not admitted its request.
Judged ==
  \A c \in Conns :
    /\ verdict[c].admitted = verdict[c].due
    /\ conn[c].at \in {"route", "authorize", "token", "status"} => ~verdict[c].due

-----------------------------------------------------------------------------
(* The types.                                                              *)

LEMMA CheckTypes ==
  ASSUME AccessTypes, NEW a \in Addresses, Check(a)
  PROVE  /\ DOMAIN attempts' \subseteq Addresses
         /\ attempts' \in [DOMAIN attempts' -> [failures : Nat, until : Unblocked .. BlockTicks]]
         /\ wrong' \in [Addresses -> Nat]
  BY AdminAccessAssumption
  DEF AccessTypes, Check, Elapsed, Entry, WithEntry, Attempts, Unblocked

LEMMA FailTypes ==
  ASSUME AccessTypes, NEW a \in Addresses, Fail(a)
  PROVE  /\ DOMAIN attempts' \subseteq Addresses
         /\ attempts' \in [DOMAIN attempts' -> [failures : Nat, until : Unblocked .. BlockTicks]]
         /\ wrong' \in [Addresses -> Nat]
  BY AdminAccessAssumption
  DEF AccessTypes, Fail, Elapsed, Blocked, Entry, WithEntry, Attempts, Unblocked

LEMMA SuccessTypes ==
  ASSUME AccessTypes, NEW a \in Addresses, Success(a)
  PROVE  /\ DOMAIN attempts' \subseteq Addresses
         /\ attempts' \in [DOMAIN attempts' -> [failures : Nat, until : Unblocked .. BlockTicks]]
         /\ wrong' \in [Addresses -> Nat]
  BY DEF AccessTypes, Success, Restrict

LEMMA UsernameTypes ==
  ASSUME AccessTypes, NEW t, Username(t)
  PROVE  /\ DOMAIN sessions' \subseteq issued
         /\ sessions' \in [DOMAIN sessions' -> 0 .. SessionTicks]
         /\ unused' \in [Tokens -> 0 .. SessionTicks - 1]
  BY AdminAccessAssumption
  DEF AccessTypes, Username, Known, Unexpired, WithSession, Restrict

LEMMA CreateTypes ==
  ASSUME AccessTypes, NEW t, Create(t), UNCHANGED <<policy, attempts, wrong>>
  PROVE  AccessTypes'
  BY AdminAccessAssumption DEF AccessTypes, Create, WithSession

LEMMA RevokeTypes ==
  ASSUME AccessTypes, NEW t, Revoke(t)
  PROVE  /\ DOMAIN sessions' \subseteq issued
         /\ sessions' \in [DOMAIN sessions' -> 0 .. SessionTicks]
         /\ life' \in [Tokens -> {"unborn", "live", "over"}]
  BY DEF AccessTypes, Revoke, Restrict

LEMMA TickTypes ==
  ASSUME AccessTypes, Tick
  PROVE  AccessTypes'
  <1>1. sessions' \in [DOMAIN sessions' -> 0 .. SessionTicks] /\ DOMAIN sessions' = DOMAIN sessions
    BY AdminAccessAssumption DEF AccessTypes, Tick, Less
  <1>2. /\ DOMAIN attempts' = DOMAIN attempts
        /\ attempts' \in [DOMAIN attempts' -> [failures : Nat, until : Unblocked .. BlockTicks]]
    BY AdminAccessAssumption DEF AccessTypes, Tick, Less, Unblocked
  <1>3. /\ life' \in [Tokens -> {"unborn", "live", "over"}]
        /\ unused' \in [Tokens -> 0 .. SessionTicks - 1]
    BY AdminAccessAssumption DEF AccessTypes, Tick
  <1> QED BY <1>1, <1>2, <1>3 DEF AccessTypes, Tick

LEMMA ForgetTypes ==
  ASSUME AccessTypes, ForgetAccess
  PROVE  AccessTypes'
  BY AdminAccessAssumption DEF AccessTypes, ForgetAccess
(* What the assignments to the fields of a connection make of it.           *)

LEMMA SetAt ==
  ASSUME NEW x \in Connection, NEW p \in Places,
         NEW y, y = [x EXCEPT !.at = p]
  PROVE  y \in Connection /\ y.at = p /\ y.addr = x.addr /\ y.next = x.next /\ y.frames = x.frames
  BY DEF Connection

LEMMA SetFree ==
  /\ Free \in Connection /\ Free.at = "free" /\ Free.frames = <<>>
  /\ NoVerdict \in [admitted : BOOLEAN, due : BOOLEAN] /\ ~NoVerdict.admitted /\ ~NoVerdict.due
  BY DEF Free, Connection, Places, Streaming, NoVerdict

LEMMA NewTyped ==
  ASSUME NEW a \in Addresses, NEW y,
         y = [at |-> "reading", addr |-> a, req |-> Nothing, policy |-> NoPolicy,
              from |-> 0, next |-> 0, frames |-> <<>>, late |-> FALSE]
  PROVE  y \in Connection
  <1>1. <<>> \in Seq({"event", "lagged"} \X Nat) OBVIOUS
  <1> QED BY <1>1 DEF Connection, Places, Streaming

LEMMA SetNew ==
  ASSUME NEW a \in Addresses,
         NEW y, y = [Free EXCEPT !.at = "reading", !.addr = a]
  PROVE  y \in Connection /\ y.at = "reading" /\ y.addr = a /\ y.frames = <<>>
  <1>1. y = [at |-> "reading", addr |-> a, req |-> Nothing, policy |-> NoPolicy,
             from |-> 0, next |-> 0, frames |-> <<>>, late |-> FALSE]
    BY DEF Free
  <1>2. y.at = "reading" /\ y.addr = a /\ y.frames = <<>> BY ONLY <1>1, Zenon
  <1> QED BY <1>1, <1>2, NewTyped

\* Connection c alone goes on, to one of some places.
MovesTo(c, places) ==
  \E y \in Connection :
    /\ conn' = [conn EXCEPT ![c] = y]
    /\ y.at \in places
    /\ y.at # "free" => y.addr \in Addresses
    /\ y.at # "free" /\ ~At(c, "free") => y.addr = conn[c].addr
    /\ y.at \in Subscribed => y.next > 0
    /\ places \cap Subscribed = {} => y.frames \in {conn[c].frames, <<>>}

LEMMA Goto ==
  ASSUME TypeOK, NEW c \in Conns, ~At(c, "free"), NEW p \in Places \ ({"free"} \cup Subscribed),
         Goes(c, p)
  PROVE  MovesTo(c, {p})
  <1>p. PICK y : y = [conn[c] EXCEPT !.at = p]
    OBVIOUS
  <1>1. conn[c] \in Connection /\ conn[c].addr \in Addresses BY DEF TypeOK, At
  <1>2. y \in Connection /\ y.at = p /\ y.addr = conn[c].addr /\ y.frames = conn[c].frames
    BY <1>p, <1>1, SetAt
  <1>3. conn' = [conn EXCEPT ![c] = y] BY <1>p DEF Goes
  <1> QED BY <1>1, <1>2, <1>3 DEF MovesTo

LEMMA GotoWithPolicy ==
  ASSUME TypeOK, NEW c \in Conns, ~At(c, "free"), NEW p \in Places \ ({"free"} \cup Subscribed),
         conn' = [conn EXCEPT ![c].at = p, ![c].policy = policy]
  PROVE  MovesTo(c, {p})
  <1>p. PICK y : y = [conn[c] EXCEPT !.at = p, !.policy = policy]
    OBVIOUS
  <1>1. conn[c] \in Connection /\ conn[c].addr \in Addresses /\ policy \in Policies \cup {NoPolicy} /\ p \in Places
    BY DEF TypeOK, AccessTypes, At
  <1>2. y = [at |-> p, addr |-> conn[c].addr, req |-> conn[c].req, policy |-> policy,
             from |-> conn[c].from, next |-> conn[c].next, frames |-> conn[c].frames, late |-> conn[c].late]
    BY <1>p, <1>1 DEF Connection
  <1>4. y \in Connection /\ y.at = p /\ y.addr = conn[c].addr /\ y.frames = conn[c].frames
    BY <1>1, <1>2 DEF Connection
  <1>3. conn' = [conn EXCEPT ![c] = y] BY <1>p
  <1> QED BY <1>1, <1>3, <1>4 DEF MovesTo

LEMMA GotoFree ==
  ASSUME TypeOK, NEW c \in Conns, Ends(c)
  PROVE  MovesTo(c, {"free"})
  BY SetFree DEF Ends, MovesTo, Subscribed, Streaming

LEMMA AcceptMoves ==
  ASSUME TypeOK, NEW c \in Conns, Accept(c)
  PROVE  MovesTo(c, {"reading"})
  <1>1. PICK a \in Addresses :
          conn' = [conn EXCEPT ![c] = [Free EXCEPT !.at = "reading", !.addr = a]]
    BY DEF Accept
  <1>p. PICK y : y = [Free EXCEPT !.at = "reading", !.addr = a]
    OBVIOUS
  <1>2. y \in Connection /\ y.at = "reading" /\ y.addr = a /\ y.frames = <<>> BY <1>p, SetNew
  <1>3. conn' = [conn EXCEPT ![c] = y] BY <1>p, <1>1
  <1> QED BY <1>2, <1>3 DEF MovesTo, Accept, At, Subscribed, Streaming

LEMMA ReadMoves ==
  ASSUME TypeOK, NEW c \in Conns, Read(c)
  PROVE  MovesTo(c, {"route"})
  <1>1. PICK r \in Requests : conn' = [conn EXCEPT ![c].at = "route", ![c].req = r]
    BY DEF Read
  <1>p. PICK y : y = [conn[c] EXCEPT !.at = "route", !.req = r]
    OBVIOUS
  <1>2. /\ conn[c] \in Connection /\ conn[c].addr \in Addresses /\ r \in Requests \cup {Nothing}
        /\ "route" \in Places
    BY DEF TypeOK, Read, At, Places, Streaming
  <1>5. y = [at |-> "route", addr |-> conn[c].addr, req |-> r, policy |-> conn[c].policy,
             from |-> conn[c].from, next |-> conn[c].next, frames |-> conn[c].frames, late |-> conn[c].late]
    BY <1>p, <1>2 DEF Connection
  <1>3. y \in Connection /\ y.at = "route" /\ y.addr = conn[c].addr /\ y.frames = conn[c].frames
    BY <1>2, <1>5 DEF Connection
  <1>4. conn' = [conn EXCEPT ![c] = y] BY <1>p, <1>1
  <1> QED BY <1>2, <1>3, <1>4 DEF MovesTo, Subscribed, Streaming

LEMMA ReplyMoves ==
  ASSUME TypeOK, NEW c \in Conns, Reply(c)
  PROVE  MovesTo(c, {"free", "reading"})
  <1>1. CASE conn[c].req.close \/ Gone(c)
    BY <1>1, SetFree DEF Reply, Ends, MovesTo, Subscribed, Streaming
  <1>2. CASE ~(conn[c].req.close \/ Gone(c))
    <2>p. PICK y : y = [conn[c] EXCEPT !.at = "reading", !.req = Nothing, !.policy = NoPolicy]
      OBVIOUS
    <2>1. conn[c] \in Connection /\ conn[c].addr \in Addresses BY DEF TypeOK, Reply, At
    <2>4. y = [at |-> "reading", addr |-> conn[c].addr, req |-> Nothing, policy |-> NoPolicy,
               from |-> conn[c].from, next |-> conn[c].next, frames |-> conn[c].frames, late |-> conn[c].late]
      BY <2>p, <2>1 DEF Connection
    <2>2. y \in Connection /\ y.at = "reading" /\ y.addr = conn[c].addr /\ y.frames = conn[c].frames
      BY <2>1, <2>4 DEF Connection, Places, Streaming
    <2>3. conn' = [conn EXCEPT ![c] = y] BY <2>p, <1>2 DEF Reply
    <2> QED BY <2>1, <2>2, <2>3 DEF MovesTo, Subscribed, Streaming
  <1> QED BY <1>1, <1>2

LEMMA RouteMoves ==
  ASSUME TypeOK, NEW c \in Conns, Route(c)
  PROVE  MovesTo(c, {"reply", "login", "logout", "status", "authorize"})
  <1>1. PICK p \in {"reply", "login", "logout", "status", "authorize"} : Goes(c, p)
    BY DEF Route, Destination
  <1>2. MovesTo(c, {p}) BY <1>1, Goto DEF Route, At, Places, Streaming, Subscribed
  <1> QED BY <1>2 DEF MovesTo

LEMMA SubscribeMoves ==
  ASSUME TypeOK, NEW c \in Conns, Subscribe(c)
  PROVE  MovesTo(c, {"watch"})
  <1> DEFINE n == Len(sent) + 1
  <1>p. PICK y : y = [conn[c] EXCEPT !.at = "watch", !.from = n, !.next = n]
    OBVIOUS
  <1> HIDE DEF n
  <1>1. conn[c] \in Connection /\ conn[c].addr \in Addresses
    BY DEF TypeOK, Subscribe, At
  <1>2. n \in Nat /\ n > 0 BY DEF TypeOK, n
  <1>5. y = [at |-> "watch", addr |-> conn[c].addr, req |-> conn[c].req, policy |-> conn[c].policy,
             from |-> n, next |-> n, frames |-> conn[c].frames, late |-> conn[c].late]
    BY <1>p, <1>1 DEF Connection
  <1>3. y \in Connection /\ y.at = "watch" /\ y.addr = conn[c].addr /\ y.next = n /\ y.frames = conn[c].frames
    BY <1>1, <1>2, <1>5 DEF Connection, Places, Streaming
  <1>4. conn' = [conn EXCEPT ![c] = y] BY <1>p DEF Subscribe, n
  <1> QED BY <1>1, <1>2, <1>3, <1>4 DEF MovesTo

\* Where a stream goes on without having shown anything more.
LEMMA StaysSubscribed ==
  ASSUME TypeOK, NEW c \in Conns, conn[c].at \in Subscribed, NEW p \in Subscribed,
         NEW b \in BOOLEAN, conn' = [conn EXCEPT ![c].at = p, ![c].late = b]
  PROVE  /\ MovesTo(c, {p}) /\ conn'[c].at = p
         /\ conn'[c].from = conn[c].from /\ conn'[c].next = conn[c].next
         /\ conn'[c].frames = conn[c].frames
         /\ \A d \in Conns \ {c} : conn'[d] = conn[d]
  <1>p. PICK y : y = [conn[c] EXCEPT !.at = p, !.late = b]
    OBVIOUS
  <1>1. conn[c] \in Connection /\ conn[c].addr \in Addresses /\ conn[c].next > 0 /\ p \in Places
    BY DEF TypeOK, Subscribed, Streaming, Places
  <1>2. y = [at |-> p, addr |-> conn[c].addr, req |-> conn[c].req, policy |-> conn[c].policy,
             from |-> conn[c].from, next |-> conn[c].next, frames |-> conn[c].frames, late |-> b]
    BY <1>p, <1>1 DEF Connection
  <1>3. y \in Connection /\ y.at = p /\ y.addr = conn[c].addr
    BY <1>1, <1>2 DEF Connection
  <1>4. y.from = conn[c].from /\ y.next = conn[c].next /\ y.frames = conn[c].frames
    BY <1>2
  <1>5. conn' = [conn EXCEPT ![c] = y] BY <1>p
  <1>6. conn'[c] = y /\ \A d \in Conns \ {c} : conn'[d] = conn[d] BY <1>5 DEF TypeOK
  <1> QED BY <1>1, <1>3, <1>4, <1>5, <1>6 DEF MovesTo

LEMMA WriteMoves ==
  ASSUME TypeOK, NEW c \in Conns, NEW p,
         \/ Watch(c) /\ p = "writing"
         \/ Beat(c) /\ p = "writing"
         \/ Written(c) /\ p = "stream"
  PROVE  /\ MovesTo(c, {p}) /\ conn'[c].at = p /\ p \in Subscribed /\ conn[c].at \in Subscribed
         /\ conn'[c].from = conn[c].from /\ conn'[c].next = conn[c].next
         /\ conn'[c].frames = conn[c].frames
         /\ \A d \in Conns \ {c} : conn'[d] = conn[d]
  <1>1. conn[c].at \in Subscribed /\ p \in Subscribed
    BY DEF Watch, Beat, Written, At, Subscribed, Streaming
  <1>2. PICK b \in BOOLEAN : conn' = [conn EXCEPT ![c].at = p, ![c].late = b]
    <2>1. CASE Watch(c) /\ p = "writing" BY <2>1 DEF Watch, TypeOK
    <2>2. CASE (Beat(c) /\ p = "writing") \/ (Written(c) /\ p = "stream")
      <3>1. conn[c] \in Connection /\ conn[c].late \in BOOLEAN BY DEF TypeOK, Connection
      <3>2. Goes(c, p) BY <2>2 DEF Beat, Written
      <3>3. conn' = [conn EXCEPT ![c].at = p, ![c].late = conn[c].late]
        BY <3>1, <3>2 DEF Goes, Connection, TypeOK
      <3> QED BY <3>1, <3>3
    <2> QED BY <2>1, <2>2
  <1> QED BY <1>1, <1>2, StaysSubscribed

LEMMA StreamMoves ==
  ASSUME TypeOK, NEW c \in Conns, Stream(c)
  PROVE  MovesTo(c, {"writing"})
  <1>0. /\ conn[c] \in Connection /\ conn[c].at = "stream" /\ conn[c].next <= Len(sent)
        /\ sent \in Seq(Nat)
    BY DEF TypeOK, Stream, At
  <1>a. conn[c].addr \in Addresses BY <1>0 DEF TypeOK
  <1>b. conn[c].next > 0 BY <1>0 DEF TypeOK, Subscribed, Streaming
  <1>1. /\ conn[c] \in Connection /\ conn[c].addr \in Addresses /\ conn[c].at = "stream"
        /\ conn[c].next \in 1 .. Len(sent) /\ sent[conn[c].next] \in Nat
    BY <1>0, <1>a, <1>b DEF Connection
  <1>2. PICK f \in {"event", "lagged"} \X Nat, n \in Nat : n > 0 /\ Shows(c, f, n)
    <2>1. CASE Lag(c) > 0
      <3>1. Lag(c) \in Nat BY <1>1, <2>1, AdminHttpAssumption DEF Lag, TypeOK
      <3> QED BY <1>1, <2>1, <3>1 DEF Stream
    <2>2. CASE ~(Lag(c) > 0)
      BY <1>1, <2>2 DEF Stream
    <2> QED BY <2>1, <2>2
  <1>p. PICK y : y = [conn[c] EXCEPT !.at = "writing", !.frames = Append(@, f), !.next = n]
    OBVIOUS
  <1>5. y = [at |-> "writing", addr |-> conn[c].addr, req |-> conn[c].req, policy |-> conn[c].policy,
             from |-> conn[c].from, next |-> n, frames |-> Append(conn[c].frames, f), late |-> conn[c].late]
    BY <1>p, <1>1 DEF Connection
  <1>6. Append(conn[c].frames, f) \in Seq({"event", "lagged"} \X Nat) BY <1>1 DEF Connection
  <1>3. y \in Connection /\ y.at = "writing" /\ y.addr = conn[c].addr /\ y.next = n
    BY <1>1, <1>5, <1>6 DEF Connection, Places, Streaming
  <1>4. conn' = [conn EXCEPT ![c] = y] BY <1>p, <1>2 DEF Shows
  <1>7. "writing" \in Subscribed BY DEF Subscribed, Streaming
  <1> QED BY <1>1, <1>2, <1>3, <1>4, <1>7 DEF MovesTo

LEMMA AuthorizeMoves ==
  ASSUME TypeOK, NEW c \in Conns
  PROVE  /\ AuthorizeCookie(c) => MovesTo(c, {"reply", "head", "token"})
         /\ AuthorizeToken(c) => MovesTo(c, {"reply", "head"})
         /\ SessionStatus(c) => MovesTo(c, {"reply"})
         /\ Logout(c) => MovesTo(c, {"reply"})
  <1>1. ASSUME AuthorizeCookie(c) PROVE MovesTo(c, {"reply", "head", "token"})
    <2>1. PICK p \in {"reply", "head", "token"} :
            conn' = [conn EXCEPT ![c].at = p, ![c].policy = policy]
      BY <1>1 DEF AuthorizeCookie, Admit
    <2>2. MovesTo(c, {p}) BY <1>1, <2>1, GotoWithPolicy DEF AuthorizeCookie, At, Places, Streaming, Subscribed
    <2> QED BY <2>2 DEF MovesTo
  <1>2. ASSUME AuthorizeToken(c) PROVE MovesTo(c, {"reply", "head"})
    <2>1. PICK p \in {"reply", "head"} : Goes(c, p)
      BY <1>2 DEF AuthorizeToken, Admit
    <2>2. MovesTo(c, {p}) BY <1>2, <2>1, Goto DEF AuthorizeToken, At, Places, Streaming, Subscribed
    <2> QED BY <2>2 DEF MovesTo
  <1>3. ASSUME SessionStatus(c) PROVE MovesTo(c, {"reply"})
    BY <1>3, Goto DEF SessionStatus, At, Places, Streaming, Subscribed
  <1>4. ASSUME Logout(c) PROVE MovesTo(c, {"reply"})
    BY <1>4, Goto DEF Logout, At, Places, Streaming, Subscribed
  <1> QED BY <1>1, <1>2, <1>3, <1>4

LEMMA LoginMoves ==
  ASSUME TypeOK, NEW c \in Conns
  PROVE  /\ LoginCheck(c) => MovesTo(c, {"reply", "verify"})
         /\ LoginVerify(c) => MovesTo(c, {"reply", "create"})
         /\ LoginCreate(c) => MovesTo(c, {"reply"})
  <1>1. ASSUME LoginCheck(c) PROVE MovesTo(c, {"reply", "verify"})
    <2>1. CASE LoginRequired(policy)
      <3>1. PICK p \in {"reply", "verify"} :
              conn' = [conn EXCEPT ![c].at = p, ![c].policy = policy]
        BY <1>1, <2>1 DEF LoginCheck
      <3>2. MovesTo(c, {p}) BY <1>1, <3>1, GotoWithPolicy DEF LoginCheck, At, Places, Streaming, Subscribed
      <3> QED BY <3>2 DEF MovesTo
    <2>2. CASE ~LoginRequired(policy)
      <3>1. MovesTo(c, {"reply"}) BY <1>1, <2>2, Goto DEF LoginCheck, At, Places, Streaming, Subscribed
      <3> QED BY <3>1 DEF MovesTo
    <2> QED BY <2>1, <2>2
  <1>2. ASSUME LoginVerify(c) PROVE MovesTo(c, {"reply", "create"})
    <2>1. PICK p \in {"reply", "create"} : Goes(c, p) BY <1>2 DEF LoginVerify
    <2>2. MovesTo(c, {p}) BY <1>2, <2>1, Goto DEF LoginVerify, At, Places, Streaming, Subscribed
    <2> QED BY <2>2 DEF MovesTo
  <1>3. ASSUME LoginCreate(c) PROVE MovesTo(c, {"reply"})
    BY <1>3, Goto DEF LoginCreate, At, Places, Streaming, Subscribed
  <1> QED BY <1>1, <1>2, <1>3

ConnTypes ==
  /\ conn \in [Conns -> Connection]
  /\ \A c \in Conns : conn[c].at # "free" => conn[c].addr \in Addresses
  /\ \A c \in Conns : conn[c].at \in Subscribed => conn[c].next > 0

LEMMA MovesKeepTypes ==
  ASSUME TypeOK, NEW c \in Conns, NEW P, MovesTo(c, P)
  PROVE  ConnTypes'
  BY DEF TypeOK, ConnTypes, MovesTo

LEMMA InitTypes == Init => TypeOK
  <1> SUFFICES ASSUME Init PROVE TypeOK
    OBVIOUS
  <1>1. AccessTypes
    BY AdminAccessAssumption DEF Init, AccessInit, AccessTypes
  <1>2. ConnTypes
    BY SetFree DEF Init, ConnTypes, Subscribed, Streaming
  <1>3. client \in [Conns -> {"reads", "stuck", "gone"}] /\ verdict \in [Conns -> [admitted : BOOLEAN, due : BOOLEAN]]
    BY SetFree DEF Init
  <1>4. sent \in Seq(Nat) /\ sequence \in Nat /\ stopping \in BOOLEAN /\ listening \in BOOLEAN
    <2>1. sent = <<>> BY DEF Init
    <2>2. sequence = 0 /\ stopping = FALSE /\ listening = TRUE BY DEF Init
    <2>3. <<>> \in Seq(Nat) OBVIOUS
    <2> QED BY <2>1, <2>2, <2>3
  <1>5. taken \in [Publishers -> Nat \cup {None}]
    BY DEF Init
  <1> QED BY <1>1, <1>2, <1>3, <1>4, <1>5 DEF TypeOK, ConnTypes

LEMMA JudgeTypes ==
  ASSUME TypeOK, NEW c \in Conns, NEW a \in BOOLEAN, NEW d \in BOOLEAN, Judge(c, a, d)
  PROVE  verdict' \in [Conns -> [admitted : BOOLEAN, due : BOOLEAN]]
  BY DEF TypeOK, Judge

\* The actions that leave the sessions and the brake alone.
LEMMA PlainStepTypes ==
  ASSUME TypeOK, UNCHANGED accessVars, NEW c \in Conns,
         \/ Accept(c) \/ Read(c) \/ EndReading(c) \/ Leave(c) \/ Pause(c)
         \/ Route(c) \/ Reply(c) \/ Subscribe(c) \/ Stream(c)
         \/ Watch(c) \/ Beat(c) \/ Written(c) \/ WriteFails(c) \/ StopStream(c)
  PROVE  TypeOK'
  <1> USE DEF TypeOK, busVars, ConnTypes
  <1>0. AccessTypes' BY DEF AccessTypes, accessVars
  <1>1. CASE Accept(c)
    BY <1>0, <1>1, AcceptMoves, MovesKeepTypes DEF Accept
  <1>2. CASE Read(c)
    BY <1>0, <1>2, ReadMoves, MovesKeepTypes, SetFree DEF Read
  <1>3. CASE EndReading(c)
    BY <1>0, <1>3, GotoFree, MovesKeepTypes, SetFree DEF EndReading, Ends
  <1>4. CASE Leave(c)
    BY <1>0, <1>4 DEF Leave
  <1>5. CASE Route(c)
    BY <1>0, <1>5, RouteMoves, MovesKeepTypes DEF Route
  <1>6. CASE Reply(c)
    BY <1>0, <1>6, ReplyMoves, MovesKeepTypes, SetFree DEF Reply, Ends
  <1>7. CASE Subscribe(c)
    BY <1>0, <1>7, SubscribeMoves, MovesKeepTypes DEF Subscribe
  <1>8. CASE Stream(c)
    BY <1>0, <1>8, StreamMoves, MovesKeepTypes DEF Stream
  <1>9. CASE WriteFails(c) \/ StopStream(c)
    BY <1>0, <1>9, GotoFree, MovesKeepTypes, SetFree DEF WriteFails, StopStream, Ends
  <1>10. CASE Pause(c)
    BY <1>0, <1>10 DEF Pause
  <1>11. CASE Watch(c)
    BY <1>0, <1>11, WriteMoves, MovesKeepTypes DEF Watch
  <1>12. CASE Beat(c)
    BY <1>0, <1>12, WriteMoves, MovesKeepTypes DEF Beat
  <1>13. CASE Written(c)
    BY <1>0, <1>13, WriteMoves, MovesKeepTypes DEF Written
  <1> QED BY <1>1, <1>2, <1>3, <1>4, <1>5, <1>6, <1>7, <1>8, <1>9, <1>10, <1>11, <1>12, <1>13

\* The actions of a request that use the sessions or the brake.
LEMMA AccessStepTypes ==
  ASSUME TypeOK, NEW c \in Conns,
         \/ AuthorizeCookie(c) \/ AuthorizeToken(c) \/ SessionStatus(c) \/ Logout(c)
         \/ LoginCheck(c) \/ LoginVerify(c) \/ LoginCreate(c)
  PROVE  TypeOK'
  <1> USE DEF TypeOK, busVars
  <1>0. ConnTypes'
    BY AuthorizeMoves, LoginMoves, MovesKeepTypes
  <1>1. CASE AuthorizeCookie(c)
    <2>1. AccessTypes' BY <1>1, UsernameTypes DEF AuthorizeCookie, AccessTypes
    <2>2. verdict' \in [Conns -> [admitted : BOOLEAN, due : BOOLEAN]]
      <3> DEFINE cookie == conn[c].req.cookie
      <3>1. Known(cookie) \in BOOLEAN /\ (life[cookie] = "live") \in BOOLEAN BY DEF Known
      <3> QED BY <1>1, <3>1, JudgeTypes DEF AuthorizeCookie
    <2> QED BY <1>0, <1>1, <2>1, <2>2 DEF AuthorizeCookie, ConnTypes
  <1>2. CASE AuthorizeToken(c)
    <2>1. AccessTypes' BY <1>2, UsernameTypes DEF AuthorizeToken, AccessTypes
    <2>2. verdict' \in [Conns -> [admitted : BOOLEAN, due : BOOLEAN]]
      BY <1>2 DEF AuthorizeToken, Judge, Known, WithoutSession, IsSecret
    <2> QED BY <1>0, <1>2, <2>1, <2>2 DEF AuthorizeToken, ConnTypes
  <1>3. CASE SessionStatus(c)
    <2>1. AccessTypes' BY <1>3, UsernameTypes DEF SessionStatus, AccessTypes
    <2>2. verdict' \in [Conns -> [admitted : BOOLEAN, due : BOOLEAN]]
      <3> DEFINE cookie == conn[c].req.cookie
      <3>1. Known(cookie) \in BOOLEAN /\ (life[cookie] = "live") \in BOOLEAN BY DEF Known
      <3> QED BY <1>3, <3>1, JudgeTypes DEF SessionStatus
    <2> QED BY <1>0, <1>3, <2>1, <2>2 DEF SessionStatus, ConnTypes
  <1>4. CASE Logout(c)
    <2>1. AccessTypes' BY <1>4, RevokeTypes DEF Logout, AccessTypes
    <2> QED BY <1>0, <1>4, <2>1 DEF Logout, ConnTypes
  <1>5. CASE LoginCheck(c)
    <2>1. conn[c].addr \in Addresses BY <1>5 DEF LoginCheck, At
    <2>2. AccessTypes' BY <1>5, <2>1, CheckTypes DEF LoginCheck, AccessTypes
    <2> QED BY <1>0, <1>5, <2>2 DEF LoginCheck, ConnTypes
  <1>6. CASE LoginVerify(c)
    <2>1. conn[c].addr \in Addresses BY <1>6 DEF LoginVerify, At
    <2>2. AccessTypes' BY <1>6, <2>1, FailTypes, SuccessTypes DEF LoginVerify, AccessTypes
    <2> QED BY <1>0, <1>6, <2>2 DEF LoginVerify, ConnTypes
  <1>7. CASE LoginCreate(c)
    <2>1. AccessTypes' BY <1>7, CreateTypes DEF LoginCreate
    <2> QED BY <1>0, <1>7, <2>1 DEF LoginCreate, ConnTypes
  <1> QED BY <1>1, <1>2, <1>3, <1>4, <1>5, <1>6, <1>7

LEMMA TypesInductive == TypeOK /\ [Next]_vars => TypeOK'
  <1> SUFFICES ASSUME TypeOK, [Next]_vars PROVE TypeOK'
    OBVIOUS
  <1>1. ASSUME NEW c \in Conns, Serve(c) PROVE TypeOK'
    <2>1. CASE Accept(c) BY <2>1, PlainStepTypes DEF Accept
    <2>2. CASE Read(c) BY <2>2, PlainStepTypes DEF Read
    <2>3. CASE EndReading(c) BY <2>3, PlainStepTypes DEF EndReading
    <2>4. CASE Leave(c) BY <2>4, PlainStepTypes DEF Leave
    <2>5. CASE Handle(c)
      <3>1. CASE Route(c) BY <3>1, PlainStepTypes DEF Route
      <3>2. CASE Reply(c) BY <3>2, PlainStepTypes DEF Reply
      <3> QED BY <2>5, <3>1, <3>2, AccessStepTypes DEF Handle
    <2>6. CASE Subscribe(c) BY <2>6, PlainStepTypes DEF Subscribe
    <2>7. CASE Stream(c) BY <2>7, PlainStepTypes DEF Stream
    <2>8. CASE WriteFails(c) \/ StopStream(c) BY <2>8, PlainStepTypes DEF WriteFails, StopStream
    <2>9. CASE Watch(c) \/ Beat(c) \/ Written(c) BY <2>9, PlainStepTypes DEF Watch, Beat, Written
    <2>10. CASE Pause(c) BY <2>10, PlainStepTypes DEF Pause
    <2> QED BY <1>1, <2>1, <2>2, <2>3, <2>4, <2>5, <2>6, <2>7, <2>8, <2>9, <2>10 DEF Serve
  <1>2. ASSUME NEW p \in Publishers, Take(p) PROVE TypeOK'
    BY <1>2 DEF Take, TypeOK, AccessTypes, accessVars, None
  <1>3. ASSUME NEW p \in Publishers, Send(p) PROVE TypeOK'
    <2>1. taken[p] \in Nat BY <1>3 DEF Send, TypeOK
    <2> QED BY <1>3, <2>1 DEF Send, TypeOK, AccessTypes, accessVars, None
  <1>4. CASE Time
    BY <1>4, TickTypes DEF Time, TypeOK, busVars
  <1>5. CASE ApplySettings
    BY <1>5 DEF ApplySettings, Apply, TypeOK, AccessTypes, busVars
  <1>6. CASE BeginShutdown \/ StopListening
    BY <1>6 DEF BeginShutdown, StopListening, TypeOK, AccessTypes, accessVars, busVars
  <1>7. CASE Restart
    <2>1. AccessTypes' BY <1>7, ForgetTypes DEF Restart, TypeOK
    <2>2. ConnTypes' BY <1>7, SetFree DEF Restart, ConnTypes, Subscribed, Streaming
    <2>3. /\ client' \in [Conns -> {"reads", "stuck", "gone"}]
          /\ verdict' \in [Conns -> [admitted : BOOLEAN, due : BOOLEAN]]
      BY <1>7, SetFree DEF Restart
    <2>4. sent' \in Seq(Nat) /\ sequence' \in Nat /\ stopping' \in BOOLEAN /\ listening' \in BOOLEAN
      <3>1. sent' = <<>> BY <1>7 DEF Restart
      <3>2. sequence' = 0 /\ stopping' = FALSE /\ listening' = TRUE BY <1>7 DEF Restart
      <3>3. <<>> \in Seq(Nat) OBVIOUS
      <3> QED BY <3>1, <3>2, <3>3
    <2>5. taken' \in [Publishers -> Nat \cup {None}]
      BY <1>7 DEF Restart
    <2> QED BY <2>1, <2>2, <2>3, <2>4, <2>5 DEF TypeOK, ConnTypes
  <1>8. CASE UNCHANGED vars
    BY <1>8 DEF vars, accessVars, busVars, TypeOK, AccessTypes
  <1> QED BY <1>1, <1>2, <1>3, <1>4, <1>5, <1>6, <1>7, <1>8 DEF Next

\* Every reachable state is well typed: a session that is kept was issued, and has no
\* more time left than a login gives (state.rs, admin/http.rs).
THEOREM AdminTypes == Spec => []TypeOK
  BY InitTypes, TypesInductive, PTL DEF Spec
-----------------------------------------------------------------------------
(* The brake on guessing.                                                  *)

LEMMA ComparingCounted ==
  ASSUME NEW a
  PROVE  /\ IsFiniteSet(Comparing(a))
         /\ Cardinality(Comparing(a)) \in Nat /\ Cardinality(Conns) \in Nat
         /\ Cardinality(Comparing(a)) <= Cardinality(Conns)
  BY AdminHttpAssumption, FS_Subset, FS_CardinalityType DEF Comparing

LEMMA ComparingFewer ==
  ASSUME NEW a, Comparing(a)' \subseteq Comparing(a)
  PROVE  /\ Cardinality(Comparing(a)') \in Nat
         /\ Cardinality(Comparing(a)') <= Cardinality(Comparing(a))
  BY ComparingCounted, FS_Subset, FS_CardinalityType

LEMMA MovesOn ==
  ASSUME TypeOK, NEW c \in Conns, NEW P, MovesTo(c, P), "verify" \notin P, NEW a
  PROVE  Comparing(a)' = Comparing(a) \ {c}
  BY DEF Comparing, MovesTo, TypeOK

\* What becomes of the brake of all addresses but one.
OthersKept(b) ==
  \A a \in Addresses \ {b} :
    /\ a \in DOMAIN attempts' <=> a \in DOMAIN attempts
    /\ a \in DOMAIN attempts => attempts'[a] = attempts[a]
    /\ wrong'[a] = wrong[a]
    /\ Comparing(a)' \subseteq Comparing(a)

LEMMA BrakeKept ==
  ASSUME TypeOK, BrakeHolds, UNCHANGED <<attempts, wrong>>,
         \A a \in Addresses : Comparing(a)' \subseteq Comparing(a)
  PROVE  BrakeHolds'
  <1> SUFFICES ASSUME MaxFailures > 0, NEW a \in Addresses PROVE BrakeAt(a)'
    BY DEF BrakeHolds
  <1>1. BrakeAt(a) BY DEF BrakeHolds
  <1>2. wrong[a] \in Nat BY DEF TypeOK, AccessTypes
  <1> QED
    BY <1>1, <1>2, ComparingFewer, ComparingCounted, AdminAccessAssumption DEF BrakeAt

LEMMA BrakeKeptBut ==
  ASSUME TypeOK, BrakeHolds, NEW b \in Addresses, OthersKept(b),
         MaxFailures > 0 => BrakeAt(b)'
  PROVE  BrakeHolds'
  <1> SUFFICES ASSUME MaxFailures > 0, NEW a \in Addresses, a # b PROVE BrakeAt(a)'
    BY DEF BrakeHolds
  <1>1. BrakeAt(a) BY DEF BrakeHolds
  <1>2. wrong[a] \in Nat BY DEF TypeOK, AccessTypes
  <1>3. /\ Cardinality(Comparing(a)') \in Nat
        /\ Cardinality(Comparing(a)') <= Cardinality(Comparing(a))
    BY ComparingFewer DEF OthersKept
  <1> QED
    BY <1>1, <1>2, <1>3, ComparingCounted, AdminAccessAssumption DEF BrakeAt, OthersKept

\* An address is blocked, its block has elapsed, or it has none.
LEMMA BlockStates ==
  ASSUME TypeOK, NEW a \in Addresses
  PROVE  /\ Blocked(a) => a \in DOMAIN attempts /\ attempts[a].until # Unblocked /\ ~Elapsed(a)
         /\ a \in DOMAIN attempts /\ ~Blocked(a) /\ ~Elapsed(a) => attempts[a].until = Unblocked
  <1>1. CASE a \in DOMAIN attempts
    <2>1. Entry(a) = attempts[a] BY <1>1 DEF Entry
    <2>2. attempts[a].until \in Unblocked .. BlockTicks BY <1>1 DEF TypeOK, AccessTypes
    <2> QED BY <1>1, <2>1, <2>2, AdminAccessAssumption DEF Blocked, Elapsed, Unblocked
  <1>2. CASE a \notin DOMAIN attempts
    <2>1. Entry(a) = Attempts(0, Unblocked) BY <1>2 DEF Entry
    <2>2. Entry(a).until = -1 BY <2>1 DEF Attempts, Unblocked
    <2> QED BY <1>2, <2>2 DEF Blocked
  <1> QED BY <1>1, <1>2

LEMMA LoginCheckKeepsBrake ==
  ASSUME TypeOK, BrakeHolds, NEW c \in Conns, LoginCheck(c)
  PROVE  BrakeHolds'
  <1>b. PICK b \in Addresses : b = conn[c].addr BY DEF TypeOK, LoginCheck, At
  <1>0. b \in Addresses /\ MovesTo(c, {"reply", "verify"})
    BY LoginMoves
  <1>1. \A a \in Addresses \ {b} : Comparing(a)' \subseteq Comparing(a)
    BY <1>0, <1>b DEF MovesTo, Comparing, TypeOK, LoginCheck, At
  <1>2. CASE ~LoginRequired(policy) \/ Blocked(b)
    <2>1. UNCHANGED <<attempts, wrong>>
      BY <1>b, <1>2 DEF LoginCheck, Check, Elapsed, Blocked
    <2>2. MovesTo(c, {"reply"})
      BY <1>b, <1>2, Goto, GotoWithPolicy DEF LoginCheck, At, Places, Streaming, Subscribed
    <2>3. \A a \in Addresses : Comparing(a)' \subseteq Comparing(a)
      BY <2>2, MovesOn
    <2> QED BY <2>1, <2>3, BrakeKept
  <1>3. CASE LoginRequired(policy) /\ Elapsed(b)
    <2>1. /\ DOMAIN attempts' = DOMAIN attempts \cup {b}
          /\ \A a \in DOMAIN attempts' :
               attempts'[a] = IF a = b THEN Attempts(0, Unblocked) ELSE attempts[a]
          /\ wrong' = [wrong EXCEPT ![b] = 0]
      BY <1>b, <1>3 DEF LoginCheck, Check, WithEntry
    <2>2. OthersKept(b) BY <1>1, <2>1 DEF OthersKept, TypeOK, AccessTypes
    <2>a. attempts'[b] = Attempts(0, Unblocked) /\ b \in DOMAIN attempts' BY <2>1
    <2>b. wrong'[b] = 0 BY <1>0, <2>1 DEF TypeOK, AccessTypes
    <2>c. attempts'[b].until = Unblocked BY <2>a DEF Attempts
    <2>d. attempts'[b].failures = 0 BY <2>a DEF Attempts
    <2>4. MaxFailures > 0 => BrakeAt(b)'
      BY <2>a, <2>b, <2>c, <2>d, AdminAccessAssumption DEF BrakeAt
    <2> QED BY <1>0, <2>2, <2>4, BrakeKeptBut
  <1>4. CASE LoginRequired(policy) /\ ~Blocked(b) /\ ~Elapsed(b)
    <2>1. UNCHANGED <<attempts, wrong>> BY <1>b, <1>4 DEF LoginCheck, Check
    <2>2. OthersKept(b) BY <1>1, <2>1 DEF OthersKept
    <2>3. b \in DOMAIN attempts => attempts[b].until = Unblocked
      BY <1>0, <1>4, BlockStates
    <2>5. attempts' = attempts /\ wrong' = wrong BY <2>1
    <2>6. MaxFailures > 0 => BrakeAt(b) BY <1>0 DEF BrakeHolds
    <2>4. MaxFailures > 0 => BrakeAt(b)'
      BY <2>3, <2>5, <2>6 DEF BrakeAt
    <2> QED BY <1>0, <2>2, <2>4, BrakeKeptBut
  <1> QED BY <1>2, <1>3, <1>4

LEMMA LoginVerifyKeepsBrake ==
  ASSUME TypeOK, BrakeHolds, NEW c \in Conns, LoginVerify(c)
  PROVE  BrakeHolds'
  <1>b. PICK b \in Addresses : b = conn[c].addr BY DEF TypeOK, LoginVerify, At
  <1>0. b \in Addresses /\ c \in Comparing(b)
    BY <1>b DEF LoginVerify, At, Comparing
  <1>1. \A a : Comparing(a)' = Comparing(a) \ {c}
    BY LoginMoves, MovesOn
  <1>2. CASE Success(b)
    <2>1. /\ DOMAIN attempts' = DOMAIN attempts \ {b}
          /\ \A a \in DOMAIN attempts' : attempts'[a] = attempts[a]
          /\ wrong' = [wrong EXCEPT ![b] = 0]
      BY <1>2 DEF Success, Restrict
    <2>2. OthersKept(b) BY <1>1, <2>1 DEF OthersKept, TypeOK, AccessTypes
    <2>3. wrong'[b] = 0 BY <1>0, <2>1 DEF TypeOK, AccessTypes
    <2>4. b \notin DOMAIN attempts' BY <2>1
    <2>5. BrakeAt(b)' BY <2>3, <2>4 DEF BrakeAt
    <2> QED BY <1>0, <2>2, <2>5, BrakeKeptBut
  <1>3. CASE Fail(b)
    <2> SUFFICES ASSUME MaxFailures > 0 PROVE BrakeHolds'
      BY DEF BrakeHolds
    <2> DEFINE card == Cardinality(Comparing(b))
               all == Cardinality(Conns)
    <2>a. IsFiniteSet(Comparing(b)) /\ card \in Nat /\ all \in Nat /\ card <= all
      BY ComparingCounted
    <2>b. Cardinality(Comparing(b) \ {c}) = card - 1 BY <1>0, <2>a, FS_RemoveElement
    <2>c. Comparing(b)' = Comparing(b) \ {c} BY <1>1
    <2>d. IsFiniteSet(Comparing(b) \ {c}) BY <2>a, FS_Subset
    <2>e. card - 1 \in Nat BY <2>b, <2>d, FS_CardinalityType
    <2>f. Cardinality(Comparing(b)') = card - 1 BY <2>b, <2>c
    <2> HIDE DEF card, all
    <2>1. card > 0 BY <2>a, <2>e
    <2>2. wrong[b] \in Nat /\ BrakeAt(b) BY <1>0 DEF TypeOK, AccessTypes, BrakeHolds
    <2>3. OthersKept(b)
      BY <1>1, <1>3 DEF OthersKept, Fail, WithEntry, TypeOK, AccessTypes
    <2>4. CASE Blocked(b)
      <3>1. b \in DOMAIN attempts /\ attempts[b].until # Unblocked /\ ~Elapsed(b)
        BY <1>0, <2>4, BlockStates
      <3>2. attempts' = attempts BY <1>3, <2>4 DEF Fail
      <3>3. wrong'[b] = wrong[b] + 1 BY <1>0, <1>3, <3>1 DEF Fail, TypeOK, AccessTypes
      <3>4. wrong[b] + card <= MaxFailures + all - 1 BY <2>2, <3>1 DEF BrakeAt, card, all
      <3>5. wrong'[b] + (card - 1) <= MaxFailures + all - 1
        BY <2>a, <2>2, <3>3, <3>4, AdminAccessAssumption
      <3>6. BrakeAt(b)'
        BY <2>f, <3>1, <3>2, <3>5 DEF BrakeAt, all
      <3> QED BY <1>0, <2>3, <3>6, BrakeKeptBut
    <2>5. CASE ~Blocked(b)
      <3> DEFINE before == IF Elapsed(b) THEN 0 ELSE Entry(b).failures
                 until == IF before + 1 >= MaxFailures THEN BlockTicks ELSE Unblocked
      <3>1. before \in Nat /\ before < MaxFailures /\ wrong'[b] = before + 1
        <4>1. CASE Elapsed(b)
          BY <1>0, <1>3, <4>1, AdminAccessAssumption DEF Fail, TypeOK, AccessTypes
        <4>2. CASE ~Elapsed(b)
          <5>1. wrong'[b] = wrong[b] + 1 BY <1>0, <1>3, <4>2 DEF Fail, TypeOK, AccessTypes
          <5>2. wrong[b] = Entry(b).failures /\ wrong[b] < MaxFailures
            <6>1. CASE b \in DOMAIN attempts
              <7>1. attempts[b].until = Unblocked BY <1>0, <2>5, <4>2, <6>1, BlockStates
              <7> QED BY <2>2, <6>1, <7>1 DEF BrakeAt, Entry
            <6>2. CASE b \notin DOMAIN attempts
              <7>1. Entry(b) = Attempts(0, Unblocked) BY <6>2 DEF Entry
              <7>2. Entry(b).failures = 0 BY <7>1 DEF Attempts
              <7> QED BY <2>2, <6>2, <7>2, AdminAccessAssumption DEF BrakeAt
            <6> QED BY <6>1, <6>2
          <5> QED BY <2>2, <4>2, <5>1, <5>2
        <4> QED BY <4>1, <4>2
      <3>2. attempts' = WithEntry(b, Attempts(before + 1, until))
        BY <1>3, <2>5, AdminAccessAssumption DEF Fail
      <3> HIDE DEF before, until
      <3>3. b \in DOMAIN attempts' /\ attempts'[b] = Attempts(before + 1, until)
        BY <3>2 DEF WithEntry
      <3>4. attempts'[b].failures = before + 1 /\ attempts'[b].until = until
        BY <3>3 DEF Attempts
      <3>5. CASE before + 1 >= MaxFailures
        <4>1. until # Unblocked BY <3>5, AdminAccessAssumption DEF until, Unblocked
        <4>2. wrong'[b] + (card - 1) <= MaxFailures + all - 1
          BY <2>a, <3>1, AdminAccessAssumption
        <4>3. BrakeAt(b)' BY <2>f, <3>3, <3>4, <4>1, <4>2 DEF BrakeAt, all
        <4> QED BY <1>0, <2>3, <4>3, BrakeKeptBut
      <3>6. CASE ~(before + 1 >= MaxFailures)
        <4>1. until = Unblocked BY <3>6 DEF until
        <4>2. wrong'[b] = attempts'[b].failures /\ wrong'[b] < MaxFailures
          BY <3>1, <3>4, <3>6, AdminAccessAssumption
        <4>3. BrakeAt(b)' BY <3>3, <3>4, <4>1, <4>2 DEF BrakeAt
        <4> QED BY <1>0, <2>3, <4>3, BrakeKeptBut
      <3> QED BY <3>5, <3>6
    <2> QED BY <2>4, <2>5
  <1> QED BY <1>b, <1>2, <1>3 DEF LoginVerify

LEMMA BrakeInit == Init => BrakeHolds
  BY DEF Init, AccessInit, BrakeHolds, BrakeAt

LEMMA BrakeInductive == TypeOK /\ BrakeHolds /\ [Next]_vars => BrakeHolds'
  <1> SUFFICES ASSUME TypeOK, BrakeHolds, [Next]_vars PROVE BrakeHolds'
    OBVIOUS
  <1>1. ASSUME UNCHANGED <<attempts, wrong>>, UNCHANGED conn PROVE BrakeHolds'
    BY <1>1, BrakeKept DEF Comparing
  <1>2. ASSUME NEW c \in Conns, UNCHANGED <<attempts, wrong>>, NEW P, MovesTo(c, P), "verify" \notin P
        PROVE BrakeHolds'
    BY <1>2, BrakeKept, MovesOn
  <1>3. ASSUME NEW c \in Conns, Serve(c) PROVE BrakeHolds'
    <2>1. CASE Accept(c) BY <1>2, <2>1, AcceptMoves DEF Accept, accessVars
    <2>2. CASE Read(c) BY <1>2, <2>2, ReadMoves DEF Read, accessVars
    <2>3. CASE EndReading(c) BY <1>2, <2>3, GotoFree DEF EndReading, accessVars
    <2>4. CASE Leave(c) BY <1>1, <2>4 DEF Leave, accessVars
    <2>5. CASE Handle(c)
      <3>1. CASE Route(c) BY <1>2, <3>1, RouteMoves DEF Route, accessVars
      <3>2. CASE AuthorizeCookie(c) BY <1>2, <3>2, AuthorizeMoves DEF AuthorizeCookie
      <3>3. CASE AuthorizeToken(c) BY <1>2, <3>3, AuthorizeMoves DEF AuthorizeToken
      <3>4. CASE SessionStatus(c) BY <1>2, <3>4, AuthorizeMoves DEF SessionStatus
      <3>5. CASE Logout(c) BY <1>2, <3>5, AuthorizeMoves DEF Logout
      <3>6. CASE LoginCheck(c) BY <3>6, LoginCheckKeepsBrake
      <3>7. CASE LoginVerify(c) BY <3>7, LoginVerifyKeepsBrake
      <3>8. CASE LoginCreate(c) BY <1>2, <3>8, LoginMoves DEF LoginCreate
      <3>9. CASE Reply(c) BY <1>2, <3>9, ReplyMoves DEF Reply, accessVars
      <3> QED BY <2>5, <3>1, <3>2, <3>3, <3>4, <3>5, <3>6, <3>7, <3>8, <3>9 DEF Handle
    <2>6. CASE Subscribe(c) BY <1>2, <2>6, SubscribeMoves DEF Subscribe, accessVars
    <2>7. CASE Stream(c) BY <1>2, <2>7, StreamMoves DEF Stream, accessVars
    <2>8. CASE WriteFails(c) \/ StopStream(c)
      BY <1>2, <2>8, GotoFree DEF WriteFails, StopStream, accessVars
    <2>9. CASE Watch(c) \/ Beat(c) \/ Written(c)
      BY <1>2, <2>9, WriteMoves DEF Watch, Beat, Written, accessVars
    <2>10. CASE Pause(c) BY <1>1, <2>10 DEF Pause, accessVars
    <2> QED BY <1>3, <2>1, <2>2, <2>3, <2>4, <2>5, <2>6, <2>7, <2>8, <2>9, <2>10 DEF Serve
  <1>4. ASSUME NEW p \in Publishers, Take(p) \/ Send(p) PROVE BrakeHolds'
    BY <1>1, <1>4 DEF Take, Send, accessVars
  <1>5. CASE Time
    <2> SUFFICES ASSUME MaxFailures > 0, NEW a \in Addresses PROVE BrakeAt(a)'
      BY DEF BrakeHolds
    <2>1. BrakeAt(a) BY DEF BrakeHolds
    <2>2. Comparing(a)' = Comparing(a) /\ wrong' = wrong /\ DOMAIN attempts' = DOMAIN attempts
      BY <1>5 DEF Time, Tick, Comparing
    <2>3. a \in DOMAIN attempts =>
            /\ attempts'[a].failures = attempts[a].failures
            /\ attempts'[a].until = Unblocked <=> attempts[a].until = Unblocked
      BY <1>5 DEF Time, Tick, Less, Unblocked, TypeOK, AccessTypes
    <2> QED BY <2>1, <2>2, <2>3 DEF BrakeAt
  <1>6. CASE ApplySettings BY <1>1, <1>6 DEF ApplySettings, Apply
  <1>7. CASE BeginShutdown \/ StopListening
    BY <1>1, <1>7 DEF BeginShutdown, StopListening, accessVars
  <1>8. CASE Restart
    BY <1>8 DEF Restart, ForgetAccess, BrakeHolds, BrakeAt
  <1>9. CASE UNCHANGED vars BY <1>1, <1>9 DEF vars, accessVars
  <1> QED BY <1>3, <1>4, <1>5, <1>6, <1>7, <1>8, <1>9 DEF Next

\* However many requests of an address overlap, and whatever the limits, the wrong
\* passwords compared between two fresh starts stay below the limit and the number of
\* connections together (AuthGuard, state.rs; login, admin/routes.rs).
THEOREM GuessesStayBounded == Spec => []GuessesBounded
  <1>1. TypeOK /\ BrakeHolds => GuessesBounded
    <2> SUFFICES ASSUME TypeOK, BrakeHolds, MaxFailures > 0, NEW a \in Addresses
                 PROVE  wrong[a] <= MaxFailures + Cardinality(Conns) - 1
      BY DEF GuessesBounded
    <2>1. BrakeAt(a) /\ wrong[a] \in Nat BY DEF BrakeHolds, TypeOK, AccessTypes
    <2> QED BY <2>1, ComparingCounted, AdminAccessAssumption DEF BrakeAt
  <1> QED BY <1>1, AdminTypes, BrakeInit, BrakeInductive, PTL DEF Spec
-----------------------------------------------------------------------------
(* The sessions.                                                           *)

LEMMA KnownIsOwed ==
  ASSUME TypeOK, SessionsExact, NEW t
  PROVE  Known(t) <=> t \in Tokens /\ life[t] = "live"
  <1>1. Known(t) <=> t \in DOMAIN sessions /\ sessions[t] > 0
    BY DEF Known, Unexpired, Restrict
  <1>2. t \in DOMAIN sessions => t \in Tokens
    BY DEF TypeOK, AccessTypes
  <1>3. t \in Tokens /\ life[t] = "live" => t \in DOMAIN sessions /\ sessions[t] > 0
    <2> SUFFICES ASSUME t \in Tokens, life[t] = "live" PROVE t \in DOMAIN sessions /\ sessions[t] > 0
      OBVIOUS
    <2>1. t \in DOMAIN sessions /\ sessions[t] + unused[t] = SessionTicks
      BY DEF SessionsExact
    <2>2. sessions[t] \in 0 .. SessionTicks /\ unused[t] \in 0 .. SessionTicks - 1
      BY <2>1 DEF TypeOK, AccessTypes
    <2> QED BY <2>1, <2>2, AdminAccessAssumption
  <1> QED BY <1>1, <1>2, <1>3 DEF SessionsExact

LEMMA UsernameKeepsExact ==
  ASSUME TypeOK, SessionsExact, NEW u, Username(u), life' = life
  PROVE  SessionsExact'
  <1>1. \A t \in DOMAIN Unexpired : t \in DOMAIN sessions /\ Unexpired[t] = sessions[t] /\ sessions[t] > 0
    BY DEF Unexpired, Restrict
  <1>2. \A t \in Tokens : life[t] = "live" => t \in DOMAIN Unexpired
    BY KnownIsOwed DEF Known
  <1>3. CASE Known(u)
    <2>1. u \in Tokens /\ life[u] = "live" BY <1>3, KnownIsOwed
    <2>2. /\ DOMAIN sessions' = DOMAIN Unexpired \cup {u}
          /\ \A t \in DOMAIN sessions' :
               sessions'[t] = IF t = u THEN SessionTicks ELSE Unexpired[t]
      BY <1>3 DEF Username, WithSession
    <2>3. unused'[u] = 0 /\ \A t \in Tokens \ {u} : unused'[t] = unused[t]
      BY <1>3, <2>1 DEF Username, TypeOK, AccessTypes
    <2>4. \A t \in Tokens : life[t] = "live" =>
            t \in DOMAIN sessions' /\ sessions'[t] + unused'[t] = SessionTicks
      BY <1>1, <1>2, <2>2, <2>3, AdminAccessAssumption DEF SessionsExact
    <2>5. \A t \in DOMAIN sessions' : sessions'[t] > 0 => life[t] = "live"
      BY <1>1, <2>1, <2>2 DEF SessionsExact
    <2> QED BY <2>4, <2>5 DEF SessionsExact
  <1>4. CASE ~Known(u)
    <2>1. sessions' = Unexpired /\ unused' = unused BY <1>4 DEF Username
    <2> QED BY <1>1, <1>2, <2>1 DEF SessionsExact
  <1> QED BY <1>3, <1>4

LEMMA CreateKeepsExact ==
  ASSUME TypeOK, SessionsExact, NEW u \in Tokens, Create(u)
  PROVE  SessionsExact'
  <1>1. u \notin DOMAIN sessions BY DEF Create, TypeOK, AccessTypes
  <1>2. /\ DOMAIN sessions' = DOMAIN sessions \cup {u}
        /\ \A t \in DOMAIN sessions' :
             sessions'[t] = IF t = u THEN SessionTicks ELSE sessions[t]
    BY DEF Create, WithSession
  <1>3. /\ unused'[u] = 0 /\ life'[u] = "live"
        /\ \A t \in Tokens \ {u} : unused'[t] = unused[t] /\ life'[t] = life[t]
    BY DEF Create, TypeOK, AccessTypes
  <1>4. \A t \in DOMAIN sessions : t \in Tokens BY DEF TypeOK, AccessTypes
  <1>5. \A t \in Tokens : life'[t] = "live" =>
          t \in DOMAIN sessions' /\ sessions'[t] + unused'[t] = SessionTicks
    BY <1>2, <1>3, AdminAccessAssumption DEF SessionsExact
  <1>6. \A t \in DOMAIN sessions' : sessions'[t] > 0 => life'[t] = "live"
    BY <1>1, <1>2, <1>3, <1>4 DEF SessionsExact
  <1> QED BY <1>5, <1>6 DEF SessionsExact

LEMMA RevokeKeepsExact ==
  ASSUME TypeOK, SessionsExact, NEW u, Revoke(u), unused' = unused
  PROVE  SessionsExact'
  <1>1. /\ DOMAIN sessions' = DOMAIN sessions \ {u}
        /\ \A t \in DOMAIN sessions' : sessions'[t] = sessions[t]
    BY DEF Revoke, Restrict
  <1>2. \A t \in Tokens \ {u} : life'[t] = life[t] BY DEF Revoke, TypeOK, AccessTypes
  <1>3. u \in Tokens => life'[u] # "live"
    <2>1. CASE u \in issued BY <2>1 DEF Revoke, TypeOK, AccessTypes
    <2>2. CASE u \notin issued BY <2>2 DEF Revoke, SessionsExact, TypeOK, AccessTypes
    <2> QED BY <2>1, <2>2
  <1>4. \A t \in DOMAIN sessions : t \in Tokens BY DEF TypeOK, AccessTypes
  <1> QED BY <1>1, <1>2, <1>3, <1>4 DEF SessionsExact

LEMMA TickKeepsExact ==
  ASSUME TypeOK, SessionsExact, Tick
  PROVE  SessionsExact'
  <1>1. /\ DOMAIN sessions' = DOMAIN sessions
        /\ \A t \in DOMAIN sessions : sessions'[t] = Less(sessions[t])
    BY DEF Tick
  <1>2. \A t \in DOMAIN sessions : t \in Tokens /\ sessions[t] \in 0 .. SessionTicks
    BY DEF TypeOK, AccessTypes
  <1>3. \A t \in Tokens : unused[t] \in 0 .. SessionTicks - 1 BY DEF TypeOK, AccessTypes
  <1>4. ASSUME NEW t \in Tokens, life'[t] = "live"
        PROVE  t \in DOMAIN sessions' /\ sessions'[t] + unused'[t] = SessionTicks
    <2>a. life'[t] = IF life[t] = "live" /\ unused[t] + 1 >= SessionTicks THEN "over" ELSE life[t]
      BY DEF Tick
    <2>b. life[t] = "live" /\ ~(unused[t] + 1 >= SessionTicks) BY <1>4, <2>a
    <2>c. unused[t] + 1 < SessionTicks BY <1>3, <2>b, AdminAccessAssumption
    <2>d. unused'[t] = unused[t] + 1 BY <2>b, <2>c DEF Tick
    <2>1. life[t] = "live" /\ unused[t] + 1 < SessionTicks /\ unused'[t] = unused[t] + 1
      BY <2>b, <2>c, <2>d
    <2>2. t \in DOMAIN sessions /\ sessions[t] + unused[t] = SessionTicks
      BY <2>1 DEF SessionsExact
    <2> QED BY <1>1, <1>2, <1>3, <2>1, <2>2, AdminAccessAssumption DEF Less
  <1>5. ASSUME NEW t \in DOMAIN sessions', sessions'[t] > 0 PROVE life'[t] = "live"
    <2>1. t \in Tokens /\ sessions[t] > 1
      BY <1>1, <1>2, <1>5, AdminAccessAssumption DEF Less
    <2>2. life[t] = "live" /\ sessions[t] + unused[t] = SessionTicks
      BY <1>1, <1>5, <1>2, <2>1, AdminAccessAssumption DEF SessionsExact
    <2>3. unused[t] + 1 < SessionTicks
      BY <1>1, <1>2, <1>3, <1>5, <2>1, <2>2, AdminAccessAssumption
    <2>4. life'[t] = IF life[t] = "live" /\ unused[t] + 1 >= SessionTicks THEN "over" ELSE life[t]
      BY <2>1 DEF Tick
    <2>5. ~(unused[t] + 1 >= SessionTicks) BY <1>3, <2>1, <2>3, AdminAccessAssumption
    <2> QED BY <2>2, <2>4, <2>5
  <1> QED BY <1>4, <1>5 DEF SessionsExact

\* A connection that goes on keeps Judged if its answer agrees with what is due, and
\* nothing is due yet where it is still to be judged.
LEMMA MovesJudged ==
  ASSUME TypeOK, Judged, NEW c \in Conns, NEW P, MovesTo(c, P),
         \A d \in Conns \ {c} : verdict'[d] = verdict[d],
         verdict'[c].admitted = verdict'[c].due,
         P \cap {"route", "authorize", "token", "status"} # {} => ~verdict'[c].due
  PROVE  Judged'
  <1>1. conn'[c].at \in P /\ \A d \in Conns \ {c} : conn'[d] = conn[d]
    BY DEF MovesTo, TypeOK
  <1> QED BY <1>1 DEF Judged

\* What a request carries.
LEMMA CookieTyped ==
  ASSUME TypeOK, NEW c \in Conns
  PROVE  conn[c].req.cookie \in Tokens \cup {NoToken}
  BY AdminHttpAssumption DEF TypeOK, Connection, Nothing, Request

LEMMA AuthorizeCookieJudges ==
  ASSUME TypeOK, SessionsExact, Judged, NEW c \in Conns, AuthorizeCookie(c)
  PROVE  SessionsExact' /\ Judged'
  <1>t. PICK t : t = conn[c].req.cookie OBVIOUS
  <1>0. MovesTo(c, {"reply", "head", "token"}) /\ ~verdict[c].due /\ verdict[c].admitted = verdict[c].due
    BY AuthorizeMoves DEF AuthorizeCookie, Judged, At
  <1>1. CASE t = NoToken
    <2>1. UNCHANGED <<sessions, unused, verdict, life>> BY <1>t, <1>1 DEF AuthorizeCookie
    <2>2. SessionsExact' BY <2>1 DEF SessionsExact
    <2>3. Judged' BY <1>0, <2>1, MovesJudged
    <2> QED BY <2>2, <2>3
  <1>2. CASE t # NoToken
    <2>1. Username(t) /\ life' = life BY <1>t, <1>2 DEF AuthorizeCookie
    <2>2. SessionsExact' BY <2>1, UsernameKeepsExact
    <2>3. Known(t) <=> life[t] = "live" BY <1>t, <1>2, CookieTyped, KnownIsOwed
    <2>4. CASE Known(t)
      <3>1. verdict' = [verdict EXCEPT ![c] = [admitted |-> Known(t), due |-> life[t] = "live"]]
        BY <1>t, <1>2, <2>4 DEF AuthorizeCookie, Judge
      <3>2. /\ verdict'[c].admitted = Known(t) /\ verdict'[c].due = (life[t] = "live")
            /\ \A d \in Conns \ {c} : verdict'[d] = verdict[d]
        BY <3>1 DEF TypeOK
      <3>3. Known(t) \in BOOLEAN BY DEF Known
      <3>4. verdict'[c].admitted = verdict'[c].due BY <2>3, <3>2, <3>3
      <3>5. MovesTo(c, {"head", "reply"})
        <4>1. PICK p \in {"head", "reply"} :
                conn' = [conn EXCEPT ![c].at = p, ![c].policy = policy]
          BY <1>t, <1>2, <2>4 DEF AuthorizeCookie, Admit
        <4>2. MovesTo(c, {p}) BY <4>1, GotoWithPolicy DEF AuthorizeCookie, At, Places, Streaming, Subscribed
        <4> QED BY <4>2 DEF MovesTo
      <3>6. Judged' BY <3>2, <3>4, <3>5, MovesJudged
      <3> QED BY <2>2, <3>6
    <2>5. CASE ~Known(t)
      <3>1. verdict' = verdict BY <1>t, <1>2, <2>3, <2>5 DEF AuthorizeCookie
      <3>2. Judged' BY <1>0, <3>1, MovesJudged
      <3> QED BY <2>2, <3>2
    <2> QED BY <2>4, <2>5
  <1> QED BY <1>1, <1>2

LEMMA AuthorizeTokenJudges ==
  ASSUME TypeOK, SessionsExact, Judged, NEW c \in Conns, AuthorizeToken(c)
  PROVE  SessionsExact' /\ Judged'
  <1>t. PICK t : t = conn[c].req.token OBVIOUS
  <1>0. MovesTo(c, {"reply", "head"}) /\ ~verdict[c].due /\ life' = life
    BY AuthorizeMoves DEF AuthorizeToken, Judged, At
  <1> DEFINE byRule == WithoutSession(conn[c].policy, conn[c].addr, t)
             asked == t # NoToken /\ ~IsSecret(conn[c].policy, t)
  <1>1. SessionsExact'
    <2>1. CASE asked BY <1>t, <1>0, <2>1, UsernameKeepsExact DEF AuthorizeToken
    <2>2. CASE ~asked
      <3>1. UNCHANGED <<sessions, unused>> BY <1>t, <2>2 DEF AuthorizeToken
      <3> QED BY <1>0, <3>1 DEF SessionsExact
    <2> QED BY <2>1, <2>2
  <1>2. Known(t) <=> t \in Tokens /\ life[t] = "live" BY KnownIsOwed
  <1>3. Judge(c, byRule \/ (asked /\ Known(t)),
              byRule \/ verdict[c].due \/ (asked /\ t \in Tokens /\ life[t] = "live"))
    BY <1>t DEF AuthorizeToken
  <1> HIDE DEF byRule, asked
  <1>4. /\ verdict'[c].admitted = (byRule \/ (asked /\ Known(t)))
        /\ verdict'[c].due = (byRule \/ verdict[c].due \/ (asked /\ t \in Tokens /\ life[t] = "live"))
        /\ \A d \in Conns \ {c} : verdict'[d] = verdict[d]
    BY <1>3 DEF Judge, TypeOK
  <1>5. verdict'[c].admitted = verdict'[c].due BY <1>0, <1>2, <1>4
  <1>6. Judged' BY <1>0, <1>4, <1>5, MovesJudged
  <1> QED BY <1>1, <1>6

LEMMA SessionStatusJudges ==
  ASSUME TypeOK, SessionsExact, Judged, NEW c \in Conns, SessionStatus(c)
  PROVE  SessionsExact' /\ Judged'
  <1>t. PICK t : t = conn[c].req.cookie OBVIOUS
  <1>0. MovesTo(c, {"reply"}) /\ verdict[c].admitted = verdict[c].due /\ life' = life
    BY AuthorizeMoves DEF SessionStatus, Judged, At
  <1>1. CASE t = NoToken
    <2>1. UNCHANGED <<sessions, unused, verdict>> BY <1>t, <1>1 DEF SessionStatus
    <2>2. SessionsExact' BY <1>0, <2>1 DEF SessionsExact
    <2>3. Judged' BY <1>0, <2>1, MovesJudged
    <2> QED BY <2>2, <2>3
  <1>2. CASE t # NoToken
    <2>1. Username(t) BY <1>t, <1>2 DEF SessionStatus
    <2>2. SessionsExact' BY <1>0, <2>1, UsernameKeepsExact
    <2>3. Known(t) <=> life[t] = "live" BY <1>t, <1>2, CookieTyped, KnownIsOwed
    <2>4. Judge(c, Known(t), life[t] = "live") BY <1>t, <1>2 DEF SessionStatus
    <2>5. /\ verdict'[c].admitted = Known(t) /\ verdict'[c].due = (life[t] = "live")
          /\ \A d \in Conns \ {c} : verdict'[d] = verdict[d]
      BY <2>4 DEF Judge, TypeOK
    <2>6. Known(t) \in BOOLEAN BY DEF Known
    <2>7. verdict'[c].admitted = verdict'[c].due BY <2>3, <2>5, <2>6
    <2>8. Judged' BY <1>0, <2>5, <2>7, MovesJudged
    <2> QED BY <2>2, <2>8
  <1> QED BY <1>1, <1>2

LEMMA SessionsInit == Init => SessionsExact /\ Judged
  <1> SUFFICES ASSUME Init PROVE SessionsExact /\ Judged
    OBVIOUS
  <1>1. DOMAIN sessions = {} /\ \A t \in Tokens : life[t] = "unborn" BY DEF Init, AccessInit
  <1>2. \A c \in Conns : verdict[c] = NoVerdict BY DEF Init
  <1>3. SessionsExact BY <1>1 DEF SessionsExact
  <1>4. Judged BY <1>2, SetFree DEF Judged
  <1> QED BY <1>3, <1>4

LEMMA SessionsInductive == TypeOK /\ SessionsExact /\ Judged /\ [Next]_vars => SessionsExact' /\ Judged'
  <1> SUFFICES ASSUME TypeOK, SessionsExact, Judged, [Next]_vars PROVE SessionsExact' /\ Judged'
    OBVIOUS
  <1>a. ASSUME UNCHANGED <<sessions, unused, life>> PROVE SessionsExact'
    BY <1>a DEF SessionsExact
  <1>b. ASSUME UNCHANGED verdict, UNCHANGED conn PROVE Judged'
    BY <1>b DEF Judged
  <1>c. ASSUME NEW c \in Conns, NEW P, MovesTo(c, P), UNCHANGED verdict,
               P \cap {"route", "authorize", "token", "status"} = {}
        PROVE  Judged'
    BY <1>c, MovesJudged DEF Judged
  <1>d. ASSUME NEW c \in Conns, NEW P, MovesTo(c, P), verdict' = [verdict EXCEPT ![c] = NoVerdict]
        PROVE  Judged'
    <2>1. verdict'[c] = NoVerdict /\ \A d \in Conns \ {c} : verdict'[d] = verdict[d]
      BY <1>d DEF TypeOK
    <2> QED BY <1>d, <2>1, SetFree, MovesJudged
  <1>1. ASSUME NEW c \in Conns, Serve(c) PROVE SessionsExact' /\ Judged'
    <2>1. CASE Accept(c) BY <1>a, <1>c, <2>1, AcceptMoves DEF Accept, accessVars
    <2>2. CASE Read(c) BY <1>a, <1>d, <2>2, ReadMoves DEF Read, accessVars
    <2>3. CASE EndReading(c) BY <1>a, <1>d, <2>3, GotoFree DEF EndReading, Ends, accessVars
    <2>4. CASE Leave(c) BY <1>a, <1>b, <2>4 DEF Leave, accessVars
    <2>5. CASE Handle(c)
      <3>1. CASE Route(c)
        <4>1. ~verdict[c].due /\ verdict[c].admitted = verdict[c].due /\ verdict' = verdict
          BY <3>1 DEF Route, Judged, At
        <4>2. Judged' BY <3>1, <4>1, RouteMoves, MovesJudged
        <4> QED BY <1>a, <3>1, <4>2 DEF Route, accessVars
      <3>2. CASE AuthorizeCookie(c) BY <3>2, AuthorizeCookieJudges
      <3>3. CASE AuthorizeToken(c) BY <3>3, AuthorizeTokenJudges
      <3>4. CASE SessionStatus(c) BY <3>4, SessionStatusJudges
      <3>5. CASE Logout(c)
        <4>1. Judged' BY <1>c, <3>5, AuthorizeMoves DEF Logout
        <4>2. SessionsExact'
          <5>1. CASE conn[c].req.cookie = NoToken
            <6>1. UNCHANGED <<sessions, unused, life>> BY <3>5, <5>1 DEF Logout
            <6> QED BY <1>a, <6>1
          <5>2. CASE conn[c].req.cookie # NoToken
            <6>1. PICK t : t = conn[c].req.cookie OBVIOUS
            <6>2. Revoke(t) /\ unused' = unused BY <3>5, <5>2, <6>1 DEF Logout
            <6> QED BY <6>2, RevokeKeepsExact
          <5> QED BY <5>1, <5>2
        <4> QED BY <4>1, <4>2
      <3>6. CASE LoginCheck(c) BY <1>a, <1>c, <3>6, LoginMoves DEF LoginCheck
      <3>7. CASE LoginVerify(c) BY <1>a, <1>c, <3>7, LoginMoves DEF LoginVerify
      <3>8. CASE LoginCreate(c)
        <4>1. Judged' BY <1>c, <3>8, LoginMoves DEF LoginCreate
        <4>2. SessionsExact' BY <3>8, CreateKeepsExact DEF LoginCreate
        <4> QED BY <4>1, <4>2
      <3>9. CASE Reply(c)
        <4>1. MovesTo(c, {"free", "reading"}) /\ verdict' = [verdict EXCEPT ![c] = NoVerdict]
          BY <3>9, ReplyMoves DEF Reply, Ends
        <4>2. UNCHANGED <<sessions, unused, life>> BY <3>9 DEF Reply, accessVars
        <4> QED BY <1>a, <1>d, <4>1, <4>2
      <3> QED BY <2>5, <3>1, <3>2, <3>3, <3>4, <3>5, <3>6, <3>7, <3>8, <3>9 DEF Handle
    <2>6. CASE Subscribe(c) BY <1>a, <1>c, <2>6, SubscribeMoves DEF Subscribe, accessVars
    <2>7. CASE Stream(c) BY <1>a, <1>c, <2>7, StreamMoves DEF Stream, accessVars
    <2>8. CASE WriteFails(c) \/ StopStream(c)
      BY <1>a, <1>d, <2>8, GotoFree DEF WriteFails, StopStream, Ends, accessVars
    <2>9. CASE Watch(c) \/ Beat(c) \/ Written(c)
      <3>1. UNCHANGED <<sessions, unused, life, verdict>>
        BY <2>9 DEF Watch, Beat, Written, accessVars
      <3>2. MovesTo(c, {"writing"}) \/ MovesTo(c, {"stream"}) BY <2>9, WriteMoves
      <3>3. Judged' BY <1>c, <3>1, <3>2
      <3> QED BY <1>a, <3>1, <3>3
    <2>10. CASE Pause(c) BY <1>a, <1>b, <2>10 DEF Pause, accessVars
    <2> QED BY <1>1, <2>1, <2>2, <2>3, <2>4, <2>5, <2>6, <2>7, <2>8, <2>9, <2>10 DEF Serve
  <1>2. ASSUME NEW p \in Publishers, Take(p) \/ Send(p) PROVE SessionsExact' /\ Judged'
    BY <1>a, <1>b, <1>2 DEF Take, Send, accessVars
  <1>3. CASE Time BY <1>b, <1>3, TickKeepsExact DEF Time
  <1>4. CASE ApplySettings BY <1>a, <1>b, <1>4 DEF ApplySettings, Apply
  <1>5. CASE BeginShutdown \/ StopListening
    BY <1>a, <1>b, <1>5 DEF BeginShutdown, StopListening, accessVars
  <1>6. CASE Restart
    <2>1. SessionsExact' BY <1>6 DEF Restart, ForgetAccess, SessionsExact
    <2>2. \A c \in Conns : verdict'[c] = NoVerdict BY <1>6 DEF Restart
    <2>3. Judged' BY <2>2, SetFree DEF Judged
    <2> QED BY <2>1, <2>3
  <1>7. CASE UNCHANGED vars BY <1>a, <1>b, <1>7 DEF vars, accessVars
  <1> QED BY <1>1, <1>2, <1>3, <1>4, <1>5, <1>6, <1>7 DEF Next

\* A session admits its user exactly while it is owed, for any number of users and
\* whatever the operator changes meanwhile: no reply is given on a session that was
\* signed out or had run out, and none is refused that still had time (SessionStore,
\* state.rs; authorize, admin/routes.rs).
THEOREM SessionsStayAsOwed == Spec => []SessionsAsOwed
  <1>1. Judged => SessionsAsOwed
    BY DEF Judged, SessionsAsOwed
  <1> QED BY <1>1, AdminTypes, SessionsInit, SessionsInductive, PTL DEF Spec

-----------------------------------------------------------------------------
(* What a stream has shown.                                                *)

Weight(frame) == IF frame[1] = "event" THEN 1 ELSE frame[2]

\* f is the running count of a stream's frames, the function Reached defines.
Tallies(f, from, frames) ==
  f = [n \in 0 .. Len(frames) |-> IF n = 0 THEN from ELSE f[n - 1] + Weight(frames[n])]

\* There is such a count, it ends where the receiver is, and says which event each
\* frame shows.
Accounted(x) ==
  /\ x.next \in 1 .. Len(sent) + 1
  /\ \E f : Tallies(f, x.from, x.frames)
  /\ \A f : Tallies(f, x.from, x.frames) =>
       /\ f[Len(x.frames)] = x.next
       /\ \A i \in 1 .. Len(x.frames) : x.frames[i][1] = "event" =>
            f[i - 1] \in 1 .. Len(sent) /\ x.frames[i][2] = sent[f[i - 1]]

StreamsAccounted ==
  \A c \in Conns : IF conn[c].at \in Subscribed THEN Accounted(conn[c]) ELSE conn[c].frames = <<>>

Frames == {"event", "lagged"} \X Nat

LEMMA ReachedTallies ==
  ASSUME NEW c \in Conns, \E f : Tallies(f, conn[c].from, conn[c].frames)
  PROVE  Tallies(Reached(c), conn[c].from, conn[c].frames)
  BY Zenon DEF Reached, Tallies, Weight

\* One more frame: a count of all is a count of those before, and goes on from it.
LEMMA TallyMore ==
  ASSUME NEW frames \in Seq(Frames), NEW fr \in Frames, NEW from,
         NEW g, Tallies(g, from, Append(frames, fr))
  PROVE  /\ Tallies([n \in 0 .. Len(frames) |-> g[n]], from, frames)
         /\ g[Len(frames) + 1] = g[Len(frames)] + Weight(fr)
  <1> DEFINE more == Append(frames, fr)
             h == [n \in 0 .. Len(frames) |-> g[n]]
  <1>1. /\ Len(frames) \in Nat /\ Len(more) = Len(frames) + 1
        /\ \A n \in 1 .. Len(frames) : more[n] = frames[n]
        /\ more[Len(frames) + 1] = fr
    OBVIOUS
  <1>2. \A n \in 0 .. Len(frames) + 1 : g[n] = IF n = 0 THEN from ELSE g[n - 1] + Weight(more[n])
    BY <1>1 DEF Tallies
  <1> HIDE DEF more
  <1>3. ASSUME NEW n \in 0 .. Len(frames)
        PROVE  h[n] = IF n = 0 THEN from ELSE h[n - 1] + Weight(frames[n])
    <2>1. CASE n = 0 BY <1>1, <1>2, <2>1
    <2>2. CASE n # 0
      <3>1. n \in 0 .. Len(frames) + 1 /\ n - 1 \in 0 .. Len(frames) /\ more[n] = frames[n]
        BY <1>1, <2>2
      <3>2. g[n] = g[n - 1] + Weight(frames[n]) BY <1>2, <2>2, <3>1
      <3> QED BY <2>2, <3>1, <3>2
    <2> QED BY <2>1, <2>2
  <1>4. h = [n \in 0 .. Len(frames) |-> IF n = 0 THEN from ELSE h[n - 1] + Weight(frames[n])]
    BY <1>3
  <1>5. g[Len(frames) + 1] = g[Len(frames)] + Weight(fr)
    <2>1. Len(frames) + 1 \in 0 .. Len(frames) + 1 /\ Len(frames) + 1 # 0 /\ (Len(frames) + 1) - 1 = Len(frames)
      BY <1>1
    <2> QED BY <1>1, <1>2, <2>1
  <1> QED BY <1>4, <1>5 DEF Tallies

LEMMA TallyExtends ==
  ASSUME NEW frames \in Seq(Frames), NEW fr \in Frames, NEW from,
         NEW f, Tallies(f, from, frames)
  PROVE  \E g : Tallies(g, from, Append(frames, fr))
  <1> DEFINE more == Append(frames, fr)
             g == [n \in 0 .. Len(frames) + 1 |->
                     IF n = Len(frames) + 1 THEN f[Len(frames)] + Weight(fr) ELSE f[n]]
  <1>1. /\ Len(frames) \in Nat /\ Len(more) = Len(frames) + 1
        /\ \A n \in 1 .. Len(frames) : more[n] = frames[n]
        /\ more[Len(frames) + 1] = fr
    OBVIOUS
  <1>2. \A n \in 0 .. Len(frames) : f[n] = IF n = 0 THEN from ELSE f[n - 1] + Weight(frames[n])
    BY DEF Tallies
  <1> HIDE DEF more
  <1>3. ASSUME NEW n \in 0 .. Len(frames) + 1
        PROVE  g[n] = IF n = 0 THEN from ELSE g[n - 1] + Weight(more[n])
    <2>1. CASE n = 0
      <3>1. 0 \in 0 .. Len(frames) /\ 0 # Len(frames) + 1 BY <1>1
      <3> QED BY <1>2, <2>1, <3>1
    <2>2. CASE n = Len(frames) + 1
      <3>1. n # 0 /\ n - 1 = Len(frames) /\ n - 1 \in 0 .. Len(frames) + 1 /\ n - 1 # Len(frames) + 1 BY <1>1, <2>2
      <3> QED BY <1>1, <2>2, <3>1
    <2>3. CASE n # 0 /\ n # Len(frames) + 1
      <3>1. n \in 0 .. Len(frames) /\ n - 1 \in 0 .. Len(frames) + 1 /\ n - 1 # Len(frames) + 1
            /\ n \in 1 .. Len(frames)
        BY <1>1, <2>3
      <3>2. g[n] = f[n] /\ g[n - 1] = f[n - 1] /\ more[n] = frames[n] BY <1>1, <2>3, <3>1
      <3> QED BY <1>2, <2>3, <3>1, <3>2
    <2> QED BY <2>1, <2>2, <2>3
  <1>4. g = [n \in 0 .. Len(more) |-> IF n = 0 THEN from ELSE g[n - 1] + Weight(more[n])]
    BY <1>1, <1>3
  <1> HIDE DEF g
  <1>5. Tallies(g, from, more) BY <1>4 DEF Tallies
  <1> QED BY <1>5 DEF more

\* A stream that has shown nothing has nothing to account for.
LEMMA NothingShown ==
  ASSUME NEW x, x.frames = <<>>, x.from = Len(sent) + 1, x.next = Len(sent) + 1, sent \in Seq(Nat)
  PROVE  Accounted(x)
  <1> DEFINE g == [n \in 0 .. Len(x.frames) |-> x.from]
  <1>1. Len(x.frames) = 0 /\ Len(sent) \in Nat OBVIOUS
  <1>2. g = [n \in 0 .. Len(x.frames) |-> IF n = 0 THEN x.from ELSE g[n - 1] + Weight(x.frames[n])]
    BY <1>1
  <1>3. \E f : Tallies(f, x.from, x.frames) BY <1>2 DEF Tallies
  <1>4. ASSUME NEW f, Tallies(f, x.from, x.frames) PROVE f[Len(x.frames)] = x.next
    BY <1>1, <1>4 DEF Tallies
  <1>5. x.next \in 1 .. Len(sent) + 1 /\ 1 .. Len(x.frames) = {} BY <1>1
  <1> QED BY <1>3, <1>4, <1>5 DEF Accounted

\* It stays accounted for when it shows the event that is next, or counts what it skips.
LEMMA OneFrameMore ==
  ASSUME NEW x \in Connection, Accounted(x), x.next <= Len(sent), sent \in Seq(Nat),
         NEW fr \in Frames, fr[1] = "event" => fr[2] = sent[x.next],
         NEW y, y.from = x.from, y.frames = Append(x.frames, fr),
         y.next = x.next + Weight(fr), y.next \in 1 .. Len(sent) + 1
  PROVE  Accounted(y)
  <1> DEFINE frames == x.frames
             more == Append(frames, fr)
  <1>1. /\ frames \in Seq(Frames) /\ Len(frames) \in Nat /\ Len(more) = Len(frames) + 1
        /\ \A n \in 1 .. Len(frames) : more[n] = frames[n]
        /\ more[Len(frames) + 1] = fr
    BY DEF Connection, Frames
  <1>a. x.next \in 1 .. Len(sent) /\ y.frames = more BY DEF Accounted
  <1> HIDE DEF more
  <1>2. \E g : Tallies(g, y.from, y.frames) BY <1>1, TallyExtends DEF Accounted
  <1>3. ASSUME NEW g, Tallies(g, y.from, more)
        PROVE  /\ g[Len(more)] = y.next
               /\ \A i \in 1 .. Len(more) : more[i][1] = "event" =>
                    g[i - 1] \in 1 .. Len(sent) /\ more[i][2] = sent[g[i - 1]]
    <2> DEFINE h == [n \in 0 .. Len(frames) |-> g[n]]
    <2>1. Tallies(h, x.from, frames) /\ g[Len(frames) + 1] = g[Len(frames)] + Weight(fr)
      <3>1. Tallies(g, x.from, Append(frames, fr)) BY <1>3 DEF more
      <3> HIDE DEF frames
      <3> QED BY <1>1, <3>1, TallyMore, Zenon
    <2>2. \A n \in 0 .. Len(frames) : h[n] = g[n] OBVIOUS
    <2> HIDE DEF h
    <2>3. /\ h[Len(frames)] = x.next
          /\ \A i \in 1 .. Len(frames) : frames[i][1] = "event" =>
               h[i - 1] \in 1 .. Len(sent) /\ frames[i][2] = sent[h[i - 1]]
      BY <2>1 DEF Accounted
    <2>4. g[Len(frames)] = x.next
      <3>1. Len(frames) \in 0 .. Len(frames) BY <1>1
      <3> QED BY <2>2, <2>3, <3>1
    <2>5. ASSUME NEW i \in 1 .. Len(more), more[i][1] = "event"
          PROVE  g[i - 1] \in 1 .. Len(sent) /\ more[i][2] = sent[g[i - 1]]
      <3>1. CASE i = Len(frames) + 1
        <4>1. i - 1 = Len(frames) /\ more[i] = fr BY <1>1, <3>1
        <4> QED BY <1>a, <2>4, <2>5, <4>1
      <3>2. CASE i # Len(frames) + 1
        <4>1. i \in 1 .. Len(frames) /\ i - 1 \in 0 .. Len(frames) /\ more[i] = frames[i] BY <1>1, <3>2
        <4>2. h[i - 1] = g[i - 1] BY <2>2, <4>1
        <4> QED BY <2>3, <2>5, <4>1, <4>2
      <3> QED BY <3>1, <3>2
    <2>6. g[Len(more)] = y.next BY <1>1, <2>1, <2>4
    <2> QED BY <2>5, <2>6
  <1> QED BY <1>a, <1>2, <1>3 DEF Accounted

\* What has been sent stays where it is in the channel.
LEMMA OneEventMore ==
  ASSUME NEW x, Accounted(x), sent \in Seq(Nat), NEW e, sent' = Append(sent, e)
  PROVE  /\ x.next \in 1 .. Len(sent') + 1
         /\ \E f : Tallies(f, x.from, x.frames)
         /\ \A f : Tallies(f, x.from, x.frames) =>
              /\ f[Len(x.frames)] = x.next
              /\ \A i \in 1 .. Len(x.frames) : x.frames[i][1] = "event" =>
                   f[i - 1] \in 1 .. Len(sent') /\ x.frames[i][2] = sent'[f[i - 1]]
  <1>1. /\ Len(sent) \in Nat /\ Len(sent') = Len(sent) + 1
        /\ \A j \in 1 .. Len(sent) : sent'[j] = sent[j]
    OBVIOUS
  <1>2. \A j \in 1 .. Len(sent) : j \in 1 .. Len(sent') BY <1>1
  <1>3. x.next \in 1 .. Len(sent') + 1 BY <1>1 DEF Accounted
  <1> QED BY <1>1, <1>2, <1>3 DEF Accounted

LEMMA StreamsInit == Init => StreamsAccounted
  <1> SUFFICES ASSUME Init PROVE StreamsAccounted
    OBVIOUS
  <1>1. \A c \in Conns : conn[c].at = "free" /\ conn[c].frames = <<>>
    BY SetFree DEF Init
  <1> QED BY <1>1 DEF StreamsAccounted, Subscribed, Streaming

LEMMA SubscribeAccounts ==
  ASSUME TypeOK, StreamsAccounted, NEW c \in Conns, Subscribe(c)
  PROVE  /\ conn'[c].at \in Subscribed /\ Accounted(conn'[c])
         /\ \A d \in Conns \ {c} : conn'[d] = conn[d]
  <1> DEFINE n == Len(sent) + 1
  <1>1. conn' = [conn EXCEPT ![c].at = "watch", ![c].from = n, ![c].next = n]
    BY DEF Subscribe
  <1> HIDE DEF n
  <1>2. conn[c] \in Connection /\ conn[c].frames = <<>>
    BY DEF TypeOK, StreamsAccounted, Subscribe, At, Subscribed
  <1>3. /\ conn'[c].at = "watch" /\ conn'[c].frames = <<>>
        /\ conn'[c].from = n /\ conn'[c].next = n
        /\ \A d \in Conns \ {c} : conn'[d] = conn[d]
    BY <1>1, <1>2 DEF TypeOK, Connection
  <1>4. Accounted(conn'[c]) BY <1>3, NothingShown DEF n, TypeOK
  <1> QED BY <1>3, <1>4 DEF Subscribed, Streaming

LEMMA WriteAccounts ==
  ASSUME TypeOK, StreamsAccounted, NEW c \in Conns, Watch(c) \/ Beat(c) \/ Written(c)
  PROVE  /\ conn'[c].at \in Subscribed /\ Accounted(conn'[c])
         /\ \A d \in Conns \ {c} : conn'[d] = conn[d]
  <1>1. /\ conn[c].at \in Subscribed /\ conn'[c].at \in Subscribed
        /\ conn'[c].from = conn[c].from /\ conn'[c].next = conn[c].next
        /\ conn'[c].frames = conn[c].frames
        /\ \A d \in Conns \ {c} : conn'[d] = conn[d]
    BY WriteMoves
  <1>2. Accounted(conn[c]) BY <1>1 DEF StreamsAccounted
  <1>x. PICK x : x = conn[c] OBVIOUS
  <1>y. PICK y : y = conn'[c] OBVIOUS
  <1>3. Accounted(x) /\ y.from = x.from /\ y.next = x.next /\ y.frames = x.frames
    BY <1>1, <1>2, <1>x, <1>y
  <1>4. Accounted(y) BY <1>3 DEF Accounted
  <1> QED BY <1>1, <1>4, <1>y

LEMMA StreamAccounts ==
  ASSUME TypeOK, StreamsAccounted, NEW c \in Conns, Stream(c)
  PROVE  /\ conn'[c].at \in Subscribed /\ Accounted(conn'[c])
         /\ \A d \in Conns \ {c} : conn'[d] = conn[d]
  <1>1. /\ conn[c] \in Connection /\ conn[c].at = "stream" /\ Accounted(conn[c])
        /\ conn[c].next \in 1 .. Len(sent) /\ sent[conn[c].next] \in Nat /\ sent \in Seq(Nat)
        /\ Len(sent) \in Nat
    BY DEF TypeOK, StreamsAccounted, Stream, At, Connection, Subscribed, Streaming
  <1>2. PICK fr \in Frames, n \in 1 .. Len(sent) + 1 :
          /\ Shows(c, fr, n) /\ n = conn[c].next + Weight(fr)
          /\ fr[1] = "event" => fr[2] = sent[conn[c].next]
    <2>1. CASE Lag(c) > 0
      <3>1. Lag(c) \in Nat /\ conn[c].next + Lag(c) \in 1 .. Len(sent) + 1
        <4> DEFINE n == conn[c].next
                   l == Len(sent)
        <4>1. n \in Nat /\ l \in Nat /\ n >= 1 /\ n <= l /\ Capacity \in Nat \ {0} /\ l - Capacity - n + 1 > 0
          BY <1>1, <2>1, AdminHttpAssumption DEF Lag
        <4> HIDE DEF n, l
        <4>2. (l - Capacity - n + 1) \in Nat /\ n + (l - Capacity - n + 1) \in 1 .. l + 1 BY <4>1
        <4> QED BY <4>2 DEF n, l, Lag
      <3>2. Shows(c, <<"lagged", Lag(c)>>, conn[c].next + Lag(c)) BY <2>1 DEF Stream
      <3>3. <<"lagged", Lag(c)>> \in Frames /\ Weight(<<"lagged", Lag(c)>>) = Lag(c)
        BY <3>1 DEF Frames, Weight
      <3> QED BY <3>1, <3>2, <3>3
    <2>2. CASE ~(Lag(c) > 0)
      <3>1. Shows(c, <<"event", sent[conn[c].next]>>, conn[c].next + 1) BY <2>2 DEF Stream
      <3>2. /\ <<"event", sent[conn[c].next]>> \in Frames
            /\ Weight(<<"event", sent[conn[c].next]>>) = 1
        BY <1>1 DEF Frames, Weight
      <3>3. conn[c].next + 1 \in 1 .. Len(sent) + 1 BY <1>1
      <3> QED BY <3>1, <3>2, <3>3
    <2> QED BY <2>1, <2>2
  <1>3. conn' = [conn EXCEPT ![c].at = "writing", ![c].frames = Append(@, fr), ![c].next = n]
    BY <1>2 DEF Shows
  <1>4. /\ conn'[c].at = "writing" /\ conn'[c].frames = Append(conn[c].frames, fr)
        /\ conn'[c].from = conn[c].from /\ conn'[c].next = n
        /\ \A d \in Conns \ {c} : conn'[d] = conn[d]
    BY <1>1, <1>3 DEF TypeOK, Connection
  <1>y. PICK y : y = conn'[c] OBVIOUS
  <1>x. PICK x : x = conn[c] OBVIOUS
  <1>6. /\ x \in Connection /\ Accounted(x) /\ x.next <= Len(sent) /\ y.next \in 1 .. Len(sent) + 1
        /\ fr[1] = "event" => fr[2] = sent[x.next]
        /\ y.from = x.from /\ y.frames = Append(x.frames, fr) /\ y.next = x.next + Weight(fr)
    BY <1>1, <1>2, <1>4, <1>x, <1>y
  <1>5. Accounted(y) BY <1>1, <1>6, OneFrameMore
  <1> QED BY <1>4, <1>5, <1>y DEF Subscribed, Streaming

LEMMA StreamsInductive == TypeOK /\ StreamsAccounted /\ [Next]_vars => StreamsAccounted'
  <1> SUFFICES ASSUME TypeOK, StreamsAccounted, [Next]_vars PROVE StreamsAccounted'
    OBVIOUS
  <1>a. ASSUME UNCHANGED <<conn, sent>> PROVE StreamsAccounted'
    BY <1>a DEF StreamsAccounted, Accounted
  <1>o. ASSUME NEW c \in Conns, UNCHANGED sent, \A d \in Conns \ {c} : conn'[d] = conn[d],
               IF conn'[c].at \in Subscribed THEN Accounted(conn'[c]) ELSE conn'[c].frames = <<>>
        PROVE  StreamsAccounted'
    <2>1. \A x : Accounted(x)' <=> Accounted(x) BY <1>o DEF Accounted
    <2> QED BY <1>o, <2>1 DEF StreamsAccounted
  <1>b. ASSUME NEW c \in Conns, NEW P, MovesTo(c, P), P \cap Subscribed = {},
               conn[c].at \notin Subscribed, UNCHANGED sent
        PROVE  StreamsAccounted'
    <2>1. /\ conn'[c].at \notin Subscribed /\ conn'[c].frames \in {conn[c].frames, <<>>}
          /\ \A d \in Conns \ {c} : conn'[d] = conn[d]
      BY <1>b DEF MovesTo, TypeOK
    <2> QED BY <1>b, <1>o, <2>1 DEF StreamsAccounted
  <1>c. ASSUME NEW c \in Conns, Ends(c), UNCHANGED sent PROVE StreamsAccounted'
    <2>1. conn'[c] = Free /\ \A d \in Conns \ {c} : conn'[d] = conn[d] BY <1>c DEF Ends, TypeOK
    <2> QED BY <1>c, <1>o, <2>1, SetFree DEF Subscribed, Streaming
  <1>d. ASSUME NEW c \in Conns, UNCHANGED sent, conn'[c].at \in Subscribed, Accounted(conn'[c]),
               \A d \in Conns \ {c} : conn'[d] = conn[d]
        PROVE  StreamsAccounted'
    BY <1>d, <1>o
  <1>1. ASSUME NEW c \in Conns, Serve(c) PROVE StreamsAccounted'
    <2>1. CASE Accept(c) BY <1>b, <2>1, AcceptMoves DEF Accept, At, busVars, Subscribed, Streaming
    <2>2. CASE Read(c) BY <1>b, <2>2, ReadMoves DEF Read, At, busVars, Subscribed, Streaming
    <2>3. CASE EndReading(c) BY <1>c, <2>3 DEF EndReading, busVars
    <2>4. CASE Leave(c) BY <1>a, <2>4 DEF Leave, busVars
    <2>5. CASE Handle(c)
      <3>1. CASE Route(c) BY <1>b, <3>1, RouteMoves DEF Route, At, busVars, Subscribed, Streaming
      <3>2. CASE AuthorizeCookie(c) BY <1>b, <3>2, AuthorizeMoves DEF AuthorizeCookie, At, busVars, Subscribed, Streaming
      <3>3. CASE AuthorizeToken(c) BY <1>b, <3>3, AuthorizeMoves DEF AuthorizeToken, At, busVars, Subscribed, Streaming
      <3>4. CASE SessionStatus(c) BY <1>b, <3>4, AuthorizeMoves DEF SessionStatus, At, busVars, Subscribed, Streaming
      <3>5. CASE Logout(c) BY <1>b, <3>5, AuthorizeMoves DEF Logout, At, busVars, Subscribed, Streaming
      <3>6. CASE LoginCheck(c) BY <1>b, <3>6, LoginMoves DEF LoginCheck, At, busVars, Subscribed, Streaming
      <3>7. CASE LoginVerify(c) BY <1>b, <3>7, LoginMoves DEF LoginVerify, At, busVars, Subscribed, Streaming
      <3>8. CASE LoginCreate(c) BY <1>b, <3>8, LoginMoves DEF LoginCreate, At, busVars, Subscribed, Streaming
      <3>9. CASE Reply(c) BY <1>b, <3>9, ReplyMoves DEF Reply, At, busVars, Subscribed, Streaming
      <3> QED BY <2>5, <3>1, <3>2, <3>3, <3>4, <3>5, <3>6, <3>7, <3>8, <3>9 DEF Handle
    <2>6. CASE Subscribe(c) BY <1>d, <2>6, SubscribeAccounts DEF Subscribe, busVars
    <2>7. CASE Stream(c) BY <1>d, <2>7, StreamAccounts DEF Stream, busVars
    <2>8. CASE WriteFails(c) \/ StopStream(c) BY <1>c, <2>8 DEF WriteFails, StopStream, busVars
    <2>9. CASE Watch(c) \/ Beat(c) \/ Written(c)
      BY <1>d, <2>9, WriteAccounts DEF Watch, Beat, Written, busVars
    <2>10. CASE Pause(c) BY <1>a, <2>10 DEF Pause, busVars
    <2> QED BY <1>1, <2>1, <2>2, <2>3, <2>4, <2>5, <2>6, <2>7, <2>8, <2>9, <2>10 DEF Serve
  <1>2. ASSUME NEW p \in Publishers, Take(p) PROVE StreamsAccounted'
    BY <1>a, <1>2 DEF Take
  <1>3. ASSUME NEW p \in Publishers, Send(p) PROVE StreamsAccounted'
    <2>1. conn' = conn /\ sent' = Append(sent, taken[p]) BY <1>3 DEF Send
    <2>2. ASSUME NEW c \in Conns, conn[c].at \in Subscribed PROVE Accounted(conn[c])'
      <3>1. Accounted(conn[c]) /\ sent \in Seq(Nat) BY <2>2 DEF StreamsAccounted, TypeOK
      <3>2. conn'[c] = conn[c] BY <2>1
      <3>x. PICK x : x = conn[c] OBVIOUS
      <3>3. /\ x.next \in 1 .. Len(sent') + 1
            /\ \E f : Tallies(f, x.from, x.frames)
            /\ \A f : Tallies(f, x.from, x.frames) =>
                 /\ f[Len(x.frames)] = x.next
                 /\ \A i \in 1 .. Len(x.frames) : x.frames[i][1] = "event" =>
                      f[i - 1] \in 1 .. Len(sent') /\ x.frames[i][2] = sent'[f[i - 1]]
        BY <2>1, <3>1, <3>x, OneEventMore
      <3> QED BY <3>2, <3>3, <3>x DEF Accounted
    <2>3. \A c \in Conns : conn'[c] = conn[c] BY <2>1
    <2> QED BY <2>1, <2>2, <2>3 DEF StreamsAccounted
  <1>4. CASE Time BY <1>a, <1>4 DEF Time, busVars
  <1>5. CASE ApplySettings BY <1>a, <1>5 DEF ApplySettings, busVars
  <1>6. CASE BeginShutdown \/ StopListening BY <1>a, <1>6 DEF BeginShutdown, StopListening, busVars
  <1>7. CASE Restart
    <2>1. \A c \in Conns : conn'[c] = Free BY <1>7 DEF Restart
    <2> QED BY <2>1, SetFree DEF StreamsAccounted, Subscribed, Streaming
  <1>8. CASE UNCHANGED vars BY <1>a, <1>8 DEF vars, busVars
  <1> QED BY <1>1, <1>2, <1>3, <1>4, <1>5, <1>6, <1>7, <1>8 DEF Next

\* Every event sent while a stream is open has been shown on it in its order, is counted
\* by a notice in its place or is still to come, however far the client falls behind and
\* whatever publishers race to send (stream_events, admin/http.rs; EventBus, events.rs).
THEOREM NoEventUnaccounted == Spec => []NoSilentGap
  <1>1. StreamsAccounted => NoSilentGap
    <2> SUFFICES ASSUME StreamsAccounted, NEW c \in Conns, conn[c].at \in Subscribed
                 PROVE  LET frames == conn[c].frames IN
                        /\ Reached(c)[Len(frames)] = conn[c].next
                        /\ \A i \in 1 .. Len(frames) :
                             frames[i][1] = "event" => frames[i][2] = sent[Reached(c)[i - 1]]
      BY DEF NoSilentGap
    <2>1. Accounted(conn[c]) BY DEF StreamsAccounted
    <2>2. Tallies(Reached(c), conn[c].from, conn[c].frames)
      BY <2>1, ReachedTallies DEF Accounted
    <2> QED BY <2>1, <2>2 DEF Accounted
  <1> QED BY <1>1, AdminTypes, StreamsInit, StreamsInductive, PTL DEF Spec
=============================================================================
