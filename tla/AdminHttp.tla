----------------------------- MODULE AdminHttp -----------------------------
(***************************************************************************)
(* The connections of the admin API: the HTTP server (admin/http.rs), the  *)
(* path of a request through the router (admin/routes.rs) by the rules of  *)
(* AdminAccess, and the event stream a dashboard holds open, fed by the    *)
(* bus of events.rs.  What a route does once it has admitted the request   *)
(* belongs to the components it calls.                                     *)
(***************************************************************************)
EXTENDS AdminAccess, Sequences

CONSTANTS
  Conns,       \* connections open at most
  Requests,    \* the requests clients send
  Publishers,  \* tasks that publish events
  MaxEvents,   \* events of a behaviour
  Capacity     \* CHANNEL_CAPACITY

ASSUME AdminHttpAssumption ==
  /\ IsFiniteSet(Conns) /\ MaxEvents \in Nat /\ Capacity \in Nat \ {0}
  /\ \A r \in Requests : r.cookie \in Tokens \cup {NoToken}

VARIABLES
  conn,      \* of each connection: where its task is, and its locals
  client,    \* whether its client reads, has stopped reading, or has gone
  sent,      \* the channel: sequence numbers in the order they were sent
  sequence,  \* EventBus.sequence
  taken,     \* of each publisher: the number it has taken and not yet sent
  stopping,  \* the shutdown watch
  listening, \* the server has not taken the stop yet
  verdict    \* how a request was answered, and what was due; read by properties only

vars == <<accessVars, conn, client, sent, sequence, taken, stopping, listening, verdict>>
busVars == <<sent, sequence, taken>>

Request(kind, cookie, token, password, close) ==
  [kind |-> kind, cookie |-> cookie, token |-> token, password |-> password, close |-> close]

Nothing == Request("none", NoToken, NoToken, Unset, FALSE)
NoPolicy == [networks |-> {}, password |-> Unset, token |-> Unset]

\* PUBLIC_PATHS; "health" stands for the probes, the page and its icon.
Public == {"health", "status", "login", "logout"}

(* at: where the task is; policy: the settings it cloned last;             *)
(* next: the event its receiver reads next; from: the first it may show;   *)
(* frames: what the stream has shown, the last one perhaps only to be      *)
(* written yet; late: it began to watch for the shutdown after it.         *)
Free == [at |-> "free", addr |-> "none", req |-> Nothing, policy |-> NoPolicy,
         from |-> 0, next |-> 0, frames |-> <<>>, late |-> FALSE]

NoVerdict == [admitted |-> FALSE, due |-> FALSE]
None == -1

Init ==
  /\ AccessInit
  /\ conn = [c \in Conns |-> Free]
  /\ client = [c \in Conns |-> "reads"]
  /\ sent = <<>> /\ sequence = 0 /\ taken = [p \in Publishers |-> None]
  /\ stopping = FALSE /\ listening = TRUE
  /\ verdict = [c \in Conns |-> NoVerdict]

Gone(c) == client[c] = "gone"
Stuck(c) == client[c] = "stuck"

At(c, place) == conn[c].at = place
Goes(c, place) == conn' = [conn EXCEPT ![c].at = place]
Ends(c) ==
  /\ conn' = [conn EXCEPT ![c] = Free]
  /\ client' = [client EXCEPT ![c] = "reads"]
  /\ verdict' = [verdict EXCEPT ![c] = NoVerdict]

-----------------------------------------------------------------------------
(* serve_connection and read_request *)

\* A stop announced is one of the two things select! may take; a connection that came
\* in the meantime is the other.
StopListening ==
  /\ listening /\ stopping /\ listening' = FALSE
  /\ UNCHANGED <<accessVars, conn, client, busVars, stopping, verdict>>

Accept(c) ==
  /\ At(c, "free") /\ listening
  /\ \E a \in Addresses : conn' = [conn EXCEPT ![c] = [Free EXCEPT !.at = "reading", !.addr = a]]
  /\ UNCHANGED <<accessVars, client, busVars, stopping, listening, verdict>>

\* A TLS client, a clean close, an idle timeout, a truncated or unreadable
\* request (answered 400): each ends the connection.
EndReading(c) ==
  /\ At(c, "reading")
  /\ Ends(c)
  /\ UNCHANGED <<accessVars, busVars, stopping, listening>>

\* A client sends only tokens it was given; with the tokens of the model
\* handed out, or being handed out, nobody else signs in.
Spare ==
  Cardinality(Tokens \ issued)
    > Cardinality({c \in Conns : conn[c].at \in {"route", "login", "verify", "create"}
                                 /\ conn[c].req.kind = "login"})

Read(c) ==
  /\ At(c, "reading")
  /\ \E r \in Requests :
       /\ {r.cookie, r.token} \cap Tokens \subseteq issued
       /\ r.kind = "login" => Spare
       /\ conn' = [conn EXCEPT ![c].at = "route", ![c].req = r]
  /\ verdict' = [verdict EXCEPT ![c] = NoVerdict]
  /\ UNCHANGED <<accessVars, client, busVars, stopping, listening>>

\* The reply is written; the connection is kept unless the client said close
\* or has left.
Reply(c) ==
  /\ At(c, "reply")
  /\ IF conn[c].req.close \/ Gone(c)
       THEN Ends(c)
       ELSE conn' = [conn EXCEPT ![c].at = "reading", ![c].req = Nothing, ![c].policy = NoPolicy]
            /\ verdict' = [verdict EXCEPT ![c] = NoVerdict]
            /\ UNCHANGED client
  /\ UNCHANGED <<accessVars, busVars, stopping, listening>>

\* The places of a stream, from its head on.
Streaming == {"head", "watch", "writing", "stream"}

\* That its client has gone a task finds out when it writes.
Leave(c) ==
  /\ conn[c].at \in Streaming \cup {"reply"} /\ ~Gone(c)
  /\ client' = [client EXCEPT ![c] = "gone"]
  /\ UNCHANGED <<accessVars, conn, busVars, stopping, listening, verdict>>

\* The client of a stream stops reading, until the buffers between them are full, or
\* reads again.
Pause(c) ==
  /\ conn[c].at \in Streaming /\ ~Gone(c)
  /\ client' = [client EXCEPT ![c] = IF Stuck(c) THEN "reads" ELSE "stuck"]
  /\ UNCHANGED <<accessVars, conn, busVars, stopping, listening, verdict>>

-----------------------------------------------------------------------------
(* route *)

Destination(kind) ==
  CASE kind = "login" -> "login" [] kind = "logout" -> "logout"
    [] kind = "status" -> "status" [] OTHER -> "reply"

\* The preflight needs no address; a public path needs no session.
Route(c) ==
  /\ At(c, "route")
  /\ LET r == conn[c].req
     IN  Goes(c, IF r.kind = "preflight" \/ ~NetworkAllowed(policy, conn[c].addr) THEN "reply"
                 ELSE IF r.kind \in Public THEN Destination(r.kind) ELSE "authorize")
  /\ UNCHANGED <<accessVars, client, busVars, stopping, listening, verdict>>

Admit(c) == IF conn[c].req.kind = "events" THEN "head" ELSE "reply"

Judge(c, admitted, due) ==
  verdict' = [verdict EXCEPT ![c] = [admitted |-> admitted, due |-> due]]

\* authorize, up to the cookie: the settings are cloned anew.
AuthorizeCookie(c) ==
  /\ At(c, "authorize")
  /\ LET cookie == conn[c].req.cookie
     IN  IF cookie = NoToken
           THEN /\ conn' = [conn EXCEPT ![c].at = "token", ![c].policy = policy]
                /\ UNCHANGED <<sessions, unused, verdict>>
           ELSE /\ Username(cookie)
                /\ conn' = [conn EXCEPT ![c].at = IF Known(cookie) THEN Admit(c) ELSE "token",
                                        ![c].policy = policy]
                /\ IF Known(cookie) \/ life[cookie] = "live"
                     THEN Judge(c, Known(cookie), life[cookie] = "live")
                     ELSE UNCHANGED verdict
  /\ UNCHANGED <<policy, attempts, issued, life, wrong, client, busVars, stopping, listening>>

\* The token it presents may be the API token or a session's.
AuthorizeToken(c) ==
  /\ At(c, "token")
  /\ LET p == conn[c].policy
         token == conn[c].req.token
         byRule == WithoutSession(p, conn[c].addr, token)
         asked == token # NoToken /\ ~IsSecret(p, token)
         admitted == byRule \/ (asked /\ Known(token))
     IN  /\ IF asked THEN Username(token) ELSE UNCHANGED <<sessions, unused>>
         /\ Goes(c, IF admitted THEN Admit(c) ELSE "reply")
         /\ Judge(c, admitted, \/ byRule \/ verdict[c].due
                               \/ asked /\ token \in Tokens /\ life[token] = "live")
  /\ UNCHANGED <<policy, attempts, issued, life, wrong, client, busVars, stopping, listening>>

\* session_status refreshes the session it reports.
SessionStatus(c) ==
  /\ At(c, "status")
  /\ LET cookie == conn[c].req.cookie
     IN  IF cookie = NoToken
           THEN UNCHANGED <<sessions, unused, verdict>>
           ELSE Username(cookie) /\ Judge(c, Known(cookie), life[cookie] = "live")
  /\ Goes(c, "reply")
  /\ UNCHANGED <<policy, attempts, issued, life, wrong, client, busVars, stopping, listening>>

Logout(c) ==
  /\ At(c, "logout")
  /\ IF conn[c].req.cookie = NoToken
       THEN UNCHANGED <<sessions, life>> ELSE Revoke(conn[c].req.cookie)
  /\ Goes(c, "reply")
  /\ UNCHANGED <<policy, attempts, issued, unused, wrong, client, busVars, stopping, listening, verdict>>

-----------------------------------------------------------------------------
(* login *)

\* Refused while the address is blocked, or when no password is set.
LoginCheck(c) ==
  /\ At(c, "login")
  /\ IF LoginRequired(policy)
       THEN /\ Check(conn[c].addr)
            /\ conn' = [conn EXCEPT ![c].at = IF Blocked(conn[c].addr) THEN "reply" ELSE "verify",
                                    ![c].policy = policy]
       ELSE Goes(c, "reply") /\ UNCHANGED <<attempts, wrong>>
  /\ UNCHANGED <<policy, sessions, issued, life, unused, client, busVars, stopping, listening, verdict>>

LoginVerify(c) ==
  /\ At(c, "verify")
  /\ IF conn[c].req.password = conn[c].policy.password
       THEN Success(conn[c].addr) /\ Goes(c, "create")
       ELSE Fail(conn[c].addr) /\ Goes(c, "reply")
  /\ UNCHANGED <<policy, sessions, issued, life, unused, client, busVars, stopping, listening, verdict>>

LoginCreate(c) ==
  /\ At(c, "create")
  /\ \E t \in Tokens : Create(t)
  /\ Goes(c, "reply")
  /\ UNCHANGED <<policy, attempts, wrong, client, busVars, stopping, listening, verdict>>

-----------------------------------------------------------------------------
(* EventBus and stream_events *)

\* publish numbers the event, then sends it.
Take(p) ==
  /\ taken[p] = None /\ sequence < MaxEvents
  /\ taken' = [taken EXCEPT ![p] = sequence]
  /\ sequence' = sequence + 1
  /\ UNCHANGED <<accessVars, conn, client, sent, stopping, listening, verdict>>

Send(p) ==
  /\ taken[p] # None
  /\ sent' = Append(sent, taken[p])
  /\ taken' = [taken EXCEPT ![p] = None]
  /\ UNCHANGED <<accessVars, conn, client, sequence, stopping, listening, verdict>>

\* The head is written, then the receiver is made.
Subscribe(c) ==
  /\ At(c, "head") /\ ~Stuck(c)
  /\ conn' = [conn EXCEPT ![c].at = "watch",
                          ![c].from = Len(sent) + 1, ![c].next = Len(sent) + 1]
  /\ UNCHANGED <<accessVars, client, busVars, stopping, listening, verdict>>

\* Then it watches for the shutdown, and writes ": connected".
Watch(c) ==
  /\ At(c, "watch")
  /\ conn' = [conn EXCEPT ![c].at = "writing", ![c].late = stopping]
  /\ UNCHANGED <<accessVars, client, busVars, stopping, listening, verdict>>

Lag(c) == Len(sent) - Capacity - conn[c].next + 1

Shows(c, frame, next) ==
  conn' = [conn EXCEPT ![c].at = "writing", ![c].frames = Append(@, frame), ![c].next = next]

\* Faulty variant for NoSilentGap: a client that fell behind is not told.
StreamSilent(c) ==
  /\ At(c, "stream") /\ conn[c].next <= Len(sent)
  /\ IF Lag(c) > 0
       THEN conn' = [conn EXCEPT ![c].next = @ + Lag(c)]
       ELSE Shows(c, <<"event", sent[conn[c].next]>>, conn[c].next + 1)
  /\ UNCHANGED <<accessVars, client, busVars, stopping, listening, verdict>>

\* recv: the next event, or how many were dropped before it.
Stream(c) ==
  /\ At(c, "stream") /\ conn[c].next <= Len(sent)
  /\ IF Lag(c) > 0
       THEN Shows(c, <<"lagged", Lag(c)>>, conn[c].next + Lag(c))
       ELSE Shows(c, <<"event", sent[conn[c].next]>>, conn[c].next + 1)
  /\ UNCHANGED <<accessVars, client, busVars, stopping, listening, verdict>>

\* Faulty variant for StreamsEnd: whether the ping could be written is not looked at.
BeatUnheard(c) == At(c, "stream") /\ UNCHANGED vars

\* No event came for a while: a ping.
Beat(c) ==
  /\ At(c, "stream") /\ Goes(c, "writing")
  /\ UNCHANGED <<accessVars, client, busVars, stopping, listening, verdict>>

\* A write waits for a client that does not read, and may succeed for a time although
\* the client has gone.
Written(c) ==
  /\ At(c, "writing") /\ ~Stuck(c) /\ Goes(c, "stream")
  /\ UNCHANGED <<accessVars, client, busVars, stopping, listening, verdict>>

WriteFails(c) ==
  /\ conn[c].at \in {"head", "writing"} /\ Gone(c)
  /\ Ends(c)
  /\ UNCHANGED <<accessVars, busVars, stopping, listening>>

\* The stop is noticed where the task waits, if it watched before it.
StopStream(c) ==
  /\ At(c, "stream") /\ stopping /\ ~conn[c].late
  /\ Ends(c)
  /\ UNCHANGED <<accessVars, busVars, stopping, listening>>

-----------------------------------------------------------------------------
Time == Tick /\ UNCHANGED <<conn, client, busVars, stopping, listening, verdict>>

ApplySettings == Apply /\ UNCHANGED <<conn, client, busVars, stopping, listening, verdict>>

BeginShutdown ==
  /\ ~stopping /\ stopping' = TRUE
  /\ UNCHANGED <<accessVars, conn, client, busVars, listening, verdict>>

\* The process ends, after a shutdown or without one, and is started again.
Restart ==
  /\ ForgetAccess
  /\ conn' = [c \in Conns |-> Free]
  /\ client' = [c \in Conns |-> "reads"]
  /\ verdict' = [c \in Conns |-> NoVerdict]
  /\ sent' = <<>> /\ sequence' = 0 /\ taken' = [p \in Publishers |-> None]
  /\ stopping' = FALSE /\ listening' = TRUE

Handle(c) ==
  \/ Route(c) \/ AuthorizeCookie(c) \/ AuthorizeToken(c)
  \/ SessionStatus(c) \/ Logout(c)
  \/ LoginCheck(c) \/ LoginVerify(c) \/ LoginCreate(c)
  \/ Reply(c)

Serve(c) ==
  \/ Accept(c) \/ Read(c) \/ EndReading(c) \/ Leave(c) \/ Pause(c)
  \/ Handle(c)
  \/ Subscribe(c) \/ Watch(c) \/ Stream(c) \/ Beat(c)
  \/ Written(c) \/ WriteFails(c) \/ StopStream(c)

Next ==
  \/ \E c \in Conns : Serve(c)
  \/ \E p \in Publishers : Take(p) \/ Send(p)
  \/ Time \/ ApplySettings \/ BeginShutdown \/ StopListening \/ Restart

Spec == Init /\ [][Next]_vars

\* Clocks run.
ClockSpec == Spec /\ WF_vars(Time)

\* The scheduler runs every task that can run, and the timer of the heartbeat; select!
\* picks at random among what is ready, so a stop that stays ready is taken; and of the
\* writes to a client that has gone, not all succeed.
StreamSpec ==
  /\ Spec
  /\ \A c \in Conns :
       /\ WF_vars(Subscribe(c) \/ Watch(c) \/ Written(c)) /\ WF_vars(Beat(c))
       /\ SF_vars(WriteFails(c)) /\ SF_vars(StopStream(c))

-----------------------------------------------------------------------------
(* Properties *)

Places == {"free", "reading", "route", "authorize", "token", "status", "logout",
           "login", "verify", "create", "reply"} \cup Streaming

Connection ==
  [at : Places, addr : Addresses \cup {"none"}, req : Requests \cup {Nothing},
   policy : Policies \cup {NoPolicy}, from : Nat, next : Nat,
   frames : Seq({"event", "lagged"} \X Nat), late : BOOLEAN]

\* The places where a stream has its receiver.
Subscribed == Streaming \ {"head"}

\* Type invariant of the sessions and the brake (state.rs).
AccessTypes ==
  /\ policy \in Policies /\ issued \subseteq Tokens
  /\ DOMAIN sessions \subseteq issued
  /\ sessions \in [DOMAIN sessions -> 0 .. SessionTicks]
  /\ DOMAIN attempts \subseteq Addresses
  /\ attempts \in [DOMAIN attempts -> [failures : Nat, until : Unblocked .. BlockTicks]]
  /\ life \in [Tokens -> {"unborn", "live", "over"}]
  /\ unused \in [Tokens -> 0 .. SessionTicks - 1]
  /\ wrong \in [Addresses -> Nat]

\* Type invariant of the connections and of what they share (http.rs, events.rs):
\* a connection in use has an address, and a stream is somewhere in the channel.
TypeOK ==
  /\ AccessTypes
  /\ conn \in [Conns -> Connection]
  /\ \A c \in Conns : conn[c].at # "free" => conn[c].addr \in Addresses
  /\ \A c \in Conns : conn[c].at \in Subscribed => conn[c].next > 0
  /\ client \in [Conns -> {"reads", "stuck", "gone"}]
  /\ sent \in Seq(Nat) /\ sequence \in Nat
  /\ taken \in [Publishers -> Nat \cup {None}]
  /\ stopping \in BOOLEAN /\ listening \in BOOLEAN
  /\ verdict \in [Conns -> [admitted : BOOLEAN, due : BOOLEAN]]

\* However the requests of an address overlap - each asks the brake, compares
\* and reports the failure in steps of its own - between two fresh starts it
\* has at most MaxFailures wrong passwords compared, and one more for each
\* request that had been let through already (AuthGuard, state.rs:385-447;
\* login, routes.rs:283-327).
GuessesBounded ==
  MaxFailures > 0 => \A a \in Addresses : wrong[a] <= MaxFailures + Cardinality(Conns) - 1

\* A block ends although the address keeps trying meanwhile (AuthGuard::check
\* and fail, state.rs:406-443).
BlocksEnd == \A a \in Addresses : Blocked(a) ~> ~Blocked(a)

\* A session admits its user exactly while it is owed: from the login that
\* made it until it is signed out, is left unused for its whole term or the
\* process ends, whoever else comes and goes and whatever happens between the
\* two looks at the sessions that one request takes; it says nothing of
\* requests that the settings admit without one (SessionStore,
\* state.rs:345-383; authorize, routes.rs:192-231).
SessionsAsOwed == \A c \in Conns : verdict[c].admitted = verdict[c].due

\* The event that comes after the first n frames of a stream.
Reached(c) ==
  LET frames == conn[c].frames
      upTo[n \in 0 .. Len(frames)] ==
        IF n = 0 THEN conn[c].from
        ELSE upTo[n - 1] + (IF frames[n][1] = "event" THEN 1 ELSE frames[n][2])
  IN  upTo

\* What a stream has shown accounts for every event sent since it began: an
\* event it does not show is counted by a notice in its place
\* (stream_events, http.rs:463-500; EventBus, events.rs:57-95).
NoSilentGap ==
  \A c \in Conns : conn[c].at \in Subscribed =>
    LET frames == conn[c].frames IN
    /\ Reached(c)[Len(frames)] = conn[c].next
    /\ \A i \in 1 .. Len(frames) :
         frames[i][1] = "event" => frames[i][2] = sent[Reached(c)[i - 1]]

\* The task of a stream ends once its client has gone, though nothing may ever be
\* published again and the first writes still succeed; and once the shutdown it watches
\* for is announced, unless its client stops reading and holds it in a write
\* (stream_events, http.rs:433-506).
StreamsEnd ==
  \A c \in Conns :
    /\ (conn[c].at \in Streaming /\ Gone(c)) ~> (conn[c].at \notin Streaming)
    /\ (conn[c].at \in {"writing", "stream"} /\ stopping /\ ~conn[c].late)
         ~> (conn[c].at \notin Streaming \/ Stuck(c))
=============================================================================
