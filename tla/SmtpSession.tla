----------------------------- MODULE SmtpSession -----------------------------
(***************************************************************************)
(* Inbound SMTP: the dialogue of each session (smtp/session.rs), the       *)
(* listener that opens sessions under a limit (smtp/server.rs), and the    *)
(* graceful stop that waits for them (main.rs, serve, finish_in_flight).   *)
(*                                                                         *)
(* Against the server's envelope stands the client's: what the replies it  *)
(* got make it believe.  A line is one the session reads, in the order     *)
(* sent, so pipelined commands are covered, and the last one may be        *)
(* without its terminator (read_line at end of input); a client sends a    *)
(* message body only after the 354 reply, and ends its lines with CRLF.    *)
(* Addresses stand for addresses up to case.                               *)
(***************************************************************************)
EXTENDS Integers, FiniteSets

CONSTANTS
  Sessions,        \* places for connections
  MaxConnections,  \* server.max_connections, after .max(1)
  Senders, Recipients,
  None,            \* no MAIL accepted
  MaxRecipients,   \* server.max_recipients_per_message
  MaxBody,         \* server.max_message_size_mb, in body lines
  MaxErrors,       \* MAX_PROTOCOL_ERRORS
  AuthOffered,     \* auth_available(): server.auth_users is not empty
  RequireAuth      \* server.require_auth

ASSUME SessionAssumption ==
  /\ IsFiniteSet(Sessions) /\ IsFiniteSet(Recipients)
  /\ MaxConnections \in Nat \ {0}
  /\ None \notin Senders
  /\ MaxRecipients \in Nat /\ MaxBody \in Nat /\ MaxErrors \in Nat \ {0}
  /\ AuthOffered \in BOOLEAN /\ RequireAuth \in BOOLEAN

VARIABLES
  \* The process.
  phase,       \* of main::serve
  expired,     \* the grace period ended first
  listening,   \* the accept loop runs
  permits,     \* the listener's semaphore
  active,      \* metrics: connections_active
  \* Session.
  conn,        \* where each session is
  helo, authed, envelope, errors,
  steps,       \* continuation lines an AUTH exchange still needs
  kept, over,  \* read_body: the lines collected, and over_size
  handed,      \* the envelope of the message given to dispatch::submit
  \* The client.
  told,        \* the envelope as the replies describe it
  inBody,      \* it is sending a message body
  sent,        \* lines of that body sent so far, one only begun included
  cut,         \* its connection broke just after the dot of a stuffed line
  quiet        \* it will not send another line

processVars == <<phase, expired, listening>>
countVars == <<permits, active>>
sessionVars == <<helo, authed, errors, steps>>
bodyVars == <<kept, over, inBody, sent, cut>>
mailVars == <<envelope, told, handed>>
vars == <<processVars, countVars, conn, sessionVars, bodyVars, mailVars, quiet>>

-----------------------------------------------------------------------------
Envelope == [sender : Senders \cup {None}, rcpts : SUBSET Recipients]
NoEnvelope == [sender |-> None, rcpts |-> {}]

Places == {"none", "greeting", "top", "command", "auth", "body", "submitting",
           "ending", "closed"}
\* Counted in connections_active, and beyond greeting and farewell.
Open == Places \ {"none", "closed"}
Busy == {"command", "auth", "body", "submitting"}

Stopping == phase # "serving"                       \* is_shutting_down
Up(n, cap) == IF n < cap THEN n + 1 ELSE cap        \* a count, exact below cap

Goes(s, place) == conn' = [conn EXCEPT ![s] = place]

\* The process lives, and the client sends session s a line to read here.
Hears(s, place) == phase # "gone" /\ conn[s] = place /\ ~quiet[s]
\* The process lives, and session s takes a step of its own.
Runs(s, place) == phase # "gone" /\ conn[s] = place

\* reset_transaction with a reply that says so.
Reset(s) ==
  /\ envelope' = [envelope EXCEPT ![s] = NoEnvelope]
  /\ told' = [told EXCEPT ![s] = NoEnvelope]

Init ==
  /\ phase = "serving" /\ expired = FALSE /\ listening = TRUE
  /\ permits = MaxConnections /\ active = 0
  /\ conn = [s \in Sessions |-> "none"]
  /\ helo = [s \in Sessions |-> FALSE] /\ authed = [s \in Sessions |-> FALSE]
  /\ errors = [s \in Sessions |-> 0] /\ steps = [s \in Sessions |-> 0]
  /\ kept = [s \in Sessions |-> 0] /\ over = [s \in Sessions |-> FALSE]
  /\ envelope = [s \in Sessions |-> NoEnvelope]
  /\ told = [s \in Sessions |-> NoEnvelope] /\ handed = [s \in Sessions |-> NoEnvelope]
  /\ inBody = [s \in Sessions |-> FALSE] /\ sent = [s \in Sessions |-> 0]
  /\ cut = [s \in Sessions |-> FALSE] /\ quiet = [s \in Sessions |-> FALSE]

-----------------------------------------------------------------------------
(* Connections: opened by the listener, ended by the session's task.       *)

\* handle_accepted, for a source that is allowed while a permit is left; any
\* other connection is told so and changes nothing.
Accept(s) ==
  /\ phase # "gone" /\ listening /\ conn[s] = "none" /\ permits > 0
  /\ permits' = permits - 1 /\ active' = active + 1
  /\ Goes(s, "greeting")
  /\ UNCHANGED <<processVars, sessionVars, bodyVars, mailVars, quiet>>

\* run: the banner is written.
Banner(s) ==
  /\ Runs(s, "greeting")
  /\ Goes(s, "top")
  /\ UNCHANGED <<processVars, countVars, sessionVars, bodyVars, mailVars, quiet>>

\* Faulty variant for OrderlyExit: the stop is looked at after the first command.
LoopTopTrusting(s) ==
  /\ Runs(s, "top")
  /\ Goes(s, IF Stopping /\ helo[s] THEN "ending" ELSE "command")
  /\ UNCHANGED <<processVars, countVars, sessionVars, bodyVars, mailVars, quiet>>

\* The head of command_loop.
LoopTop(s) ==
  /\ Runs(s, "top")
  /\ Goes(s, IF Stopping THEN "ending" ELSE "command")
  /\ UNCHANGED <<processVars, countVars, sessionVars, bodyVars, mailVars, quiet>>

\* End of input where a session waits for a command or body line and nothing is
\* left to read, a read error, or a reply that cannot be written.
Broken(s) ==
  /\ \E place \in Busy \cup {"greeting"} : Runs(s, place)
  /\ Goes(s, "ending")
  /\ UNCHANGED <<processVars, countVars, sessionVars, bodyVars, mailVars, quiet>>

\* Faulty variant for ConnectionsCounted: a session whose client never said hello
\* ends without leaving the count.
CloseUncounted(s) ==
  /\ Runs(s, "ending")
  /\ active' = IF helo[s] /\ active > 0 THEN active - 1 ELSE active
  /\ Goes(s, "closed")
  /\ UNCHANGED <<processVars, permits, sessionVars, bodyVars, mailVars, quiet>>

\* The end of run: shutdown of the writer, connection_closed (saturating).
Close(s) ==
  /\ Runs(s, "ending")
  /\ active' = IF active > 0 THEN active - 1 ELSE 0
  /\ Goes(s, "closed")
  /\ UNCHANGED <<processVars, permits, sessionVars, bodyVars, mailVars, quiet>>

\* Faulty variant for TypeOK: the permit goes back twice, explicitly and on drop.
ReleaseTwice(s) ==
  /\ Runs(s, "closed")
  /\ permits' = permits + 2
  /\ Goes(s, "none")
  /\ UNCHANGED <<processVars, active, sessionVars, bodyVars, mailVars, quiet>>

\* The task ends: the session is dropped, then its permit.
Release(s) ==
  /\ Runs(s, "closed")
  /\ permits' = permits + 1
  /\ Goes(s, "none")
  /\ helo' = [helo EXCEPT ![s] = FALSE] /\ authed' = [authed EXCEPT ![s] = FALSE]
  /\ errors' = [errors EXCEPT ![s] = 0] /\ steps' = [steps EXCEPT ![s] = 0]
  /\ kept' = [kept EXCEPT ![s] = 0] /\ over' = [over EXCEPT ![s] = FALSE]
  /\ inBody' = [inBody EXCEPT ![s] = FALSE] /\ sent' = [sent EXCEPT ![s] = 0]
  /\ cut' = [cut EXCEPT ![s] = FALSE]
  /\ Reset(s)
  /\ handed' = [handed EXCEPT ![s] = NoEnvelope]
  /\ quiet' = [quiet EXCEPT ![s] = FALSE]
  /\ UNCHANGED <<processVars, active>>

-----------------------------------------------------------------------------
(* Commands.  Each handler returns to the head of the loop.                *)

\* EHLO and HELO
Hello(s) ==
  /\ Hears(s, "command")
  /\ Goes(s, "top")
  /\ helo' = [helo EXCEPT ![s] = TRUE]
  /\ Reset(s)
  /\ UNCHANGED <<processVars, countVars, authed, errors, steps, bodyVars, handed, quiet>>

Rset(s) ==
  /\ Hears(s, "command")
  /\ Goes(s, "top")
  /\ Reset(s)
  /\ UNCHANGED <<processVars, countVars, sessionVars, bodyVars, handed, quiet>>

\* A command answered and nothing else: NOOP, VRFY, EXPN, HELP, STARTTLS, and
\* MAIL, RCPT, AUTH or DATA refused for its state or its parameters.
Answer(s) ==
  /\ Hears(s, "command")
  /\ Goes(s, "top")
  /\ UNCHANGED <<processVars, countVars, sessionVars, bodyVars, mailVars, quiet>>

Quit(s) ==
  /\ Hears(s, "command")
  /\ Goes(s, "ending")
  /\ UNCHANGED <<processVars, countVars, sessionVars, bodyVars, mailVars, quiet>>

\* A line too long or that parse refuses.
BadLine(s) ==
  /\ Hears(s, "command")
  /\ errors' = [errors EXCEPT ![s] = Up(@, MaxErrors)]
  /\ Goes(s, IF errors'[s] >= MaxErrors THEN "ending" ELSE "top")
  /\ UNCHANGED <<processVars, countVars, helo, authed, steps, bodyVars, mailVars, quiet>>

\* A line parse accepts as empty, unknown or not implemented: handle counts it.
Unknown(s) ==
  /\ Hears(s, "command")
  /\ errors' = [errors EXCEPT ![s] = Up(@, MaxErrors)]
  /\ Goes(s, "top")
  /\ UNCHANGED <<processVars, countVars, helo, authed, steps, bodyVars, mailVars, quiet>>

\* handle_mail: 250
Mail(s) ==
  /\ Hears(s, "command")
  /\ helo[s] /\ (RequireAuth => authed[s]) /\ envelope[s].sender = None
  /\ \E a \in Senders :
       /\ envelope' = [envelope EXCEPT ![s] = [sender |-> a, rcpts |-> {}]]
       /\ told' = [told EXCEPT ![s] = [sender |-> a, rcpts |-> {}]]
  /\ Goes(s, "top")
  /\ UNCHANGED <<processVars, countVars, sessionVars, bodyVars, handed, quiet>>

\* Faulty variant for SubmittedAsAgreed: a recipient more than the limit is told
\* it was accepted.
RcptOverLimit(s) ==
  /\ Hears(s, "command") /\ envelope[s].sender # None
  /\ \E r \in Recipients :
       /\ envelope' = [envelope EXCEPT ![s].rcpts =
                         IF Cardinality(@) < MaxRecipients THEN @ \cup {r} ELSE @]
       /\ told' = [told EXCEPT ![s].rcpts = @ \cup {r}]
  /\ Goes(s, "top")
  /\ UNCHANGED <<processVars, countVars, sessionVars, bodyVars, handed, quiet>>

\* handle_rcpt: 250, a duplicate included; the limit is checked first.
Rcpt(s) ==
  /\ Hears(s, "command")
  /\ envelope[s].sender # None /\ Cardinality(envelope[s].rcpts) < MaxRecipients
  /\ \E r \in Recipients :
       /\ envelope' = [envelope EXCEPT ![s].rcpts = @ \cup {r}]
       /\ told' = [told EXCEPT ![s].rcpts = @ \cup {r}]
  /\ Goes(s, "top")
  /\ UNCHANGED <<processVars, countVars, sessionVars, bodyVars, handed, quiet>>

-----------------------------------------------------------------------------
(* AUTH.                                                                   *)

\* PLAIN and LOGIN ask for up to two continuation lines.
Auth(s) ==
  /\ Hears(s, "command")
  /\ AuthOffered /\ ~authed[s] /\ envelope[s].sender = None
  /\ \E n \in 1..2 : steps' = [steps EXCEPT ![s] = n]
  /\ Goes(s, "auth")
  /\ UNCHANGED <<processVars, countVars, helo, authed, errors, bodyVars, mailVars, quiet>>

\* The last line needed - the command itself for PLAIN with its response -
\* carries the password of a configured user: 235.
AuthAccepted(s) ==
  /\ \/ Hears(s, "command") /\ AuthOffered /\ ~authed[s] /\ envelope[s].sender = None
     \/ Hears(s, "auth") /\ steps[s] = 1
  /\ authed' = [authed EXCEPT ![s] = TRUE] /\ steps' = [steps EXCEPT ![s] = 0]
  /\ Goes(s, "top")
  /\ UNCHANGED <<processVars, countVars, helo, errors, bodyVars, mailVars, quiet>>

\* LOGIN: the user name came, the password is asked for.
AuthNext(s) ==
  /\ Hears(s, "auth") /\ steps[s] = 2
  /\ steps' = [steps EXCEPT ![s] = 1]
  /\ UNCHANGED <<processVars, countVars, conn, helo, authed, errors, bodyVars, mailVars, quiet>>

\* 501 or 535: cancelled, undecodable or wrong; too long, end of input or no
\* line in time count as cancelled.
AuthRefused(s) ==
  /\ Runs(s, "auth")
  /\ steps' = [steps EXCEPT ![s] = 0]
  /\ Goes(s, "top")
  /\ UNCHANGED <<processVars, countVars, helo, authed, errors, bodyVars, mailVars, quiet>>

-----------------------------------------------------------------------------
(* DATA.                                                                   *)

\* handle_data: 354
Data(s) ==
  /\ Hears(s, "command")
  /\ envelope[s].sender # None /\ envelope[s].rcpts # {}
  /\ kept' = [kept EXCEPT ![s] = 0] /\ over' = [over EXCEPT ![s] = FALSE]
  /\ inBody' = [inBody EXCEPT ![s] = TRUE] /\ sent' = [sent EXCEPT ![s] = 0]
  /\ Goes(s, "body")
  /\ UNCHANGED <<processVars, countVars, sessionVars, cut, mailVars, quiet>>

\* read_body: a line within the line limit.
BodyLine(s) ==
  /\ Hears(s, "body") /\ inBody[s]
  /\ \/ /\ ~over[s] /\ kept[s] < MaxBody
        /\ kept' = [kept EXCEPT ![s] = @ + 1] /\ UNCHANGED over
     \/ /\ ~over[s] /\ kept[s] = MaxBody
        /\ kept' = [kept EXCEPT ![s] = 0] /\ over' = [over EXCEPT ![s] = TRUE]
     \/ over[s] /\ UNCHANGED <<kept, over>>
  /\ sent' = [sent EXCEPT ![s] = Up(@, MaxBody + 1)]
  /\ UNCHANGED <<processVars, countVars, conn, sessionVars, inBody, cut, mailVars, quiet>>

\* Faulty variant for BodyWhole: the drained line is forgotten.
BodyLongLineDropped(s) ==
  /\ Hears(s, "body") /\ inBody[s]
  /\ sent' = [sent EXCEPT ![s] = Up(@, MaxBody + 1)]
  /\ UNCHANGED <<processVars, countVars, conn, sessionVars, kept, over, inBody, cut, mailVars, quiet>>

\* read_body: a line beyond it, already drained by the reader.
BodyLongLine(s) ==
  /\ Hears(s, "body") /\ inBody[s]
  /\ over' = [over EXCEPT ![s] = TRUE]
  /\ sent' = [sent EXCEPT ![s] = Up(@, MaxBody + 1)]
  /\ UNCHANGED <<processVars, countVars, conn, sessionVars, kept, inBody, cut, mailVars, quiet>>

\* The client's connection breaks off just after the first byte of a body line
\* that begins with a dot and so had been stuffed.
CutAtDot(s) ==
  /\ Hears(s, "body") /\ inBody[s]
  /\ cut' = [cut EXCEPT ![s] = TRUE] /\ quiet' = [quiet EXCEPT ![s] = TRUE]
  /\ sent' = [sent EXCEPT ![s] = Up(@, MaxBody + 1)]
  /\ UNCHANGED <<processVars, countVars, conn, sessionVars, kept, over, inBody, mailVars>>

\* read_body sees a line that is a single dot: the client's end of the body, or
\* what read_line found in the buffer at end of input.
FinalDot(s) == Runs(s, "body") /\ inBody[s] /\ (~quiet[s] \/ cut[s])

\* Faulty variant for InStep: the reply says over, the envelope stays.
BodyTooLargeKept(s) ==
  /\ FinalDot(s) /\ over[s]
  /\ inBody' = [inBody EXCEPT ![s] = FALSE]
  /\ told' = [told EXCEPT ![s] = NoEnvelope]
  /\ Goes(s, "top")
  /\ UNCHANGED <<processVars, countVars, sessionVars, kept, over, sent, cut, envelope, handed, quiet>>

\* The final dot of a message too large: 552.
BodyTooLarge(s) ==
  /\ FinalDot(s) /\ over[s]
  /\ inBody' = [inBody EXCEPT ![s] = FALSE]
  /\ Reset(s)
  /\ Goes(s, "top")
  /\ UNCHANGED <<processVars, countVars, sessionVars, kept, over, sent, cut, handed, quiet>>

\* The final dot: dispatch_message takes the recipients and submits.
BodyComplete(s) ==
  /\ FinalDot(s) /\ ~over[s]
  /\ inBody' = [inBody EXCEPT ![s] = FALSE]
  /\ handed' = [handed EXCEPT ![s] = envelope[s]]
  /\ envelope' = [envelope EXCEPT ![s].rcpts = {}]
  /\ Goes(s, "submitting")
  /\ UNCHANGED <<processVars, countVars, sessionVars, kept, over, sent, cut, told, quiet>>

\* submit returned: 250, or the status it was refused with.
SubmitEnds(s) ==
  /\ Runs(s, "submitting")
  /\ Reset(s)
  /\ handed' = [handed EXCEPT ![s] = NoEnvelope]
  /\ Goes(s, "top")
  /\ UNCHANGED <<processVars, countVars, sessionVars, bodyVars, quiet>>

\* Faulty variant for SilentClosed: a body that stalls is waited for again.
TimeOutInCommand(s) ==
  /\ Runs(s, "command") /\ quiet[s]
  /\ Goes(s, "ending")
  /\ UNCHANGED <<processVars, countVars, sessionVars, bodyVars, mailVars, quiet>>

\* No line within timeout_seconds: 421, or the end of the body's session, whose
\* transaction goes with it.
TimeOut(s) ==
  /\ (Runs(s, "command") \/ Runs(s, "body")) /\ quiet[s]
  /\ Goes(s, "ending")
  /\ UNCHANGED <<processVars, countVars, sessionVars, bodyVars, mailVars, quiet>>

\* The client sends nothing more, for as long as the timeout at least.
FallSilent(s) ==
  /\ phase # "gone" /\ conn[s] \in Open /\ ~quiet[s]
  /\ quiet' = [quiet EXCEPT ![s] = TRUE]
  /\ UNCHANGED <<processVars, countVars, conn, sessionVars, bodyVars, mailVars>>

-----------------------------------------------------------------------------
(* The process.                                                            *)

sessionsUnchanged == UNCHANGED <<countVars, conn, sessionVars, bodyVars, mailVars, quiet>>

\* begin_shutdown
BeginShutdown ==
  /\ phase = "serving" /\ phase' = "draining"
  /\ UNCHANGED <<expired, listening>> /\ sessionsUnchanged

\* The accept loop sees the signal; until then it may accept once more.
StopListening ==
  /\ Stopping /\ phase # "gone" /\ listening /\ listening' = FALSE
  /\ UNCHANGED <<phase, expired>> /\ sessionsUnchanged

\* finish_in_flight finds no session open (and the queue not sending).
Drained ==
  /\ phase = "draining" /\ active = 0 /\ phase' = "leaving"
  /\ UNCHANGED <<expired, listening>> /\ sessionsUnchanged

\* Faulty variant for ShutdownCompletes: the deadline counts from the last line.
ExpireWhenSilent ==
  /\ phase = "draining" /\ phase' = "leaving" /\ expired' = TRUE
  /\ \A s \in Sessions : conn[s] \in Open => quiet[s]
  /\ UNCHANGED listening /\ sessionsUnchanged

\* ... or the grace period is over.
Expire ==
  /\ phase = "draining" /\ phase' = "leaving" /\ expired' = TRUE
  /\ UNCHANGED listening /\ sessionsUnchanged

\* The listeners are aborted and the process ends.
Exit ==
  /\ phase = "leaving" /\ phase' = "gone"
  /\ UNCHANGED <<expired, listening>> /\ sessionsUnchanged

-----------------------------------------------------------------------------
\* What the session's task does of itself.
TaskStep(s) ==
  Banner(s) \/ LoopTop(s) \/ AuthRefused(s) \/ SubmitEnds(s) \/ TimeOut(s)
    \/ Close(s) \/ Release(s)

\* What it does on a line.
LineStep(s) ==
  \/ Hello(s) \/ Rset(s) \/ Answer(s) \/ Quit(s) \/ BadLine(s) \/ Unknown(s)
  \/ Mail(s) \/ Rcpt(s) \/ Auth(s) \/ AuthAccepted(s) \/ AuthNext(s)
  \/ Data(s) \/ BodyLine(s) \/ BodyLongLine(s) \/ BodyTooLarge(s) \/ BodyComplete(s)

ProcessStep == BeginShutdown \/ StopListening \/ Drained \/ Expire \/ Exit

Next ==
  \/ \E s \in Sessions : Accept(s) \/ TaskStep(s) \/ LineStep(s) \/ Broken(s)
                          \/ FallSilent(s) \/ CutAtDot(s)
  \/ ProcessStep

Spec == Init /\ [][Next]_vars

\* Tasks that are ready run; timers of the session and of the stop fire; submit
\* returns, its deliveries being timed.  Nothing is assumed of a client.
Fairness ==
  /\ \A s \in Sessions : WF_vars(TaskStep(s))
  /\ WF_vars(Expire) /\ WF_vars(Exit)

FairSpec == Spec /\ Fairness

-----------------------------------------------------------------------------
TypeOK ==
  /\ phase \in {"serving", "draining", "leaving", "gone"}
  /\ expired \in BOOLEAN /\ listening \in BOOLEAN
  /\ permits \in 0..MaxConnections /\ active \in Nat
  /\ conn \in [Sessions -> Places]
  /\ helo \in [Sessions -> BOOLEAN] /\ authed \in [Sessions -> BOOLEAN]
  /\ errors \in [Sessions -> 0..MaxErrors] /\ steps \in [Sessions -> 0..2]
  /\ kept \in [Sessions -> 0..MaxBody] /\ over \in [Sessions -> BOOLEAN]
  /\ envelope \in [Sessions -> Envelope] /\ told \in [Sessions -> Envelope]
  /\ handed \in [Sessions -> Envelope]
  /\ inBody \in [Sessions -> BOOLEAN] /\ sent \in [Sessions -> 0..(MaxBody + 1)]
  /\ cut \in [Sessions -> BOOLEAN] /\ quiet \in [Sessions -> BOOLEAN]

\* A session that waits for a command or a body holds the transaction its replies
\* describe to the client, and reads a body exactly while the client
\* sends one: a refusal, an over-sized message or a failed AUTH never leaves a
\* recipient behind for the next message, nor a body line to be run as a command
\* (handle_mail, handle_rcpt, handle_data, reset_transaction, read_body).
InStep ==
  \A s \in Sessions : conn[s] \notin {"submitting", "ending", "closed"} =>
    told[s] = envelope[s] /\ (inBody[s] <=> conn[s] = "body")

\* What dispatch_message submits is what the client was told it would be: the
\* sender and exactly the recipients answered with 250, at least one and within
\* the limit, and from a client logged in if that is required.
SubmittedAsAgreed ==
  \A s \in Sessions : conn[s] = "submitting" =>
    /\ handed[s] = told[s] /\ handed[s].sender # None
    /\ handed[s].rcpts # {} /\ Cardinality(handed[s].rcpts) <= MaxRecipients
    /\ RequireAuth => authed[s]

\* A message is submitted with every line the client sent, or not at all: no line
\* that was drained or dropped in read_body leaves a shorter message behind.  The
\* one exception is a connection that breaks off just after the dot of a stuffed
\* line: read_line returns the dot at end of input (lines.rs:82-95), read_body
\* takes it for the end (session.rs:782), and that line, with all the client had
\* not sent yet, is missing; never more.
BodyWhole ==
  \A s \in Sessions : conn[s] = "submitting" =>
    sent[s] = kept[s] + (IF cut[s] THEN 1 ELSE 0)

\* connections_active counts the sessions that are open, and the permits those
\* that are, or have just ended: the limit holds and no permit is lost
\* (handle_accepted, run).
ConnectionsCounted ==
  /\ active = Cardinality({s \in Sessions : conn[s] \in Open})
  /\ permits + Cardinality({s \in Sessions : conn[s] # "none"}) = MaxConnections

\* A stop that did not run into the grace period ends no session that is reading
\* or handling a command: not even one accepted after finish_in_flight found none.
OrderlyExit ==
  phase \in {"leaving", "gone"} /\ ~expired => \A s \in Sessions : conn[s] \notin Busy

\* A session whose client says nothing more ends, and gives its permit back: in a
\* command, an AUTH exchange and a message body alike (command_timeout).
SilentClosed == \A s \in Sessions : quiet[s] ~> (conn[s] = "none" \/ phase = "gone")

\* A stop ends the process, whatever clients do meanwhile (finish_in_flight).
ShutdownCompletes == Stopping ~> phase = "gone"

\* "Cap on RSET-less protocol errors before the connection is dropped"
\* (smtp/session.rs, MAX_PROTOCOL_ERRORS).  It does not hold: handle counts the
\* errors it answers itself, command_loop compares only after its own.
ErrorsCapped == \A s \in Sessions : conn[s] = "command" => errors[s] < MaxErrors

\* "Reads a DATA payload up to the <CRLF>.<CRLF> terminator" (smtp/session.rs,
\* read_body).  It does not hold: see BodyWhole.
TerminatorSeen == \A s \in Sessions : conn[s] = "submitting" => ~cut[s]

=============================================================================
