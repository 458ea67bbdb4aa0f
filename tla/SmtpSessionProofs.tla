------------------------- MODULE SmtpSessionProofs -------------------------
(***************************************************************************)
(* Proofs about the inbound sessions: what is submitted is what the client *)
(* was told, the limit on connections is kept exactly, and an orderly stop *)
(* interrupts no transaction, for any number of sessions, addresses and    *)
(* limits.                                                                 *)
(***************************************************************************)
EXTENDS SmtpSession, FiniteSetTheorems, TLAPS

-----------------------------------------------------------------------------
(* The inductive invariant of the dialogue.                                *)

\* TypeOK, as far as it concerns the sessions and their clients.
SessionTypes ==
  /\ conn \in [Sessions -> Places]
  /\ helo \in [Sessions -> BOOLEAN] /\ authed \in [Sessions -> BOOLEAN]
  /\ errors \in [Sessions -> 0..MaxErrors] /\ steps \in [Sessions -> 0..2]
  /\ kept \in [Sessions -> 0..MaxBody] /\ over \in [Sessions -> BOOLEAN]
  /\ envelope \in [Sessions -> Envelope] /\ told \in [Sessions -> Envelope]
  /\ handed \in [Sessions -> Envelope]
  /\ inBody \in [Sessions -> BOOLEAN] /\ sent \in [Sessions -> 0..(MaxBody + 1)]
  /\ cut \in [Sessions -> BOOLEAN] /\ quiet \in [Sessions -> BOOLEAN]

\* Every transaction, finished or not, is one the client may have begun.
Agreed(s) ==
  /\ Cardinality(envelope[s].rcpts) <= MaxRecipients
  /\ RequireAuth /\ envelope[s].sender # None => authed[s]

\* A body is read for a complete envelope, read whole but for a line cut off at
\* its dot, and over once submitted.  Nothing follows a cut.
Reading(s) ==
  /\ conn[s] = "body" =>
       /\ envelope[s].sender # None /\ envelope[s].rcpts # {}
       /\ ~over[s] => sent[s] = kept[s] + (IF cut[s] THEN 1 ELSE 0)
  /\ cut[s] => quiet[s]
  /\ conn[s] = "submitting" => ~inBody[s]

DialogueInv ==
  /\ SessionTypes
  /\ \A s \in Sessions : Agreed(s) /\ Reading(s)
  /\ InStep /\ SubmittedAsAgreed /\ BodyWhole

\* The empty envelope is an envelope, and the places are told apart.
LEMMA NoEnvelopeType ==
  /\ NoEnvelope \in Envelope /\ NoEnvelope.sender = None /\ NoEnvelope.rcpts = {}
  /\ Cardinality(NoEnvelope.rcpts) = 0
BY FS_EmptySet DEF NoEnvelope, Envelope

\* Accepting one recipient stays within the limit it was checked against.
LEMMA OneMoreRecipient ==
  ASSUME NEW e \in Envelope, NEW r \in Recipients, Cardinality(e.rcpts) < MaxRecipients
  PROVE  /\ [e EXCEPT !.rcpts = @ \cup {r}] \in Envelope
         /\ Cardinality(e.rcpts \cup {r}) <= MaxRecipients
<1>1. IsFiniteSet(e.rcpts)
  BY SessionAssumption, FS_Subset DEF Envelope
<1>2. /\ IsFiniteSet(e.rcpts \cup {r})
      /\ Cardinality(e.rcpts \cup {r}) =
           IF r \in e.rcpts THEN Cardinality(e.rcpts) ELSE Cardinality(e.rcpts) + 1
  BY <1>1, FS_AddElement
<1>3. Cardinality(e.rcpts) \in Nat /\ Cardinality(e.rcpts \cup {r}) \in Nat
  BY <1>1, <1>2, FS_CardinalityType
<1>4. Cardinality(e.rcpts \cup {r}) <= MaxRecipients
  BY <1>2, <1>3, SessionAssumption
<1>5. QED
  BY <1>4 DEF Envelope

\* A step that only moves a session to the head of the loop or to its end keeps
\* the dialogue's invariant, from a place where the client is in step.
LEMMA MoveKeepsDialogue ==
  ASSUME DialogueInv, NEW s \in Sessions, NEW place \in {"top", "ending"},
         conn[s] \in {"greeting", "top", "command", "auth"} \/ place = "ending",
         Goes(s, place), errors' \in [Sessions -> 0..MaxErrors], steps' \in [Sessions -> 0..2],
         authed' \in [Sessions -> BOOLEAN], \A t \in Sessions : authed[t] => authed'[t],
         UNCHANGED <<helo, bodyVars, mailVars, quiet>>
  PROVE  DialogueInv'
<1> USE DEF bodyVars, mailVars
<1>1. SessionTypes'
  BY DEF DialogueInv, SessionTypes, Goes, Places
<1>2. \A t \in Sessions : conn'[t] = IF t = s THEN place ELSE conn[t]
  BY DEF DialogueInv, SessionTypes, Goes
<1>3. (\A t \in Sessions : Agreed(t) /\ Reading(t))'
  BY <1>2 DEF DialogueInv, Agreed, Reading
<1>4. InStep'
  BY <1>2 DEF DialogueInv, InStep
<1>5. SubmittedAsAgreed' /\ BodyWhole'
  BY <1>2 DEF DialogueInv, SubmittedAsAgreed, BodyWhole
<1>6. QED
  BY <1>1, <1>3, <1>4, <1>5 DEF DialogueInv

\* What a session does on a line keeps the dialogue's invariant.
LEMMA LineKeepsDialogue ==
  ASSUME DialogueInv, NEW s \in Sessions, LineStep(s)
  PROVE  DialogueInv'
<1> USE DEF processVars, countVars, sessionVars, bodyVars, mailVars, Hears
<1>0. /\ SessionTypes /\ conn[s] \in Places /\ errors[s] \in 0..MaxErrors
      /\ Up(errors[s], MaxErrors) \in 0..MaxErrors
      /\ Up(sent[s], MaxBody + 1) \in 0..(MaxBody + 1)
      /\ envelope[s] \in Envelope /\ told[s] \in Envelope /\ 0 \in 0..MaxBody
  BY SessionAssumption DEF DialogueInv, SessionTypes, Up
<1>1. CASE Answer(s) \/ Quit(s)
  BY <1>0, <1>1, MoveKeepsDialogue DEF Answer, Quit, SessionTypes
<1>2. CASE BadLine(s) \/ Unknown(s)
  BY <1>0, <1>2, MoveKeepsDialogue DEF BadLine, Unknown, SessionTypes
<1>3. CASE AuthAccepted(s)
  BY <1>0, <1>3, MoveKeepsDialogue DEF AuthAccepted, SessionTypes
<1>4. CASE Hello(s) \/ Rset(s) \/ BodyTooLarge(s)
  <2>0. /\ envelope' = [envelope EXCEPT ![s] = NoEnvelope]
        /\ told' = [told EXCEPT ![s] = NoEnvelope] /\ conn' = [conn EXCEPT ![s] = "top"]
        /\ UNCHANGED <<authed, errors, steps, kept, over, sent, cut, handed, quiet>>
    BY <1>4 DEF Hello, Rset, BodyTooLarge, Reset, Goes
  <2>00. helo' \in [Sessions -> BOOLEAN] /\ inBody' \in [Sessions -> BOOLEAN]
    BY <1>0, <1>4 DEF Hello, Rset, BodyTooLarge, SessionTypes
  <2>1. SessionTypes'
    BY <1>0, <2>0, <2>00, NoEnvelopeType DEF SessionTypes, Places
  <2>2. (\A t \in Sessions : Agreed(t) /\ Reading(t))'
    <3>1. \A t \in Sessions : /\ envelope'[t] = IF t = s THEN NoEnvelope ELSE envelope[t]
                              /\ conn'[t] = IF t = s THEN "top" ELSE conn[t]
      BY <1>0, <2>0 DEF SessionTypes
    <3>2. ASSUME NEW t \in Sessions PROVE Agreed(t)'
      <4>1. CASE t = s
        BY <3>1, <4>1, NoEnvelopeType, SessionAssumption DEF Agreed
      <4>2. CASE t # s
        BY <2>0, <3>1, <4>2 DEF DialogueInv, Agreed
      <4>3. QED
        BY <4>1, <4>2
    <3>3. ASSUME NEW t \in Sessions PROVE Reading(t)'
      <4>1. Reading(t) /\ (t # s => inBody'[t] = inBody[t])
        BY <1>0, <1>4 DEF Hello, Rset, BodyTooLarge, DialogueInv, SessionTypes
      <4>2. QED
        BY <2>0, <3>1, <4>1 DEF Reading
    <3>4. QED
      BY <3>2, <3>3
  <2>3. (InStep /\ SubmittedAsAgreed /\ BodyWhole)'
    BY <1>0, <1>4
    DEF Hello, Rset, BodyTooLarge, Reset, Goes, DialogueInv, SessionTypes, InStep, SubmittedAsAgreed, BodyWhole
  <2>4. QED
    BY <2>1, <2>2, <2>3 DEF DialogueInv
<1>5. CASE Mail(s)
  <2>1. PICK a \in Senders :
          /\ envelope' = [envelope EXCEPT ![s] = [sender |-> a, rcpts |-> {}]]
          /\ told' = [told EXCEPT ![s] = [sender |-> a, rcpts |-> {}]]
    BY <1>5 DEF Mail
  <2>2. [sender |-> a, rcpts |-> {}] \in Envelope /\ Cardinality({}) = 0
    BY FS_EmptySet DEF Envelope
  <2>3. SessionTypes'
    BY <1>0, <1>5, <2>1, <2>2 DEF Mail, Goes, SessionTypes, Places
  <2>4. (\A t \in Sessions : Agreed(t) /\ Reading(t))'
    BY <1>0, <1>5, <2>1, <2>2, SessionAssumption
    DEF Mail, Goes, DialogueInv, SessionTypes, Agreed, Reading
  <2>5. (InStep /\ SubmittedAsAgreed /\ BodyWhole)'
    BY <1>0, <1>5, <2>1
    DEF Mail, Goes, DialogueInv, SessionTypes, InStep, SubmittedAsAgreed, BodyWhole
  <2>6. QED
    BY <2>3, <2>4, <2>5 DEF DialogueInv
<1>6. CASE Rcpt(s)
  <2>1. PICK r \in Recipients :
          /\ envelope' = [envelope EXCEPT ![s].rcpts = @ \cup {r}]
          /\ told' = [told EXCEPT ![s].rcpts = @ \cup {r}]
    BY <1>6 DEF Rcpt
  <2>2. told[s] = envelope[s]
    BY <1>6 DEF Rcpt, DialogueInv, InStep
  <2> DEFINE e == [envelope[s] EXCEPT !.rcpts = @ \cup {r}]
  <2>3. /\ e \in Envelope /\ e.sender = envelope[s].sender
        /\ Cardinality(e.rcpts) <= MaxRecipients
    BY <1>0, <1>6, OneMoreRecipient DEF Rcpt, Envelope
  <2>4. envelope' = [envelope EXCEPT ![s] = e] /\ told' = [told EXCEPT ![s] = e]
    BY <1>0, <2>1, <2>2 DEF SessionTypes
  <2> HIDE DEF e
  <2>5. SessionTypes'
    BY <1>0, <1>6, <2>3, <2>4 DEF Rcpt, Goes, SessionTypes, Places
  <2>6. (\A t \in Sessions : Agreed(t) /\ Reading(t))'
    BY <1>0, <1>6, <2>3, <2>4 DEF Rcpt, Goes, DialogueInv, SessionTypes, Agreed, Reading
  <2>7. (InStep /\ SubmittedAsAgreed /\ BodyWhole)'
    BY <1>0, <1>6, <2>4
    DEF Rcpt, Goes, DialogueInv, SessionTypes, InStep, SubmittedAsAgreed, BodyWhole
  <2>8. QED
    BY <2>5, <2>6, <2>7 DEF DialogueInv
<1>7. CASE Auth(s) \/ AuthNext(s)
  <2>1. SessionTypes'
    BY <1>0, <1>7 DEF Auth, AuthNext, Goes, SessionTypes, Places
  <2>2. (\A t \in Sessions : Agreed(t) /\ Reading(t))'
    BY <1>0, <1>7 DEF Auth, AuthNext, Goes, DialogueInv, SessionTypes, Agreed, Reading
  <2>3. (InStep /\ SubmittedAsAgreed /\ BodyWhole)'
    BY <1>0, <1>7
    DEF Auth, AuthNext, Goes, DialogueInv, SessionTypes, InStep, SubmittedAsAgreed, BodyWhole
  <2>4. QED
    BY <2>1, <2>2, <2>3 DEF DialogueInv
<1>8. CASE Data(s) \/ BodyLine(s) \/ BodyLongLine(s)
  <2>0. /\ UNCHANGED <<helo, authed, errors, steps, cut, envelope, told, handed, quiet>>
        /\ conn' \in [Sessions -> Places] /\ over' \in [Sessions -> BOOLEAN]
        /\ inBody' \in [Sessions -> BOOLEAN]
    BY <1>0, <1>8 DEF Data, BodyLine, BodyLongLine, Goes, SessionTypes, Places
  <2>00. kept' \in [Sessions -> 0..MaxBody]
    <3>1. kept[s] < MaxBody => kept[s] + 1 \in 0..MaxBody
      BY <1>0, SessionAssumption DEF SessionTypes
    <3>2. CASE Data(s) \/ BodyLongLine(s)
      BY <1>0, <3>2 DEF Data, BodyLongLine, SessionTypes
    <3>3. CASE BodyLine(s)
      BY <1>0, <3>1, <3>3 DEF BodyLine, SessionTypes
    <3>4. QED
      BY <1>8, <3>2, <3>3
  <2>000. sent' \in [Sessions -> 0..(MaxBody + 1)]
    BY <1>0, <1>8, SessionAssumption DEF Data, BodyLine, BodyLongLine, SessionTypes
  <2>1. SessionTypes'
    BY <1>0, <2>0, <2>00, <2>000 DEF SessionTypes
  <2>2. (\A t \in Sessions : Agreed(t) /\ Reading(t))'
    BY <1>0, <1>8, SessionAssumption
    DEF Data, BodyLine, BodyLongLine, Goes, DialogueInv, SessionTypes, Agreed, Reading, Up
  <2>3. (InStep /\ SubmittedAsAgreed /\ BodyWhole)'
    BY <1>0, <1>8
    DEF Data, BodyLine, BodyLongLine, Goes, DialogueInv, SessionTypes, InStep, SubmittedAsAgreed, BodyWhole
  <2>4. QED
    BY <2>1, <2>2, <2>3 DEF DialogueInv
<1>9. CASE BodyComplete(s)
  <2> DEFINE e == [envelope[s] EXCEPT !.rcpts = {}]
  <2>1. e \in Envelope /\ e.sender = envelope[s].sender /\ Cardinality(e.rcpts) = 0
    BY <1>0, FS_EmptySet DEF Envelope
  <2>2. envelope' = [envelope EXCEPT ![s] = e]
    BY <1>0, <1>9 DEF BodyComplete, SessionTypes
  <2> HIDE DEF e
  <2>3. SessionTypes'
    BY <1>0, <1>9, <2>1, <2>2 DEF BodyComplete, Goes, SessionTypes, Places
  <2>4. (\A t \in Sessions : Agreed(t) /\ Reading(t))'
    <3>1. \A t \in Sessions : /\ envelope'[t] = IF t = s THEN e ELSE envelope[t]
                              /\ conn'[t] = IF t = s THEN "submitting" ELSE conn[t]
      BY <1>0, <1>9, <2>2 DEF BodyComplete, Goes, SessionTypes
    <3>2. ASSUME NEW t \in Sessions PROVE Agreed(t)'
      <4>1. authed' = authed /\ Agreed(t) /\ Agreed(s) /\ 0 <= MaxRecipients
        BY <1>9, SessionAssumption DEF BodyComplete, DialogueInv
      <4>2. CASE t = s
        BY <2>1, <3>1, <4>1, <4>2 DEF Agreed
      <4>3. CASE t # s
        BY <3>1, <4>1, <4>3 DEF Agreed
      <4>4. QED
        BY <4>2, <4>3
    <3>3. ASSUME NEW t \in Sessions PROVE Reading(t)'
      <4>1. /\ Reading(t) /\ UNCHANGED <<over, sent, kept, cut, quiet>>
            /\ inBody'[t] = IF t = s THEN FALSE ELSE inBody[t]
        BY <1>0, <1>9 DEF BodyComplete, DialogueInv, SessionTypes
      <4>2. QED
        BY <3>1, <4>1 DEF Reading
    <3>4. QED
      BY <3>2, <3>3
  <2>5. told[s] = envelope[s] /\ Agreed(s) /\ Reading(s)
    BY <1>9 DEF BodyComplete, FinalDot, Runs, DialogueInv, InStep
  <2>6. (InStep /\ SubmittedAsAgreed /\ BodyWhole)'
    BY <1>0, <1>9, <2>2, <2>5
    DEF BodyComplete, FinalDot, Runs, Goes, DialogueInv, SessionTypes, InStep, SubmittedAsAgreed, BodyWhole, Agreed, Reading
  <2>7. QED
    BY <2>3, <2>4, <2>6 DEF DialogueInv
<1>10. QED
  BY <1>1, <1>2, <1>3, <1>4, <1>5, <1>6, <1>7, <1>8, <1>9 DEF LineStep

\* What a session does of itself keeps the dialogue's invariant.
LEMMA TaskKeepsDialogue ==
  ASSUME DialogueInv, NEW s \in Sessions, TaskStep(s) \/ Broken(s)
  PROVE  DialogueInv'
<1> USE DEF processVars, countVars, sessionVars, bodyVars, mailVars, Runs
<1>0. SessionTypes /\ 0 \in 0..MaxErrors /\ 0 \in 0..MaxBody /\ 0 \in 0..(MaxBody + 1)
  BY SessionAssumption DEF DialogueInv
<1>1. CASE Banner(s) \/ LoopTop(s) \/ Broken(s) \/ TimeOut(s)
  <2>1. CASE Goes(s, "command")
    <3>1. conn[s] = "top" /\ UNCHANGED <<sessionVars, bodyVars, mailVars, quiet>>
      BY <1>0, <1>1, <2>1 DEF Banner, LoopTop, Broken, TimeOut, Goes, SessionTypes
    <3>2. SessionTypes'
      BY <1>0, <2>1, <3>1 DEF Goes, SessionTypes, Places
    <3>3. (\A t \in Sessions : Agreed(t) /\ Reading(t))'
      BY <1>0, <2>1, <3>1 DEF Goes, DialogueInv, SessionTypes, Agreed, Reading
    <3>4. (InStep /\ SubmittedAsAgreed /\ BodyWhole)'
      BY <1>0, <2>1, <3>1 DEF Goes, DialogueInv, SessionTypes, InStep, SubmittedAsAgreed, BodyWhole
    <3>5. QED
      BY <3>2, <3>3, <3>4 DEF DialogueInv
  <2>2. CASE ~Goes(s, "command")
    BY <1>0, <1>1, <2>2, MoveKeepsDialogue DEF Banner, LoopTop, Broken, TimeOut, SessionTypes
  <2>3. QED
    BY <2>1, <2>2
<1>2. CASE AuthRefused(s)
  BY <1>0, <1>2, MoveKeepsDialogue DEF AuthRefused, SessionTypes
<1>3. CASE SubmitEnds(s) \/ Release(s)
  <2>1. /\ envelope' = [envelope EXCEPT ![s] = NoEnvelope]
        /\ told' = [told EXCEPT ![s] = NoEnvelope] /\ handed' = [handed EXCEPT ![s] = NoEnvelope]
        /\ conn' \in [Sessions -> Places] /\ conn'[s] \in {"top", "none"}
        /\ \A t \in Sessions \ {s} : conn'[t] = conn[t]
    BY <1>0, <1>3 DEF SubmitEnds, Release, Reset, Goes, SessionTypes, Places
  <2>2. /\ helo' \in [Sessions -> BOOLEAN] /\ authed' \in [Sessions -> BOOLEAN]
        /\ errors' \in [Sessions -> 0..MaxErrors] /\ steps' \in [Sessions -> 0..2]
        /\ kept' \in [Sessions -> 0..MaxBody] /\ over' \in [Sessions -> BOOLEAN]
        /\ inBody' \in [Sessions -> BOOLEAN] /\ sent' \in [Sessions -> 0..(MaxBody + 1)]
        /\ cut' \in [Sessions -> BOOLEAN] /\ quiet' \in [Sessions -> BOOLEAN]
    <3>1. CASE SubmitEnds(s)
      BY <1>0, <3>1 DEF SubmitEnds, SessionTypes
    <3>2. CASE Release(s)
      <4>1. helo' \in [Sessions -> BOOLEAN] /\ authed' \in [Sessions -> BOOLEAN]
        BY <1>0, <3>2 DEF Release, SessionTypes
      <4>2. errors' \in [Sessions -> 0..MaxErrors] /\ steps' \in [Sessions -> 0..2]
        BY <1>0, <3>2 DEF Release, SessionTypes
      <4>3. kept' \in [Sessions -> 0..MaxBody] /\ over' \in [Sessions -> BOOLEAN]
        BY <1>0, <3>2 DEF Release, SessionTypes
      <4>4. /\ inBody' \in [Sessions -> BOOLEAN] /\ sent' \in [Sessions -> 0..(MaxBody + 1)]
            /\ cut' \in [Sessions -> BOOLEAN] /\ quiet' \in [Sessions -> BOOLEAN]
        BY <1>0, <3>2 DEF Release, SessionTypes
      <4>5. QED
        BY <4>1, <4>2, <4>3, <4>4
    <3>3. QED
      BY <1>3, <3>1, <3>2
  <2>22. \A t \in Sessions \ {s} : /\ authed'[t] = authed[t] /\ over'[t] = over[t]
                                   /\ kept'[t] = kept[t] /\ sent'[t] = sent[t]
                                   /\ inBody'[t] = inBody[t] /\ cut'[t] = cut[t]
                                   /\ quiet'[t] = quiet[t]
    BY <1>0, <1>3 DEF SubmitEnds, Release, SessionTypes
  <2>3. SessionTypes'
    BY <1>0, <2>1, <2>2, NoEnvelopeType DEF SessionTypes
  <2>4. \A t \in Sessions :
          /\ t = s => envelope'[t] = NoEnvelope /\ told'[t] = NoEnvelope /\ handed'[t] = NoEnvelope
          /\ t # s => envelope'[t] = envelope[t] /\ told'[t] = told[t] /\ handed'[t] = handed[t]
    BY <1>0, <2>1 DEF SessionTypes
  <2>5. ASSUME NEW t \in Sessions PROVE Agreed(t)'
    <3>1. CASE t = s
      BY <2>4, <3>1, NoEnvelopeType, SessionAssumption DEF Agreed
    <3>2. CASE t # s
      BY <2>4, <2>22, <3>2 DEF DialogueInv, Agreed
    <3>3. QED
      BY <3>1, <3>2
  <2>60. cut'[s] => quiet'[s]
    BY <1>0, <1>3 DEF SubmitEnds, Release, DialogueInv, Reading, SessionTypes
  <2>6. \A t \in Sessions : Reading(t)'
    BY <2>1, <2>22, <2>4, <2>60 DEF DialogueInv, Reading
  <2>7. ~inBody'[s]
    BY <1>0, <1>3 DEF SubmitEnds, Release, DialogueInv, Reading, SessionTypes
  <2>8. (InStep /\ SubmittedAsAgreed /\ BodyWhole)'
    BY <2>1, <2>22, <2>4, <2>7 DEF DialogueInv, InStep, SubmittedAsAgreed, BodyWhole
  <2>9. QED
    BY <2>3, <2>5, <2>6, <2>8 DEF DialogueInv
<1>4. CASE Close(s)
  <2>1. conn' = [conn EXCEPT ![s] = "closed"] /\ UNCHANGED <<sessionVars, bodyVars, mailVars, quiet>>
    BY <1>4 DEF Close, Goes
  <2>2. SessionTypes'
    BY <1>0, <2>1 DEF SessionTypes, Places
  <2>3. (\A t \in Sessions : Agreed(t) /\ Reading(t))'
    BY <1>0, <2>1 DEF DialogueInv, SessionTypes, Agreed, Reading
  <2>4. (InStep /\ SubmittedAsAgreed /\ BodyWhole)'
    BY <1>0, <2>1 DEF DialogueInv, SessionTypes, InStep, SubmittedAsAgreed, BodyWhole
  <2>5. QED
    BY <2>2, <2>3, <2>4 DEF DialogueInv
<1>5. QED
  BY <1>1, <1>2, <1>3, <1>4 DEF TaskStep

\* What neither session nor client does keeps the dialogue's invariant.
LEMMA RestKeepsDialogue ==
  ASSUME DialogueInv,
         \/ ProcessStep \/ UNCHANGED vars
         \/ \E s \in Sessions : Accept(s) \/ FallSilent(s)
  PROVE  DialogueInv'
<1> USE DEF processVars, countVars, sessionVars, bodyVars, mailVars
<1>0. SessionTypes
  BY DEF DialogueInv
<1>1. CASE ProcessStep \/ UNCHANGED vars
  <2>1. UNCHANGED <<conn, sessionVars, bodyVars, mailVars, quiet>>
    BY <1>1 DEF ProcessStep, BeginShutdown, StopListening, Drained, Expire, Exit, sessionsUnchanged, vars
  <2>2. SessionTypes'
    BY <1>0, <2>1 DEF SessionTypes
  <2>3. (\A t \in Sessions : Agreed(t) /\ Reading(t))'
    BY <2>1 DEF DialogueInv, Agreed, Reading
  <2>4. (InStep /\ SubmittedAsAgreed /\ BodyWhole)'
    BY <2>1 DEF DialogueInv, InStep, SubmittedAsAgreed, BodyWhole
  <2>5. QED
    BY <2>2, <2>3, <2>4 DEF DialogueInv
<1>2. ASSUME NEW s \in Sessions, Accept(s) \/ FallSilent(s) PROVE DialogueInv'
  <2>1. /\ conn' \in [Sessions -> Places] /\ quiet' \in [Sessions -> BOOLEAN]
        /\ UNCHANGED <<sessionVars, bodyVars, mailVars>>
        /\ \A t \in Sessions : conn'[t] = conn[t] \/ (conn[t] = "none" /\ conn'[t] = "greeting")
        /\ \A t \in Sessions : quiet[t] => quiet'[t]
    BY <1>0, <1>2 DEF Accept, FallSilent, Goes, SessionTypes, Places
  <2>2. SessionTypes'
    BY <1>0, <2>1 DEF SessionTypes
  <2>3. (\A t \in Sessions : Agreed(t) /\ Reading(t))'
    <3>1. ASSUME NEW t \in Sessions PROVE Agreed(t)'
      BY <2>1 DEF DialogueInv, Agreed
    <3>2. ASSUME NEW t \in Sessions PROVE Reading(t)'
      <4>1. Reading(t) /\ UNCHANGED <<envelope, inBody, over, sent, kept, cut>>
        BY <2>1 DEF DialogueInv
      <4>2. QED
        BY <2>1, <4>1 DEF Reading
    <3>3. QED
      BY <3>1, <3>2
  <2>4. (InStep /\ SubmittedAsAgreed /\ BodyWhole)'
    <3>1. /\ InStep /\ SubmittedAsAgreed /\ BodyWhole
          /\ UNCHANGED <<authed, envelope, told, handed, inBody, sent, kept, cut>>
      BY <2>1 DEF DialogueInv
    <3>2. InStep'
      BY <2>1, <3>1 DEF InStep
    <3>3. SubmittedAsAgreed' /\ BodyWhole'
      BY <2>1, <3>1 DEF SubmittedAsAgreed, BodyWhole
    <3>4. QED
      BY <3>2, <3>3
  <2>5. QED
    BY <2>2, <2>3, <2>4 DEF DialogueInv
<1>3. QED
  BY <1>1, <1>2

\* A connection that breaks off at a dot leaves one line begun and not read.
LEMMA CutKeepsDialogue ==
  ASSUME DialogueInv, NEW s \in Sessions, CutAtDot(s)
  PROVE  DialogueInv'
<1>1. /\ SessionTypes /\ InStep /\ conn[s] = "body" /\ ~cut[s]
      /\ UNCHANGED <<conn, helo, authed, errors, steps, kept, over, inBody, envelope, told, handed>>
  BY DEF CutAtDot, DialogueInv, Reading, Hears, sessionVars, mailVars
<1>2. /\ cut' = [cut EXCEPT ![s] = TRUE] /\ quiet' = [quiet EXCEPT ![s] = TRUE]
      /\ sent' = [sent EXCEPT ![s] = Up(sent[s], MaxBody + 1)]
  BY <1>1 DEF CutAtDot, SessionTypes
<1>3. Up(sent[s], MaxBody + 1) \in 0..(MaxBody + 1)
  BY <1>1, SessionAssumption DEF SessionTypes, Up
<1>4. SessionTypes'
  BY <1>1, <1>2, <1>3 DEF SessionTypes
<1>5. (\A t \in Sessions : Agreed(t))'
  BY <1>1 DEF DialogueInv, Agreed
<1>6. ASSUME NEW t \in Sessions PROVE Reading(t)'
  <2>1. CASE t = s
    <3>1. ~over[s] => Up(sent[s], MaxBody + 1) = kept[s] + 1
      BY <1>1, SessionAssumption DEF DialogueInv, Reading, SessionTypes, Up
    <3>2. cut'[s] = TRUE /\ quiet'[s] = TRUE /\ sent'[s] = Up(sent[s], MaxBody + 1)
      BY <1>1, <1>2 DEF SessionTypes
    <3>3. Reading(s)
      BY DEF DialogueInv
    <3>4. QED
      BY <1>1, <2>1, <3>1, <3>2, <3>3 DEF Reading
  <2>2. CASE t # s
    BY <1>1, <1>2, <2>2 DEF DialogueInv, Reading, SessionTypes
  <2>3. QED
    BY <2>1, <2>2
<1>7. (InStep /\ SubmittedAsAgreed)'
  BY <1>1 DEF DialogueInv, InStep, SubmittedAsAgreed
<1>8. BodyWhole'
  BY <1>1, <1>2 DEF DialogueInv, BodyWhole, SessionTypes
<1>9. QED
  BY <1>4, <1>5, <1>6, <1>7, <1>8 DEF DialogueInv

\* The dialogue's invariant holds at first.
LEMMA DialogueAtFirst == Init => DialogueInv
<1> SUFFICES ASSUME Init PROVE DialogueInv
  OBVIOUS
<1>1. SessionTypes
  BY NoEnvelopeType, SessionAssumption DEF Init, SessionTypes, Places
<1>2. \A t \in Sessions : Agreed(t) /\ Reading(t)
  BY NoEnvelopeType, SessionAssumption DEF Init, Agreed, Reading
<1>3. InStep /\ SubmittedAsAgreed /\ BodyWhole
  BY DEF Init, InStep, SubmittedAsAgreed, BodyWhole
<1>4. QED
  BY <1>1, <1>2, <1>3 DEF DialogueInv

\* Every step keeps the dialogue's invariant.
LEMMA DialogueStep == DialogueInv /\ [Next]_vars => DialogueInv'
<1> SUFFICES ASSUME DialogueInv, [Next]_vars PROVE DialogueInv'
  OBVIOUS
<1>1. CASE \E s \in Sessions : LineStep(s)
  BY <1>1, LineKeepsDialogue
<1>2. CASE \E s \in Sessions : TaskStep(s) \/ Broken(s)
  BY <1>2, TaskKeepsDialogue
<1>3. CASE \/ ProcessStep \/ UNCHANGED vars
           \/ \E s \in Sessions : Accept(s) \/ FallSilent(s)
  BY <1>3, RestKeepsDialogue
<1>4. CASE \E s \in Sessions : CutAtDot(s)
  BY <1>4, CutKeepsDialogue
<1>5. QED
  BY <1>1, <1>2, <1>3, <1>4 DEF Next

LEMMA DialogueAlways == Spec => []DialogueInv
BY DialogueAtFirst, DialogueStep, PTL DEF Spec

\* A waiting session and its client agree on the transaction, and on whether a
\* body is being sent (reset_transaction, read_body).
THEOREM ClientAndServerAgree == Spec => []InStep
<1>1. DialogueInv => InStep
  BY DEF DialogueInv
<1>2. QED
  BY <1>1, DialogueAlways, PTL

\* What dispatch_message submits is the transaction the client was told it had.
THEOREM SubmissionAgreed == Spec => []SubmittedAsAgreed
<1>1. DialogueInv => SubmittedAsAgreed
  BY DEF DialogueInv
<1>2. QED
  BY <1>1, DialogueAlways, PTL

\* A submitted message lacks no line the client sent, but for the one whose dot
\* was the last byte of a connection that broke off (read_body, read_line).
THEOREM BodyCutOnlyAtDot == Spec => []BodyWhole
<1>1. DialogueInv => BodyWhole
  BY DEF DialogueInv
<1>2. QED
  BY <1>1, DialogueAlways, PTL

-----------------------------------------------------------------------------
(* The inductive invariant of the counts and of the stop.                  *)

Opened == {s \in Sessions : conn[s] \in Open}
Held == {s \in Sessions : conn[s] # "none"}

\* TypeOK, as far as it concerns the process and the counts; the permits' upper
\* bound follows from the count.
ProcessTypes ==
  /\ phase \in {"serving", "draining", "leaving", "gone"}
  /\ expired \in BOOLEAN /\ listening \in BOOLEAN
  /\ permits \in Nat /\ active \in Nat

CountInv == ProcessTypes /\ ConnectionsCounted /\ OrderlyExit

\* Both sets are finite, and what one element more or less makes of their size.
LEMMA SetsOfSessions ==
  ASSUME NEW S \in SUBSET Sessions, NEW s \in Sessions
  PROVE  /\ Cardinality(S) \in Nat
         /\ s \notin S => Cardinality(S \cup {s}) = Cardinality(S) + 1
         /\ s \in S => Cardinality(S \ {s}) = Cardinality(S) - 1
<1>1. IsFiniteSet(S)
  BY SessionAssumption, FS_Subset
<1>2. QED
  BY <1>1, FS_AddElement, FS_RemoveElement, FS_CardinalityType

\* A session that moves while it stays open changes no count, and starts to be
\* busy only before the stop.
LEMMA MoveKeepsCounts ==
  ASSUME CountInv, SessionTypes, NEW s \in Sessions, NEW place \in Open,
         conn[s] \in Open, conn' = [conn EXCEPT ![s] = place],
         place \in Busy => conn[s] \in Busy \/ ~Stopping,
         UNCHANGED <<processVars, countVars>>
  PROVE  CountInv'
<1> USE DEF processVars, countVars
<1>1. \A t \in Sessions : conn'[t] = IF t = s THEN place ELSE conn[t]
  BY DEF SessionTypes
<1>2. Opened' = Opened /\ Held' = Held
  BY <1>1 DEF Opened, Held, Open
<1>3. ConnectionsCounted'
  BY <1>2 DEF CountInv, ConnectionsCounted, Opened, Held
<1>4. OrderlyExit'
  BY <1>1 DEF CountInv, OrderlyExit, Stopping
<1>5. QED
  BY <1>3, <1>4 DEF CountInv, ProcessTypes

\* What a session does on a line keeps the counts.
LEMMA LineKeepsCounts ==
  ASSUME CountInv, SessionTypes, NEW s \in Sessions, LineStep(s)
  PROVE  CountInv'
<1>1. /\ UNCHANGED <<processVars, countVars>>
      /\ conn[s] \in Busy
      /\ \/ conn' = conn
         \/ \E place \in {"top", "ending", "auth", "body", "submitting"} :
              conn' = [conn EXCEPT ![s] = place]
  BY DEF LineStep, Hello, Rset, Answer, Quit, BadLine, Unknown, Mail, Rcpt, Auth, AuthAccepted,
         AuthNext, Data, BodyLine, BodyLongLine, BodyTooLarge, BodyComplete, FinalDot, Hears, Runs,
         Goes, Busy
<1>2. CASE conn' = conn
  BY <1>1, <1>2 DEF CountInv, ProcessTypes, ConnectionsCounted, OrderlyExit, processVars, countVars
<1>3. ASSUME NEW place \in {"top", "ending", "auth", "body", "submitting"},
             conn' = [conn EXCEPT ![s] = place]
      PROVE  CountInv'
  BY <1>1, <1>3, MoveKeepsCounts DEF Open, Places, Busy
<1>4. QED
  BY <1>1, <1>2, <1>3

\* What it does of itself keeps them too, ending and giving its permit back included.
LEMMA TaskKeepsCounts ==
  ASSUME CountInv, SessionTypes, NEW s \in Sessions, TaskStep(s) \/ Broken(s)
  PROVE  CountInv'
<1> USE DEF processVars, countVars
<1>0. /\ ProcessTypes /\ ConnectionsCounted /\ OrderlyExit
      /\ Opened \in SUBSET Sessions /\ Held \in SUBSET Sessions
      /\ active = Cardinality(Opened) /\ permits + Cardinality(Held) = MaxConnections
  BY DEF CountInv, ConnectionsCounted, Opened, Held
<1>1. CASE Banner(s) \/ LoopTop(s) \/ AuthRefused(s) \/ SubmitEnds(s) \/ TimeOut(s) \/ Broken(s)
  <2>1. \E place \in Open :
          /\ conn' = [conn EXCEPT ![s] = place] /\ conn[s] \in Open
          /\ place \in Busy => ~Stopping
    BY <1>1 DEF Banner, LoopTop, AuthRefused, SubmitEnds, TimeOut, Broken, Runs, Goes,
                Open, Places, Busy
  <2>2. UNCHANGED <<processVars, countVars>>
    BY <1>1 DEF Banner, LoopTop, AuthRefused, SubmitEnds, TimeOut, Broken
  <2>3. QED
    BY <2>1, <2>2, MoveKeepsCounts
<1>2. CASE Close(s)
  <2>1. /\ conn[s] = "ending" /\ UNCHANGED <<processVars, permits>>
        /\ \A t \in Sessions : conn'[t] = IF t = s THEN "closed" ELSE conn[t]
    BY <1>2 DEF Close, Runs, Goes, SessionTypes
  <2>2. s \in Opened /\ Opened' = Opened \ {s} /\ Held' = Held
    BY <2>1 DEF Opened, Held, Open, Places
  <2>3. active \in Nat /\ Cardinality(Opened \ {s}) = active - 1 /\ Cardinality(Opened \ {s}) \in Nat
    BY <1>0, <2>2, SetsOfSessions DEF ProcessTypes
  <2>4. active' = active - 1
    BY <1>2, <2>3 DEF Close
  <2>5. ConnectionsCounted'
    BY <1>0, <2>1, <2>2, <2>3, <2>4 DEF ConnectionsCounted, Opened, Held
  <2>6. OrderlyExit'
    BY <1>0, <2>1 DEF OrderlyExit, Busy
  <2>7. QED
    BY <1>0, <2>1, <2>3, <2>4, <2>5, <2>6 DEF CountInv, ProcessTypes
<1>3. CASE Release(s)
  <2>1. /\ conn[s] = "closed" /\ UNCHANGED <<processVars, active>> /\ permits' = permits + 1
        /\ \A t \in Sessions : conn'[t] = IF t = s THEN "none" ELSE conn[t]
    BY <1>3 DEF Release, Runs, Goes, SessionTypes
  <2>2. s \in Held /\ Held' = Held \ {s} /\ Opened' = Opened
    BY <2>1 DEF Opened, Held, Open, Places
  <2>3. permits \in Nat /\ Cardinality(Held \ {s}) = Cardinality(Held) - 1 /\ Cardinality(Held) \in Nat
    BY <1>0, <2>2, SetsOfSessions DEF ProcessTypes
  <2>4. permits' \in Nat /\ permits' + Cardinality(Held') = MaxConnections
    BY <1>0, <2>1, <2>2, <2>3
  <2>5. ConnectionsCounted'
    BY <1>0, <2>1, <2>2, <2>4 DEF ConnectionsCounted, Opened, Held
  <2>6. OrderlyExit'
    BY <1>0, <2>1 DEF OrderlyExit, Busy
  <2>7. QED
    BY <1>0, <2>1, <2>4, <2>5, <2>6 DEF CountInv, ProcessTypes
<1>4. QED
  BY <1>1, <1>2, <1>3 DEF TaskStep

\* A connection accepted takes one permit and counts once.
LEMMA AcceptKeepsCounts ==
  ASSUME CountInv, SessionTypes, NEW s \in Sessions, Accept(s)
  PROVE  CountInv'
<1> USE DEF processVars
<1>1. /\ conn[s] = "none" /\ permits > 0 /\ permits' = permits - 1 /\ active' = active + 1
      /\ UNCHANGED processVars
      /\ \A t \in Sessions : conn'[t] = IF t = s THEN "greeting" ELSE conn[t]
  BY DEF Accept, Goes, SessionTypes
<1>2. /\ s \notin Opened /\ Opened' = Opened \cup {s} /\ Opened \in SUBSET Sessions
      /\ s \notin Held /\ Held' = Held \cup {s} /\ Held \in SUBSET Sessions
  BY <1>1 DEF Opened, Held, Open, Places
<1>3. /\ Cardinality(Opened') = Cardinality(Opened) + 1
      /\ Cardinality(Held') = Cardinality(Held) + 1 /\ Cardinality(Held) \in Nat
  BY <1>2, SetsOfSessions
<1>4. /\ permits \in Nat /\ active \in Nat
      /\ active = Cardinality(Opened) /\ permits + Cardinality(Held) = MaxConnections
  BY DEF CountInv, ProcessTypes, ConnectionsCounted, Opened, Held
<1>5. /\ permits' \in Nat /\ active' \in Nat
      /\ active' = Cardinality(Opened') /\ permits' + Cardinality(Held') = MaxConnections
  BY <1>1, <1>3, <1>4
<1>6. OrderlyExit'
  BY <1>1 DEF CountInv, OrderlyExit, Busy
<1>7. ConnectionsCounted'
  BY <1>5 DEF ConnectionsCounted, Opened, Held
<1>8. QED
  BY <1>1, <1>5, <1>6, <1>7 DEF CountInv, ProcessTypes

\* The process's own steps keep them: it finds no session open only when none is.
LEMMA ProcessKeepsCounts ==
  ASSUME CountInv, SessionTypes,
         ProcessStep \/ UNCHANGED vars \/ \E s \in Sessions : FallSilent(s) \/ CutAtDot(s)
  PROVE  CountInv'
<1> USE DEF processVars, countVars
<1>1. UNCHANGED <<countVars, conn>> /\ ProcessTypes'
  BY DEF CountInv, ProcessTypes, ProcessStep, BeginShutdown, StopListening, Drained, Expire, Exit,
         sessionsUnchanged, FallSilent, CutAtDot, vars
<1>2. ConnectionsCounted'
  BY <1>1 DEF CountInv, ConnectionsCounted
<1>3. CASE Drained
  <2>1. /\ Cardinality(Opened) = 0 /\ Opened \in SUBSET Sessions
    BY <1>3 DEF Drained, CountInv, ConnectionsCounted, Opened
  <2>2. IsFiniteSet(Opened)
    BY <2>1, SessionAssumption, FS_Subset
  <2>3. Opened = {}
    BY <2>1, <2>2, FS_EmptySet
  <2>4. \A s \in Sessions : conn[s] \notin Busy
    BY <2>3 DEF Opened, Open, Places, Busy
  <2>5. QED
    BY <1>1, <1>2, <2>4 DEF CountInv, OrderlyExit
<1>4. CASE ~Drained
  <2>1. OrderlyExit'
    BY <1>1, <1>4 DEF CountInv, OrderlyExit, ProcessStep, BeginShutdown, StopListening, Expire, Exit,
                      sessionsUnchanged, FallSilent, CutAtDot, vars
  <2>2. QED
    BY <1>1, <1>2, <2>1 DEF CountInv
<1>5. QED
  BY <1>3, <1>4

\* The counts are right at first.
LEMMA CountAtFirst == Init => CountInv
<1> SUFFICES ASSUME Init PROVE CountInv
  OBVIOUS
<1>1. Opened = {} /\ Held = {}
  BY DEF Init, Opened, Held, Open
<1>2. Cardinality(Opened) = 0 /\ Cardinality(Held) = 0
  BY <1>1, FS_EmptySet
<1>3. ConnectionsCounted
  BY <1>2, SessionAssumption DEF Init, ConnectionsCounted, Opened, Held
<1>4. QED
  BY <1>3, SessionAssumption DEF Init, CountInv, ProcessTypes, OrderlyExit

SessionInv == DialogueInv /\ CountInv

LEMMA SessionStep == SessionInv /\ [Next]_vars => SessionInv'
<1> SUFFICES ASSUME SessionInv, [Next]_vars PROVE CountInv'
  BY DialogueStep DEF SessionInv
<1>0. CountInv /\ SessionTypes
  BY DEF SessionInv, DialogueInv
<1>1. CASE \E s \in Sessions : LineStep(s)
  BY <1>0, <1>1, LineKeepsCounts
<1>2. CASE \E s \in Sessions : TaskStep(s) \/ Broken(s)
  BY <1>0, <1>2, TaskKeepsCounts
<1>3. CASE \E s \in Sessions : Accept(s)
  BY <1>0, <1>3, AcceptKeepsCounts
<1>4. CASE ProcessStep \/ UNCHANGED vars \/ \E s \in Sessions : FallSilent(s) \/ CutAtDot(s)
  BY <1>0, <1>4, ProcessKeepsCounts
<1>5. QED
  BY <1>1, <1>2, <1>3, <1>4 DEF Next

LEMMA SessionAlways == Spec => []SessionInv
<1>1. Init => SessionInv
  BY DialogueAtFirst, CountAtFirst DEF SessionInv
<1>2. QED
  BY <1>1, SessionStep, PTL DEF Spec

\* Every variable keeps its type: no more permits exist than the limit allows, and
\* the gauge of open connections never goes below zero.
THEOREM SessionTypesHold == Spec => []TypeOK
<1>1. SessionInv => TypeOK
  <2> SUFFICES ASSUME SessionInv PROVE TypeOK
    OBVIOUS
  <2>1. SessionTypes /\ ProcessTypes /\ permits + Cardinality(Held) = MaxConnections
    BY DEF SessionInv, DialogueInv, CountInv, ConnectionsCounted, Held
  <2>2. IsFiniteSet(Held)
    BY SessionAssumption, FS_Subset DEF Held
  <2>3. Cardinality(Held) \in Nat
    BY <2>2, FS_CardinalityType
  <2>4. permits \in 0..MaxConnections
    BY <2>1, <2>3, SessionAssumption DEF ProcessTypes
  <2>5. QED
    BY <2>1, <2>4 DEF TypeOK, SessionTypes, ProcessTypes
<1>2. QED
  BY <1>1, SessionAlways, PTL

\* connections_active counts the open sessions and every permit is accounted for.
THEOREM ConnectionsAlwaysCounted == Spec => []ConnectionsCounted
<1>1. SessionInv => ConnectionsCounted
  BY DEF SessionInv, CountInv
<1>2. QED
  BY <1>1, SessionAlways, PTL

\* A stop within the grace period interrupts no transaction, also of a connection
\* accepted while the process was already leaving.
THEOREM OrderlyExitHolds == Spec => []OrderlyExit
<1>1. SessionInv => OrderlyExit
  BY DEF SessionInv, CountInv
<1>2. QED
  BY <1>1, SessionAlways, PTL

=============================================================================
