------------------------ MODULE DeliveryQueueProofs ------------------------
(***************************************************************************)
(* Proofs about the delivery queue, for any sets of messages and workers,  *)
(* any capacity, attempt limit and back-off, with or without a spool: its  *)
(* data structures, what keeps mail from being lost, and its two limits.   *)
(***************************************************************************)
EXTENDS DeliveryQueue, FiniteSetTheorems, TLAPS

(***************************************************************************)
(* The inductive invariant of the data structures: types, indexes, owners  *)
(* and the phases of the process.                                          *)
(***************************************************************************)
StructInv ==
  /\ TypeOK
  /\ IndexesAgree
  /\ SeqFresh
  /\ SingleOwner
  /\ OnlyAccepted
  /\ PhasesSeparate
  /\ ErasedIsSettled
  /\ AttemptCounted

-----------------------------------------------------------------------------
(* The spool operators.                                                    *)

\* Whatever a write of the spool does, it leaves a pair of files behind.
LEMMA HalfWrittenType ==
  ASSUME NEW q \in Pair, NEW p \in HalfWritten(q)
  PROVE  /\ p \in Pair
         /\ p.meta = "full" => q.meta = "full" /\ p.attempts = q.attempts
         /\ Complete(p) => q.meta = "full"
<1>1. CASE p = [q EXCEPT !.body = "empty"]
  BY <1>1 DEF Pair, Complete
<1>2. CASE p = [q EXCEPT !.body = "full"]
  BY <1>2 DEF Pair, Complete
<1>3. CASE p = [body |-> "full", meta |-> "torn", attempts |-> 0, due |-> 0]
  BY <1>3 DEF Pair, Complete
<1>4. QED
  BY <1>1, <1>2, <1>3 DEF HalfWritten

\* A finished write leaves a complete pair with the entry's attempt count.
LEMMA WholeType ==
  ASSUME NEW e \in Entry
  PROVE  Whole(e) \in Pair /\ Complete(Whole(e)) /\ Whole(e).attempts = e.attempts
BY DEF Whole, Pair, Entry, Complete

\* write_spool touches the files of one message, and what they then say of the
\* attempts is the new count, or the old one after a mishap.
LEMMA WriteSpoolEffect ==
  ASSUME TypeOK, NEW e \in Entry, WriteSpool(e)
  PROVE  /\ spool' \in [Messages -> Pair] /\ torn' \subseteq Messages /\ mishaps' \in Nat
         /\ mishaps <= mishaps'
         /\ \A m \in Messages \ {e.id} : spool'[m] = spool[m] /\ (m \in torn' <=> m \in torn)
         /\ Persist => e.id \in torn' \/ Complete(spool'[e.id])
         /\ spool'[e.id].meta = "full" =>
              \/ spool'[e.id].attempts = e.attempts
              \/ ~Persist /\ spool' = spool
              \/ /\ mishaps' = mishaps + 1
                 /\ spool[e.id].meta = "full"
                 /\ spool'[e.id].attempts = spool[e.id].attempts
<1>1. e.id \in Messages /\ spool[e.id] \in Pair
  BY DEF TypeOK, Entry
<1>2. CASE ~Persist /\ UNCHANGED <<diskVars, mishaps>>
  BY <1>1, <1>2 DEF TypeOK, diskVars
<1>3. CASE Persist /\ StorePair(e.id, Whole(e)) /\ UNCHANGED mishaps
  BY <1>1, <1>3, WholeType DEF TypeOK, StorePair
<1>4. CASE /\ Persist /\ mishaps < MaxMishaps
           /\ \E p \in HalfWritten(spool[e.id]) : StorePair(e.id, p)
           /\ mishaps' = mishaps + 1
  <2> PICK p \in HalfWritten(spool[e.id]) : StorePair(e.id, p)
    BY <1>4
  <2>1. /\ p \in Pair
        /\ p.meta = "full" => spool[e.id].meta = "full" /\ p.attempts = spool[e.id].attempts
    BY <1>1, HalfWrittenType
  <2>2. /\ spool' = [spool EXCEPT ![e.id] = p]
        /\ torn' = IF Complete(p) THEN torn \ {e.id} ELSE torn \cup {e.id}
    BY DEF StorePair
  <2>3. QED
    BY <1>1, <1>4, <2>1, <2>2 DEF TypeOK
<1>5. QED
  BY <1>2, <1>3, <1>4 DEF WriteSpool

-----------------------------------------------------------------------------
(* The two indexes.                                                        *)

IndexType == [id : Messages, due : Nat, seq : Nat]

\* Two keys are equal only if both their parts are.
LEMMA KeyParts ==
  ASSUME NEW d, NEW e
  PROVE  Key(d) = Key(e) <=> d.due = e.due /\ d.seq = e.seq
BY DEF Key

\* Inserting an entry under a fresh sequence number and a fresh id replaces
\* nothing in either index.
LEMMA ScheduleEffect ==
  ASSUME TypeOK, IndexesAgree, SeqFresh,
         NEW e \in Entry, e.seq = seq, e.id \notin Ids(scheduled),
         scheduled' = Insert(scheduled, e),
         byId' = InsertIndex(byId, e),
         seq' = seq + 1
  PROVE  /\ scheduled' = scheduled \cup {e}
         /\ scheduled' \subseteq Entry /\ byId' \subseteq IndexType
         /\ IndexesAgree' /\ SeqFresh'
         /\ Ids(scheduled)' = Ids(scheduled) \cup {e.id}
<1>1. \A d \in scheduled : d \in Entry /\ d.seq < seq /\ d.id # e.id
  BY DEF TypeOK, SeqFresh, Ids
<1>2. \A d \in scheduled : d.seq # e.seq
  BY <1>1 DEF Entry, TypeOK
<1>3. \A d \in scheduled : Key(d) # Key(e)
  BY <1>2, KeyParts
<1>4. scheduled' = scheduled \cup {e}
  BY <1>3 DEF Insert
<1>5. \A i \in byId : i.id # e.id
  BY <1>1 DEF IndexesAgree, IndexOf
<1>6. byId' = byId \cup {IndexOf(e)}
  BY <1>5 DEF InsertIndex
<1>7. scheduled' \subseteq Entry /\ byId' \subseteq IndexType
  BY <1>4, <1>6 DEF TypeOK, IndexOf, Entry, IndexType
<1>8. byId' = {IndexOf(d) : d \in scheduled'}
  BY <1>4, <1>6 DEF IndexesAgree
<1>9. \A c, d \in scheduled' : c.id = d.id \/ Key(c) = Key(d) => c = d
  BY <1>1, <1>3, <1>4 DEF IndexesAgree
<1>10. SeqFresh'
  BY <1>1, <1>4 DEF SeqFresh, TypeOK, Entry
<1>11. Ids(scheduled)' = Ids(scheduled) \cup {e.id}
  BY <1>4 DEF Ids
<1>12. QED
  BY <1>4, <1>7, <1>8, <1>9, <1>10, <1>11 DEF IndexesAgree

\* Taking one entry out of both indexes.
LEMMA UnscheduleEffect ==
  ASSUME TypeOK, IndexesAgree, SeqFresh, NEW e \in scheduled,
         scheduled' = scheduled \ {e},
         byId' = {i \in byId : i.id # e.id},
         seq' = seq
  PROVE  /\ scheduled' \subseteq Entry /\ byId' \subseteq IndexType
         /\ IndexesAgree' /\ SeqFresh'
         /\ Ids(scheduled)' = Ids(scheduled) \ {e.id}
<1>1. \A d \in scheduled \ {e} : d.id # e.id
  BY DEF IndexesAgree
<1>2. byId' = {IndexOf(d) : d \in scheduled'}
  BY <1>1 DEF IndexesAgree, IndexOf
<1>3. Ids(scheduled)' = Ids(scheduled) \ {e.id}
  BY <1>1 DEF Ids
<1>4. scheduled' \subseteq Entry /\ byId' \subseteq IndexType
  BY DEF TypeOK, IndexType
<1>5. QED
  BY <1>2, <1>3, <1>4 DEF IndexesAgree, SeqFresh

\* The locked half of Queue::remove takes the one entry of the id out of both.
LEMMA UnscheduleIsRemoval ==
  ASSUME TypeOK, IndexesAgree, NEW m \in Messages, Unschedule(m)
  PROVE  \E e \in scheduled : /\ e.id = m
                              /\ scheduled' = scheduled \ {e}
                              /\ byId' = {i \in byId : i.id # e.id}
                              /\ settled' = settled \cup {m}
                              /\ erasing' = erasing \cup {m}
<1>1. PICK i \in byId : /\ i.id = m
                       /\ byId' = byId \ {i}
                       /\ scheduled' = {e \in scheduled : Key(e) # Key(i)}
                       /\ settled' = settled \cup {m}
                       /\ erasing' = erasing \cup {m}
  BY DEF Unschedule
<1>2. PICK e \in scheduled : i = IndexOf(e)
  BY DEF IndexesAgree
<1>3. e.id = m /\ Key(i) = Key(e)
  BY <1>1, <1>2 DEF IndexOf, Key
<1>4. scheduled' = scheduled \ {e}
  BY <1>1, <1>3 DEF IndexesAgree
<1>5. \A j \in byId : j.id = m => j = i
  BY <1>2, <1>3 DEF IndexesAgree, IndexOf
<1>6. byId' = {j \in byId : j.id # e.id}
  BY <1>1, <1>3, <1>5
<1>7. QED
  BY <1>1, <1>3, <1>4, <1>6

-----------------------------------------------------------------------------
(* Each action preserves StructInv.                                        *)

\* The empty queue of a first start.
LEMMA StructInit == Init => StructInv
<1> SUFFICES ASSUME Init PROVE StructInv
  OBVIOUS
<1> USE DEF Init
<1>1. Busy = {} /\ Sending = {} /\ Ids(scheduled) = {}
  BY DEF Busy, Sending, Ids
<1>2. TypeOK
  BY ConstantsAssumption DEF TypeOK, Job, Idle, Pair, NoPair
<1>3. IndexesAgree /\ SeqFresh /\ SingleOwner
  BY <1>1 DEF IndexesAgree, SeqFresh, SingleOwner
<1>4. OnlyAccepted
  BY <1>1 DEF OnlyAccepted, Owned, NoPair
<1>5. PhasesSeparate /\ ErasedIsSettled /\ AttemptCounted
  BY <1>1 DEF PhasesSeparate, ErasedIsSettled, AttemptCounted
<1>6. QED
  BY <1>2, <1>3, <1>4, <1>5 DEF StructInv

\* What an enqueue writes: an id nobody owns yet, as ids are submitted once,
\* under a fresh key.
LEMMA EnqueueEffect ==
  ASSUME StructInv, NEW m \in Messages, NEW a \in SubmitAttempts, Enqueue(m, a)
  PROVE  /\ m \notin submitted /\ m \notin Owned /\ m \notin accepted /\ a \in Nat
         /\ \E e \in Entry : /\ e.id = m /\ e.attempts = a
                             /\ WriteSpool(e)
                             /\ scheduled' = scheduled \cup {e}
         /\ scheduled' \subseteq Entry /\ byId' \subseteq IndexType
         /\ IndexesAgree' /\ SeqFresh'
         /\ Ids(scheduled)' = Ids(scheduled) \cup {m}
<1> DEFINE e == [id |-> m, due |-> now + Delay(a), seq |-> seq, attempts |-> a]
<1>1. /\ m \notin submitted
      /\ scheduled' = Insert(scheduled, e)
      /\ byId' = InsertIndex(byId, e)
      /\ seq' = seq + 1
      /\ WriteSpool(e)
  BY DEF Enqueue
<1>2. TypeOK /\ IndexesAgree /\ SeqFresh /\ OnlyAccepted
  BY DEF StructInv
<1>3. a \in Nat /\ Delay(a) \in Nat
  <2>1. a \in {0, 1} /\ 1 \in 1..MaxAttempts /\ Backoff[1] \in Nat
    BY ConstantsAssumption
  <2>2. QED
    BY <2>1 DEF Delay
<1>4. e \in Entry /\ e.id = m /\ e.seq = seq /\ e.attempts = a
  BY <1>2, <1>3 DEF TypeOK, Entry
<1>5. m \notin accepted /\ m \notin Owned /\ m \notin Ids(scheduled)
  BY <1>1, <1>2 DEF TypeOK, OnlyAccepted, Owned
<1> HIDE DEF e
<1>6. /\ scheduled' = scheduled \cup {e}
      /\ scheduled' \subseteq Entry /\ byId' \subseteq IndexType
      /\ IndexesAgree' /\ SeqFresh'
      /\ Ids(scheduled)' = Ids(scheduled) \cup {m}
  BY <1>1, <1>2, <1>4, <1>5, ScheduleEffect
<1>7. QED
  BY <1>1, <1>3, <1>4, <1>5, <1>6

\* Enqueue gives the message to the map.
LEMMA StructEnqueue ==
  ASSUME StructInv, NEW m \in Messages, NEW a \in SubmitAttempts, Enqueue(m, a)
  PROVE  StructInv'
<1>1. /\ Up /\ seq' = seq + 1
      /\ submitted' = submitted \cup {m}
      /\ accepted' = accepted \cup {m}
      /\ tries' = [tries EXCEPT ![m] = a]
      /\ UNCHANGED <<phase, now, inFlight, settled, pc, held, erasing, purging, unread, skipped>>
  BY DEF Enqueue, taskVars
<1>2. TypeOK /\ IndexesAgree /\ SeqFresh /\ SingleOwner /\ OnlyAccepted /\ PhasesSeparate
      /\ ErasedIsSettled /\ AttemptCounted
  BY DEF StructInv
<1>3. /\ m \notin Owned /\ a \in Nat
      /\ scheduled' \subseteq Entry /\ byId' \subseteq IndexType
      /\ IndexesAgree' /\ SeqFresh'
      /\ Ids(scheduled)' = Ids(scheduled) \cup {m}
  BY EnqueueEffect
<1>4. PICK e \in Entry : e.id = m /\ WriteSpool(e)
  BY EnqueueEffect
<1>5. /\ spool' \in [Messages -> Pair] /\ torn' \subseteq Messages /\ mishaps' \in Nat
      /\ \A n \in Messages \ {m} : spool'[n] = spool[n]
  BY <1>2, <1>4, WriteSpoolEffect
<1>6. TypeOK'
  BY <1>1, <1>2, <1>3, <1>5 DEF TypeOK, IndexType
<1>7. Busy' = Busy /\ Sending' = Sending
  BY <1>1 DEF Busy, Sending
<1>8. m \notin erasing /\ \A w \in Busy : held[w].id # m
  BY <1>3 DEF Owned
<1>9. SingleOwner'
  BY <1>1, <1>2, <1>3, <1>7, <1>8 DEF SingleOwner
<1>10. OnlyAccepted'
  <2>1. Owned' \subseteq Owned \cup {m}
    BY <1>1, <1>3, <1>7 DEF Owned
  <2>2. QED
    BY <1>1, <1>2, <1>5, <2>1 DEF OnlyAccepted
<1>11. PhasesSeparate'
  BY <1>1, <1>2, <1>7 DEF PhasesSeparate, Up
<1>12. ErasedIsSettled' /\ AttemptCounted'
  BY <1>1, <1>2, <1>7 DEF ErasedIsSettled, AttemptCounted
<1>13. QED
  BY <1>3, <1>6, <1>9, <1>10, <1>11, <1>12 DEF StructInv

\* A refused submission is noted and nothing else.
LEMMA StructRefuse ==
  ASSUME StructInv, NEW m \in Messages, NEW a \in SubmitAttempts, Refuse(m, a)
  PROVE  StructInv'
<1> USE DEF StructInv, Refuse, queueVars, taskVars, diskVars
<1>1. a \in Nat
  BY ConstantsAssumption
<1>2. TypeOK'
  BY <1>1 DEF TypeOK
<1>3. Busy' = Busy /\ Sending' = Sending /\ Ids(scheduled)' = Ids(scheduled)
  BY DEF Busy, Sending, Ids
<1>4. IndexesAgree' /\ SeqFresh' /\ SingleOwner'
  BY <1>3 DEF IndexesAgree, SeqFresh, SingleOwner
<1>5. OnlyAccepted'
  BY <1>3 DEF OnlyAccepted, Owned
<1>6. PhasesSeparate' /\ ErasedIsSettled' /\ AttemptCounted'
  BY <1>3 DEF PhasesSeparate, Up, ErasedIsSettled, AttemptCounted
<1>7. QED
  BY <1>2, <1>4, <1>5, <1>6

\* The loop head and an empty poll move a worker between places that own nothing.
LEMMA StructLoop ==
  ASSUME StructInv, NEW w \in Workers, LoopTop(w) \/ PollEmpty(w)
  PROVE  StructInv'
<1> USE DEF StructInv
<1>1. /\ pc[w] \in {"top", "poll"}
      /\ \E k \in {"top", "poll", "stopped"} : pc' = [pc EXCEPT ![w] = k]
      /\ UNCHANGED <<phase, now, scheduled, byId, inFlight, seq, held, erasing, purging,
                     unread, skipped, spool, torn, submitted, accepted, settled, tries,
                     mishaps>>
  BY DEF LoopTop, PollEmpty, queueVars, diskVars, seenVars
<1>2. TypeOK'
  BY <1>1 DEF TypeOK
<1>3. Busy' = Busy /\ Sending' = Sending /\ Ids(scheduled)' = Ids(scheduled)
  BY <1>1 DEF Busy, Sending, Ids, TypeOK
<1>4. IndexesAgree' /\ SeqFresh' /\ SingleOwner'
  BY <1>1, <1>3 DEF IndexesAgree, SeqFresh, SingleOwner
<1>5. OnlyAccepted'
  BY <1>1, <1>3 DEF OnlyAccepted, Owned
<1>6. PhasesSeparate' /\ ErasedIsSettled' /\ AttemptCounted'
  BY <1>1, <1>3 DEF PhasesSeparate, Up, ErasedIsSettled, AttemptCounted
<1>7. QED
  BY <1>2, <1>4, <1>5, <1>6

\* Taking a message hands it from the map to one worker.
LEMMA StructTakeDue ==
  ASSUME StructInv, NEW w \in Workers, NEW e \in scheduled, TakeDue(w, e)
  PROVE  StructInv'
<1>1. /\ Up /\ pc[w] = "poll"
      /\ scheduled' = scheduled \ {e}
      /\ byId' = {i \in byId : i.id # e.id}
      /\ inFlight' = inFlight \cup {e.id}
      /\ pc' = [pc EXCEPT ![w] = "sending"]
      /\ held' = [held EXCEPT ![w] = [id |-> e.id, attempts |-> e.attempts + 1]]
      /\ tries' = [tries EXCEPT ![e.id] = @ + 1]
      /\ UNCHANGED <<phase, now, seq, erasing, purging, unread, skipped, spool, torn,
                     submitted, accepted, settled, mishaps>>
  BY DEF TakeDue, diskVars
<1>2. TypeOK /\ IndexesAgree /\ SeqFresh /\ SingleOwner /\ OnlyAccepted /\ PhasesSeparate
      /\ ErasedIsSettled /\ AttemptCounted
  BY DEF StructInv
<1>3. e \in Entry /\ e.id \in Messages /\ e.attempts \in Nat
  BY <1>2 DEF TypeOK, Entry
<1>4. /\ scheduled' \subseteq Entry /\ byId' \subseteq IndexType
      /\ IndexesAgree' /\ SeqFresh'
      /\ Ids(scheduled)' = Ids(scheduled) \ {e.id}
  BY <1>1, <1>2, UnscheduleEffect
<1>5. TypeOK'
  BY <1>1, <1>2, <1>3, <1>4 DEF TypeOK, IndexType, Job
<1>6. /\ Busy' = Busy \cup {w} /\ Sending' = Sending \cup {w}
      /\ w \notin Busy /\ w \notin Sending
  BY <1>1, <1>2 DEF Busy, Sending, TypeOK
<1>7. /\ held'[w].id = e.id
      /\ \A v \in Workers \ {w} : held'[v] = held[v]
  BY <1>1, <1>2 DEF TypeOK
<1>8. e.id \in Ids(scheduled)
  BY DEF Ids
<1>9. Busy \subseteq Workers /\ Sending \subseteq Workers
  BY DEF Busy, Sending
<1>10. SingleOwner'
  <2>1. inFlight' = {held'[v].id : v \in Sending'}
    BY <1>1, <1>2, <1>6, <1>7, <1>9 DEF SingleOwner
  <2>2. \A v \in Busy : held'[v].id = held[v].id /\ held[v].id # e.id
    BY <1>2, <1>6, <1>7, <1>8, <1>9 DEF SingleOwner
  <2>3. \A v, x \in Busy' : held'[v].id = held'[x].id => x = v
    BY <1>2, <1>6, <1>7, <2>2 DEF SingleOwner
  <2>4. \A v \in Busy' : held'[v].id \notin Ids(scheduled)' \cup erasing'
    <3>1. e.id \notin Ids(scheduled)' \cup erasing'
      BY <1>1, <1>2, <1>4, <1>8 DEF SingleOwner
    <3>2. \A v \in Busy : held[v].id \notin Ids(scheduled)' \cup erasing'
      BY <1>1, <1>2, <1>4 DEF SingleOwner
    <3>3. QED
      BY <1>6, <1>7, <2>2, <3>1, <3>2
  <2>5. Ids(scheduled)' \cap erasing' = {}
    BY <1>1, <1>2, <1>4 DEF SingleOwner
  <2>6. QED
    BY <2>1, <2>3, <2>4, <2>5 DEF SingleOwner
<1>11. OnlyAccepted'
  <2>1. Owned' \subseteq Owned
    BY <1>1, <1>4, <1>6, <1>7, <1>8, <1>9 DEF Owned
  <2>2. QED
    BY <1>1, <1>2, <2>1 DEF OnlyAccepted
<1>12. PhasesSeparate'
  BY <1>1, <1>2, <1>4 DEF PhasesSeparate, Up
<1>13. ErasedIsSettled' /\ AttemptCounted'
  <2>1. held'[w].attempts = e.attempts + 1
    BY <1>1, <1>2 DEF TypeOK
  <2>2. QED
    BY <1>1, <1>2, <1>3, <1>6, <1>7, <1>9, <2>1 DEF ErasedIsSettled, AttemptCounted
<1>14. QED
  BY <1>4, <1>5, <1>10, <1>11, <1>12, <1>13 DEF StructInv

\* Finish keeps the message with its worker until the files are gone.
LEMMA StructFinish ==
  ASSUME StructInv, NEW w \in Workers, Finish(w)
  PROVE  StructInv'
<1>1. /\ Up /\ pc[w] = "sending"
      /\ inFlight' = inFlight \ {held[w].id}
      /\ settled' = settled \cup {held[w].id}
      /\ pc' = [pc EXCEPT ![w] = "erasing"]
      /\ UNCHANGED <<phase, now, scheduled, byId, seq, held, erasing, purging, unread, skipped,
                     spool, torn, submitted, accepted, tries, mishaps>>
  BY DEF Finish, diskVars
<1>2. TypeOK /\ IndexesAgree /\ SeqFresh /\ SingleOwner /\ OnlyAccepted /\ PhasesSeparate
      /\ ErasedIsSettled /\ AttemptCounted
  BY DEF StructInv
<1>3. /\ Busy' = Busy /\ Sending' = Sending \ {w} /\ w \in Sending
      /\ Sending \subseteq Busy /\ Busy \subseteq Workers
      /\ Ids(scheduled)' = Ids(scheduled)
  BY <1>1, <1>2 DEF Busy, Sending, TypeOK, Ids
<1>4. held[w].id \in accepted
  BY <1>2, <1>3 DEF OnlyAccepted, Owned
<1>5. TypeOK'
  BY <1>1, <1>2, <1>4 DEF TypeOK
<1>6. IndexesAgree' /\ SeqFresh'
  BY <1>1, <1>2 DEF IndexesAgree, SeqFresh
<1>7. SingleOwner'
  BY <1>1, <1>2, <1>3 DEF SingleOwner
<1>8. OnlyAccepted'
  BY <1>1, <1>2, <1>3 DEF OnlyAccepted, Owned
<1>9. PhasesSeparate' /\ ErasedIsSettled' /\ AttemptCounted'
  BY <1>1, <1>2, <1>3 DEF PhasesSeparate, ErasedIsSettled, Up, AttemptCounted
<1>10. QED
  BY <1>5, <1>6, <1>7, <1>8, <1>9 DEF StructInv

\* remove_spool after finish, and after a removal: files disappear, and the
\* worker, or the operator's call, owns nothing any more.
LEMMA StructErase ==
  ASSUME StructInv,
         \/ \E w \in Workers : FinishErase(w)
         \/ \E m \in Messages : RemoveErase(m)
  PROVE  StructInv'
<1>1. /\ \E m \in Messages \cup {None} :
           spool' = IF Persist THEN [spool EXCEPT ![m] = NoPair] ELSE spool
      /\ Up
      /\ UNCHANGED <<phase, now, scheduled, byId, inFlight, seq, purging, unread, skipped,
                     torn, submitted, accepted, settled, tries, mishaps>>
      /\ \/ /\ \E w \in Workers : /\ pc[w] = "erasing"
                                   /\ pc' = [pc EXCEPT ![w] = "top"]
                                   /\ held' = [held EXCEPT ![w] = Idle]
            /\ erasing' = erasing
         \/ pc' = pc /\ held' = held /\ erasing' \subseteq erasing
  BY DEF FinishErase, RemoveErase, StructInv, TypeOK, Job, queueVars, seenVars
<1>2. TypeOK /\ IndexesAgree /\ SeqFresh /\ SingleOwner /\ OnlyAccepted /\ PhasesSeparate
      /\ ErasedIsSettled /\ AttemptCounted
  BY DEF StructInv
<1>3. /\ spool' \in [Messages -> Pair]
      /\ \A n \in Messages : spool'[n] = spool[n] \/ spool'[n] = NoPair
  <2>1. NoPair \in Pair
    BY DEF NoPair, Pair
  <2>2. spool \in [Messages -> Pair]
    BY <1>2 DEF TypeOK
  <2>3. QED
    BY <1>1, <2>1, <2>2
<1>4. TypeOK'
  BY <1>1, <1>2, <1>3 DEF TypeOK, Job, Idle
<1>5. /\ Busy' \subseteq Busy /\ Sending' = Sending /\ Sending \subseteq Busy
      /\ \A w \in Busy' : held'[w] = held[w]
      /\ Ids(scheduled)' = Ids(scheduled) /\ erasing' \subseteq erasing
  BY <1>1, <1>2 DEF Busy, Sending, TypeOK, Ids
<1>6. Sending' \subseteq Busy'
  BY DEF Sending, Busy
<1>7. IndexesAgree' /\ SeqFresh'
  BY <1>1, <1>2 DEF IndexesAgree, SeqFresh
<1>8. SingleOwner'
  BY <1>1, <1>2, <1>5, <1>6 DEF SingleOwner
<1>9. OnlyAccepted'
  BY <1>1, <1>2, <1>3, <1>5 DEF OnlyAccepted, Owned, NoPair
<1>10. PhasesSeparate' /\ ErasedIsSettled' /\ AttemptCounted'
  BY <1>1, <1>2, <1>5, <1>6 DEF PhasesSeparate, ErasedIsSettled, Up, AttemptCounted
<1>11. QED
  BY <1>4, <1>7, <1>8, <1>9, <1>10 DEF StructInv

\* What a requeue writes: the message its worker held, under a fresh key.
LEMMA RequeueEffect ==
  ASSUME StructInv, NEW w \in Workers, Requeue(w)
  PROVE  /\ w \in Sending /\ held[w].id \in inFlight \cap Messages \cap accepted
         /\ held[w].id \notin Ids(scheduled) /\ held[w].id \notin erasing
         /\ held[w].attempts \in 1..MaxAttempts /\ held[w].attempts < MaxAttempts
         /\ \E e \in Entry : /\ e.id = held[w].id /\ e.attempts = held[w].attempts
                             /\ WriteSpool(e)
                             /\ scheduled' = scheduled \cup {e}
         /\ scheduled' \subseteq Entry /\ byId' \subseteq IndexType
         /\ IndexesAgree' /\ SeqFresh'
         /\ Ids(scheduled)' = Ids(scheduled) \cup {held[w].id}
<1> DEFINE e == [id |-> held[w].id, due |-> now + Backoff[held[w].attempts],
                 seq |-> seq, attempts |-> held[w].attempts]
<1>1. /\ pc[w] = "sending"
      /\ held[w].attempts < MaxAttempts
      /\ scheduled' = Insert(scheduled, e)
      /\ byId' = InsertIndex(byId, e)
      /\ seq' = seq + 1
      /\ WriteSpool(e)
  BY DEF Requeue
<1>2. TypeOK /\ IndexesAgree /\ SeqFresh /\ SingleOwner /\ OnlyAccepted /\ AttemptCounted
  BY DEF StructInv
<1>3. w \in Sending /\ w \in Busy
  BY <1>1 DEF Busy, Sending
<1>4. held[w].attempts \in 1..MaxAttempts
  <2>1. held[w] \in Job /\ held[w].attempts # 0
    BY <1>2, <1>3 DEF TypeOK, AttemptCounted
  <2>2. QED
    BY <1>1, <2>1, ConstantsAssumption DEF Job
<1>5. /\ held[w].id \in inFlight \cap Messages \cap accepted
      /\ held[w].id \notin Ids(scheduled) /\ held[w].id \notin erasing
  BY <1>2, <1>3 DEF OnlyAccepted, Owned, SingleOwner, TypeOK
<1>6. Backoff[held[w].attempts] \in Nat /\ held[w].attempts \in Nat
  BY <1>4, ConstantsAssumption
<1>7. e \in Entry /\ e.id = held[w].id /\ e.seq = seq /\ e.attempts = held[w].attempts
  BY <1>2, <1>5, <1>6 DEF TypeOK, Entry
<1> HIDE DEF e
<1>8. /\ scheduled' = scheduled \cup {e}
      /\ scheduled' \subseteq Entry /\ byId' \subseteq IndexType
      /\ IndexesAgree' /\ SeqFresh'
      /\ Ids(scheduled)' = Ids(scheduled) \cup {held[w].id}
  BY <1>1, <1>2, <1>5, <1>7, ScheduleEffect
<1>9. QED
  BY <1>1, <1>3, <1>4, <1>5, <1>7, <1>8

\* Requeue hands the message back from its worker to the map.
LEMMA StructRequeue ==
  ASSUME StructInv, NEW w \in Workers, Requeue(w)
  PROVE  StructInv'
<1>1. /\ Up /\ inFlight' = inFlight \ {held[w].id}
      /\ seq' = seq + 1
      /\ pc[w] = "sending" /\ pc' = [pc EXCEPT ![w] = "top"]
      /\ held' = [held EXCEPT ![w] = Idle]
      /\ UNCHANGED <<phase, now, erasing, purging, unread, skipped, submitted, accepted,
                     settled, tries>>
  BY DEF Requeue, seenVars
<1>2. TypeOK /\ IndexesAgree /\ SeqFresh /\ SingleOwner /\ OnlyAccepted /\ PhasesSeparate
      /\ ErasedIsSettled /\ AttemptCounted
  BY DEF StructInv
<1>3. /\ w \in Sending /\ w \in Busy
      /\ Sending' = Sending \ {w} /\ Busy' = Busy \ {w}
      /\ Sending \subseteq Busy /\ Busy \subseteq Workers
  BY <1>1, <1>2 DEF Busy, Sending, TypeOK
<1>4. /\ held[w].id \in accepted /\ held[w].id \in Messages /\ held[w].id \notin erasing
      /\ scheduled' \subseteq Entry /\ byId' \subseteq IndexType
      /\ IndexesAgree' /\ SeqFresh'
      /\ Ids(scheduled)' = Ids(scheduled) \cup {held[w].id}
  BY RequeueEffect
<1>5. PICK e \in Entry : e.id = held[w].id /\ WriteSpool(e)
  BY RequeueEffect
<1>6. /\ spool' \in [Messages -> Pair] /\ torn' \subseteq Messages /\ mishaps' \in Nat
      /\ \A n \in Messages \ {held[w].id} : spool'[n] = spool[n]
  BY <1>2, <1>5, WriteSpoolEffect
<1>7. Idle \in Job
  BY DEF Idle, Job
<1>8. TypeOK'
  BY <1>1, <1>2, <1>4, <1>6, <1>7 DEF TypeOK, IndexType
<1>9. \A v \in Busy' : held'[v] = held[v] /\ held[v].id # held[w].id
  BY <1>1, <1>2, <1>3 DEF SingleOwner, TypeOK
<1>10. Sending' \subseteq Busy' /\ Busy' \subseteq Busy
  BY <1>3
<1>11. SingleOwner'
  <2>1. inFlight' = {held'[v].id : v \in Sending'}
    BY <1>1, <1>2, <1>3, <1>9, <1>10 DEF SingleOwner
  <2>2. \A v, x \in Busy' : held'[v].id = held'[x].id => x = v
    BY <1>2, <1>9, <1>10 DEF SingleOwner
  <2>3. \A v \in Busy' : held'[v].id \notin Ids(scheduled)' \cup erasing'
    BY <1>1, <1>2, <1>4, <1>9, <1>10 DEF SingleOwner
  <2>4. Ids(scheduled)' \cap erasing' = {}
    BY <1>1, <1>2, <1>4 DEF SingleOwner
  <2>5. QED
    BY <2>1, <2>2, <2>3, <2>4 DEF SingleOwner
<1>12. OnlyAccepted'
  <2>1. Owned' \subseteq Owned
    BY <1>1, <1>3, <1>4, <1>9, <1>10 DEF Owned
  <2>2. held[w].id \in submitted
    BY <1>2, <1>4 DEF TypeOK
  <2>3. QED
    BY <1>1, <1>2, <1>4, <1>6, <2>1, <2>2 DEF OnlyAccepted
<1>13. PhasesSeparate'
  BY <1>1, <1>2, <1>10 DEF PhasesSeparate, Up
<1>14. ErasedIsSettled' /\ AttemptCounted'
  BY <1>1, <1>2, <1>3, <1>9, <1>10 DEF ErasedIsSettled, AttemptCounted
<1>15. QED
  BY <1>4, <1>8, <1>11, <1>12, <1>13, <1>14 DEF StructInv

\* What an operator removes goes from the map to the operator's call.
LEMMA StructRemove ==
  ASSUME StructInv, NEW m \in Messages, Unschedule(m), Up,
         purging' \subseteq purging,
         UNCHANGED <<phase, now, inFlight, seq, pc, held, unread, skipped,
                     spool, torn, submitted, accepted, tries, mishaps>>
  PROVE  StructInv'
<1>1. TypeOK /\ IndexesAgree /\ SeqFresh /\ SingleOwner /\ OnlyAccepted /\ PhasesSeparate
      /\ ErasedIsSettled /\ AttemptCounted
  BY DEF StructInv
<1>2. PICK e \in scheduled : /\ e.id = m
                             /\ scheduled' = scheduled \ {e}
                             /\ byId' = {i \in byId : i.id # e.id}
                             /\ settled' = settled \cup {m}
                             /\ erasing' = erasing \cup {m}
  BY <1>1, UnscheduleIsRemoval
<1>3. /\ scheduled' \subseteq Entry /\ byId' \subseteq IndexType
      /\ IndexesAgree' /\ SeqFresh'
      /\ Ids(scheduled)' = Ids(scheduled) \ {m}
  BY <1>1, <1>2, UnscheduleEffect
<1>4. m \in Ids(scheduled) /\ m \in accepted
  BY <1>1, <1>2 DEF Ids, OnlyAccepted, Owned
<1>5. TypeOK'
  BY <1>1, <1>2, <1>3, <1>4 DEF TypeOK, IndexType
<1>6. Busy' = Busy /\ Sending' = Sending
  BY DEF Busy, Sending
<1>7. SingleOwner'
  BY <1>1, <1>2, <1>3, <1>4, <1>6 DEF SingleOwner
<1>8. OnlyAccepted'
  <2>1. Owned' \subseteq Owned
    BY <1>2, <1>3, <1>4, <1>6 DEF Owned
  <2>2. QED
    BY <1>1, <2>1 DEF OnlyAccepted
<1>9. PhasesSeparate'
  BY <1>1, <1>3 DEF PhasesSeparate, Up
<1>10. ErasedIsSettled' /\ AttemptCounted'
  BY <1>1, <1>2, <1>6 DEF ErasedIsSettled, AttemptCounted
<1>11. QED
  BY <1>3, <1>5, <1>7, <1>8, <1>9, <1>10 DEF StructInv

\* Steps that only touch the process phase, the clock, the ids a purge has
\* copied, or nothing at all, and keep the process where it may own messages.
LEMMA StructIdle ==
  ASSUME StructInv,
         phase' = phase \/ (phase' \in {"draining", "closing"} /\ Up),
         now' \in Nat, purging' \subseteq Messages,
         UNCHANGED <<scheduled, byId, inFlight, seq, pc, held, erasing, unread, skipped,
                     spool, torn, submitted, accepted, settled, tries, mishaps>>
  PROVE  StructInv'
<1> USE DEF StructInv
<1>1. TypeOK'
  BY DEF TypeOK
<1>2. Busy' = Busy /\ Sending' = Sending /\ Ids(scheduled)' = Ids(scheduled)
  BY DEF Busy, Sending, Ids
<1>3. IndexesAgree' /\ SeqFresh' /\ SingleOwner'
  BY <1>2 DEF IndexesAgree, SeqFresh, SingleOwner
<1>4. OnlyAccepted'
  BY <1>2 DEF OnlyAccepted, Owned
<1>5. PhasesSeparate'
  BY <1>2 DEF PhasesSeparate, Up
<1>6. ErasedIsSettled' /\ AttemptCounted'
  BY <1>2 DEF ErasedIsSettled, AttemptCounted
<1>7. QED
  BY <1>1, <1>3, <1>4, <1>5, <1>6

\* A purge copies the ids and then removes them one by one.
LEMMA StructPurge ==
  ASSUME StructInv, StartPurge \/ \E m \in Messages : PurgeOne(m)
  PROVE  StructInv'
<1>1. CASE StartPurge
  <2>1. purging' \subseteq Messages
    BY <1>1 DEF StartPurge, StructInv, TypeOK
  <2>2. now' \in Nat
    BY <1>1 DEF StartPurge, StructInv, TypeOK
  <2>3. QED
    BY <1>1, <2>1, <2>2, StructIdle DEF StartPurge, queueVars, diskVars, seenVars
<1>2. CASE \E m \in Messages : PurgeOne(m)
  <2> PICK m \in Messages : PurgeOne(m)
    BY <1>2
  <2>1. CASE Unschedule(m)
    BY <2>1, StructRemove DEF PurgeOne, diskVars
  <2>2. CASE UNCHANGED <<byId, scheduled, settled, erasing>>
    <3>1. purging' \subseteq Messages /\ now' \in Nat
      BY DEF PurgeOne, StructInv, TypeOK
    <3>2. QED
      BY <2>2, <3>1, StructIdle DEF PurgeOne, diskVars
  <2>3. QED
    BY <2>1, <2>2 DEF PurgeOne
<1>3. QED
  BY <1>1, <1>2

\* The map is finite: its ids are distinct.
LEMMA ScheduledFinite ==
  ASSUME TypeOK, IndexesAgree
  PROVE  IsFiniteSet(scheduled) /\ Cardinality(scheduled) \in Nat
<1> DEFINE f == [e \in scheduled |-> e.id]
<1>1. f \in [scheduled -> Messages]
  BY DEF TypeOK, Entry
<1>2. \A d, e \in scheduled : f[d] = f[e] => d = e
  BY DEF IndexesAgree
<1>3. f \in Injection(scheduled, Messages)
  BY <1>1, <1>2 DEF Injection, IsInjective
<1>4. QED
  BY <1>3, FS_Injection, FS_CardinalityType, ConstantsAssumption DEF ExistsInjection

\* A flush moves entries in time and changes nothing else of them.
LEMMA FlushKeepsIds ==
  ASSUME FlushNow
  PROVE  /\ Ids(scheduled)' = Ids(scheduled)
         /\ \A e \in scheduled' : \E d \in scheduled : e.id = d.id /\ e.attempts = d.attempts
<1> DEFINE moved == {e \in scheduled : e.due > now}
<1>1. PICK rank \in [moved -> 0..(Cardinality(moved) - 1)] :
        scheduled' = (scheduled \ moved) \cup {Hastened(e, seq + rank[e]) : e \in moved}
  BY DEF FlushNow
<1> DEFINE New(e) == Hastened(e, seq + rank[e])
<1>2. \A e \in moved : New(e).id = e.id /\ New(e).attempts = e.attempts
  BY DEF Hastened
<1>3. scheduled' = (scheduled \ moved) \cup {New(e) : e \in moved}
  BY <1>1
<1> HIDE DEF New
<1>4. QED
  BY <1>2, <1>3 DEF Ids

\* flush_now gives every moved entry a key of its own: fresh sequence numbers,
\* handed out in key order.
LEMMA StructFlushNow ==
  ASSUME StructInv, FlushNow
  PROVE  StructInv'
<1> DEFINE moved == {e \in scheduled : e.due > now}
<1>1. TypeOK /\ IndexesAgree /\ SeqFresh /\ SingleOwner /\ OnlyAccepted /\ PhasesSeparate
      /\ ErasedIsSettled /\ AttemptCounted
  BY DEF StructInv
<1>2. PICK rank \in [moved -> 0..(Cardinality(moved) - 1)] :
        /\ \A d, e \in moved : KeyBefore(d, e) <=> rank[d] < rank[e]
        /\ scheduled' = (scheduled \ moved) \cup {Hastened(e, seq + rank[e]) : e \in moved}
        /\ byId' = {i \in byId : i.id \notin Ids(moved)}
                     \cup {IndexOf(Hastened(e, seq + rank[e])) : e \in moved}
  BY DEF FlushNow
<1>3. /\ Up /\ seq' = seq + Cardinality(moved)
      /\ UNCHANGED <<phase, now, inFlight, pc, held, erasing, purging, unread, skipped,
                     spool, torn, submitted, accepted, settled, tries, mishaps>>
  BY DEF FlushNow, taskVars, diskVars, seenVars
<1>4. Cardinality(moved) \in Nat
  BY <1>1, ScheduledFinite, FS_Subset, FS_CardinalityType
<1> DEFINE New(e) == Hastened(e, seq + rank[e])
<1>5. \A e \in scheduled : e \in Entry /\ e.seq < seq /\ seq \in Nat /\ now \in Nat
  BY <1>1 DEF TypeOK, SeqFresh
<1>6. \A e \in moved : rank[e] \in Nat /\ rank[e] < Cardinality(moved)
  BY <1>2, <1>4
<1>7. \A e \in moved : /\ New(e) \in Entry /\ New(e).id = e.id /\ New(e).due = now
                       /\ New(e).seq = seq + rank[e]
                       /\ New(e).seq >= seq /\ New(e).seq < seq'
  BY <1>3, <1>4, <1>5, <1>6 DEF Hastened, Entry
<1>8. \A d, e \in moved : rank[d] = rank[e] => d = e
  <2> TAKE d, e \in moved
  <2>1. d.due \in Nat /\ e.due \in Nat /\ d.seq \in Nat /\ e.seq \in Nat
    BY <1>5 DEF Entry
  <2>2. rank[d] = rank[e] => ~KeyBefore(d, e) /\ ~KeyBefore(e, d)
    <3>1. /\ KeyBefore(d, e) <=> rank[d] < rank[e]
          /\ KeyBefore(e, d) <=> rank[e] < rank[d]
      BY <1>2
    <3>2. rank[d] \in Nat /\ rank[e] \in Nat
      BY <1>6
    <3>3. QED
      BY <3>1, <3>2
  <2>3. rank[d] = rank[e] => Key(d) = Key(e)
    BY <2>1, <2>2 DEF KeyBefore, Key
  <2>4. QED
    BY <1>1, <2>3 DEF IndexesAgree
<1>9. scheduled' = (scheduled \ moved) \cup {New(e) : e \in moved}
  BY <1>2
<1>10. byId' = {IndexOf(e) : e \in scheduled'}
  <2>1. {i \in byId : i.id \notin Ids(moved)} = {IndexOf(e) : e \in scheduled \ moved}
    <3>1. \A e \in scheduled : e.id \in Ids(moved) <=> e \in moved
      BY <1>1 DEF Ids, IndexesAgree
    <3>2. QED
      BY <1>1, <3>1 DEF IndexesAgree, IndexOf
  <2> HIDE DEF New
  <2>2. {IndexOf(New(e)) : e \in moved} = {IndexOf(d) : d \in {New(e) : e \in moved}}
    OBVIOUS
  <2>3. {IndexOf(d) : d \in scheduled'}
          = {IndexOf(e) : e \in scheduled \ moved} \cup {IndexOf(New(e)) : e \in moved}
    BY <1>9, <2>2
  <2>4. byId' = {i \in byId : i.id \notin Ids(moved)} \cup {IndexOf(New(e)) : e \in moved}
    BY <1>2 DEF New
  <2>5. QED
    BY <2>1, <2>3, <2>4
<1> HIDE DEF New
<1>11. \A d, e \in scheduled' : d.id = e.id \/ Key(d) = Key(e) => d = e
  <2>1. \A d, e \in scheduled \ moved : d.id = e.id \/ Key(d) = Key(e) => d = e
    BY <1>1 DEF IndexesAgree
  <2>2. \A d, e \in moved : New(d).id = New(e).id \/ Key(New(d)) = Key(New(e)) => New(d) = New(e)
    <3> TAKE d, e \in moved
    <3>1. New(d).id = New(e).id => d = e
      BY <1>1, <1>7 DEF IndexesAgree
    <3>2. Key(New(d)) = Key(New(e)) => rank[d] = rank[e]
      <4>1. Key(New(d)) = Key(New(e)) => New(d).seq = New(e).seq
        BY KeyParts
      <4>2. New(d).seq = seq + rank[d] /\ New(e).seq = seq + rank[e]
        BY <1>7
      <4>3. rank[d] \in Nat /\ rank[e] \in Nat /\ seq \in Nat
        BY <1>5, <1>6
      <4>4. QED
        BY <4>1, <4>2, <4>3
    <3>3. QED
      BY <1>8, <3>1, <3>2
  <2>3. \A d \in scheduled \ moved, e \in moved : d.id # New(e).id /\ Key(d) # Key(New(e))
    <3> TAKE d \in scheduled \ moved, e \in moved
    <3>1. d.id # New(e).id
      BY <1>1, <1>7 DEF IndexesAgree
    <3>2. d.seq # New(e).seq
      BY <1>5, <1>6, <1>7 DEF Entry
    <3>3. QED
      BY <3>1, <3>2, KeyParts
  <2>4. QED
    BY <1>9, <2>1, <2>2, <2>3
<1>12. IndexesAgree'
  BY <1>10, <1>11 DEF IndexesAgree
<1>13. SeqFresh'
  BY <1>3, <1>4, <1>5, <1>7, <1>9 DEF SeqFresh, Entry
<1>14. Ids(scheduled)' = Ids(scheduled)
  BY <1>7, <1>9 DEF Ids
<1>15. scheduled' \subseteq Entry
  BY <1>5, <1>7, <1>9
<1>16. byId' \subseteq IndexType
  BY <1>10, <1>15 DEF IndexOf, Entry, IndexType
<1>17. TypeOK'
  BY <1>1, <1>3, <1>4, <1>15, <1>16 DEF TypeOK, IndexType
<1>18. Busy' = Busy /\ Sending' = Sending
  BY <1>3 DEF Busy, Sending
<1>19. SingleOwner'
  BY <1>1, <1>3, <1>14, <1>18 DEF SingleOwner
<1>20. OnlyAccepted'
  BY <1>1, <1>3, <1>14, <1>18 DEF OnlyAccepted, Owned
<1>21. PhasesSeparate'
  BY <1>1, <1>3 DEF PhasesSeparate, Up
<1>22. ErasedIsSettled' /\ AttemptCounted'
  BY <1>1, <1>3, <1>18 DEF ErasedIsSettled, AttemptCounted
<1>23. QED
  BY <1>12, <1>13, <1>17, <1>19, <1>20, <1>21, <1>22 DEF StructInv

\* What a kill or an exit leaves of the spool: metadata is readable only where
\* it was, with the counts it had, and nothing appears for a message whose
\* submission the process had not begun.
LEMMA SpoolAfterEnd ==
  ASSUME StructInv, Exit \/ Crash
  PROVE  /\ spool' \in [Messages -> Pair] /\ torn' \subseteq Messages
         /\ submitted \subseteq submitted' /\ submitted' \subseteq Messages
         /\ \A m \in Messages :
              spool'[m].meta = "full" =>
                spool[m].meta = "full" /\ spool'[m].attempts = spool[m].attempts
         /\ \A m \in Messages \ submitted' : spool'[m].meta = "absent"
         /\ \A m \in Messages :
              Complete(spool'[m]) => Complete(spool[m]) \/ m \in inFlight
         /\ ~Persist => spool' = spool
<1>1. /\ TypeOK /\ OnlyAccepted /\ SingleOwner
  BY DEF StructInv
<1>2. CASE Exit
  BY <1>1, <1>2 DEF Exit, diskVars, TypeOK, OnlyAccepted
<1>3. CASE Crash
  <2> DEFINE left(H) == [m \in Messages |-> IF m \in H THEN [spool[m] EXCEPT !.meta = "absent"]
                                                      ELSE spool[m]]
             writing == IF Persist /\ Up
                        THEN (Messages \ submitted) \cup {held[w].id : w \in Sending}
                        ELSE {}
  <2>1. PICK H \in SUBSET (IF Persist THEN erasing \cup {held[w].id : w \in Busy \ Sending} ELSE {}) :
          \/ spool' = left(H) /\ UNCHANGED <<torn, submitted>>
          \/ \E m \in writing : \E p \in HalfWritten(spool[m]) :
               /\ spool' = [left(H) EXCEPT ![m] = p]
               /\ torn' = IF Complete(p) THEN torn \ {m} ELSE torn \cup {m}
               /\ submitted' = submitted \cup {m}
    BY <1>3 DEF Crash
  <2>2. \A m \in Messages : spool[m] \in Pair
    BY <1>1 DEF TypeOK
  <2>3. \A m \in Messages :
          /\ left(H)[m] \in Pair
          /\ \/ left(H)[m] = spool[m]
             \/ left(H)[m].meta = "absent"
    <3> TAKE m \in Messages
    <3>1. [spool[m] EXCEPT !.meta = "absent"] \in Pair
          /\ [spool[m] EXCEPT !.meta = "absent"].meta = "absent"
      BY <2>2 DEF Pair
    <3>2. QED
      BY <2>2, <3>1
  <2>4. left(H) \in [Messages -> Pair]
    BY <2>3
  <2>5. ~Persist => left(H) = spool /\ writing = {}
    BY <1>1 DEF TypeOK
  <2> HIDE DEF left
  <2>6. CASE spool' = left(H) /\ UNCHANGED <<torn, submitted>>
    <3>1. /\ spool' \in [Messages -> Pair] /\ torn' \subseteq Messages
          /\ submitted \subseteq submitted' /\ submitted' \subseteq Messages
      BY <1>1, <2>4, <2>6 DEF TypeOK
    <3>2. \A m \in Messages : spool'[m].meta = "full" =>
                                spool[m].meta = "full" /\ spool'[m].attempts = spool[m].attempts
      BY <2>3, <2>6
    <3>3. \A m \in Messages \ submitted' : spool'[m].meta = "absent"
      BY <1>1, <2>3, <2>6 DEF OnlyAccepted
    <3>4. \A m \in Messages : Complete(spool'[m]) => Complete(spool[m])
      BY <2>3, <2>6 DEF Complete
    <3>5. QED
      BY <2>5, <2>6, <3>1, <3>2, <3>3, <3>4
  <2>7. ASSUME NEW m \in writing, NEW p \in HalfWritten(spool[m]),
               spool' = [left(H) EXCEPT ![m] = p],
               torn' = IF Complete(p) THEN torn \ {m} ELSE torn \cup {m},
               submitted' = submitted \cup {m}
        PROVE  /\ spool' \in [Messages -> Pair] /\ torn' \subseteq Messages
               /\ submitted \subseteq submitted' /\ submitted' \subseteq Messages
               /\ \A n \in Messages :
                    spool'[n].meta = "full" =>
                      spool[n].meta = "full" /\ spool'[n].attempts = spool[n].attempts
               /\ \A n \in Messages \ submitted' : spool'[n].meta = "absent"
               /\ \A n \in Messages :
                    Complete(spool'[n]) => Complete(spool[n]) \/ n \in inFlight
               /\ ~Persist => spool' = spool
    <3>1. m \in Messages /\ (m \in inFlight \/ spool[m].meta = "absent")
      <4>1. \A w \in Sending : held[w].id \in inFlight
        BY <1>1 DEF SingleOwner
      <4>2. QED
        BY <1>1, <4>1 DEF TypeOK, OnlyAccepted
    <3> HIDE DEF writing
    <3>2. p \in Pair /\ (p.meta = "full" => spool[m].meta = "full" /\ p.attempts = spool[m].attempts)
      BY <2>2, <3>1, HalfWrittenType
    <3>3. /\ spool' \in [Messages -> Pair] /\ torn' \subseteq Messages
          /\ submitted \subseteq submitted' /\ submitted' \subseteq Messages
      BY <1>1, <2>4, <2>7, <3>1, <3>2 DEF TypeOK
    <3>4. \A n \in Messages : spool'[n] = IF n = m THEN p ELSE left(H)[n]
      BY <2>4, <2>7, <3>1
    <3>5. \A n \in Messages : spool'[n].meta = "full" =>
                                spool[n].meta = "full" /\ spool'[n].attempts = spool[n].attempts
      BY <2>3, <3>2, <3>4
    <3>6. \A n \in Messages \ submitted' : spool'[n].meta = "absent"
      BY <1>1, <2>3, <2>7, <3>4 DEF OnlyAccepted
    <3>7. Persist
      BY <2>5, <2>7
    <3>8. \A n \in Messages : Complete(spool'[n]) => Complete(spool[n]) \/ n \in inFlight
      BY <2>3, <3>1, <3>2, <3>4 DEF Complete
    <3>9. QED
      BY <3>3, <3>5, <3>6, <3>7, <3>8
  <2>8. QED
    BY <2>1, <2>6, <2>7
<1>4. QED
  BY <1>2, <1>3

\* The memory of the process goes with it.
LEMMA StructEnd == ASSUME StructInv, Exit \/ Crash PROVE StructInv'
<1>1. /\ phase' = "down" /\ mishaps' = mishaps + 1
      /\ scheduled' = {} /\ byId' = {} /\ inFlight' = {} /\ seq' = 0
      /\ pc' = [w \in Workers |-> "stopped"] /\ held' = [w \in Workers |-> Idle]
      /\ erasing' = {} /\ purging' = {} /\ unread' = {} /\ skipped' = {}
      /\ UNCHANGED <<now, accepted, settled, tries>>
  BY DEF Die, Exit, Crash
<1>2. TypeOK /\ OnlyAccepted
  BY DEF StructInv
<1>3. Idle \in Job
  BY DEF Idle, Job
<1>4. TypeOK'
  BY <1>1, <1>2, <1>3, SpoolAfterEnd DEF TypeOK
<1>5. Busy' = {} /\ Sending' = {} /\ Ids(scheduled)' = {}
  BY <1>1 DEF Busy, Sending, Ids
<1>6. IndexesAgree' /\ SeqFresh' /\ SingleOwner'
  BY <1>1, <1>5 DEF IndexesAgree, SeqFresh, SingleOwner
<1>7. OnlyAccepted'
  BY <1>1, <1>2, <1>5, SpoolAfterEnd DEF OnlyAccepted, Owned
<1>8. PhasesSeparate' /\ ErasedIsSettled' /\ AttemptCounted'
  BY <1>1, <1>5 DEF PhasesSeparate, Up, ErasedIsSettled, AttemptCounted
<1>9. QED
  BY <1>4, <1>6, <1>7, <1>8 DEF StructInv

\* What recovery puts back: a message the spool holds and the map does not.
LEMMA RecoverLoadEffect ==
  ASSUME StructInv, NEW m \in Messages, RecoverLoad(m)
  PROVE  /\ m \in accepted /\ m \notin Ids(scheduled)
         /\ \E e \in Entry : /\ e.id = m /\ e.attempts = spool[m].attempts
                             /\ scheduled' = scheduled \cup {e}
         /\ scheduled' \subseteq Entry /\ byId' \subseteq IndexType
         /\ IndexesAgree' /\ SeqFresh'
         /\ Ids(scheduled)' = Ids(scheduled) \cup {m}
<1> DEFINE e == [id |-> m, due |-> spool[m].due, seq |-> seq, attempts |-> spool[m].attempts]
<1>1. /\ m \in unread /\ Complete(spool[m])
      /\ scheduled' = Insert(scheduled, e)
      /\ byId' = InsertIndex(byId, e)
      /\ seq' = seq + 1
  BY DEF RecoverLoad
<1>2. TypeOK /\ IndexesAgree /\ SeqFresh /\ OnlyAccepted /\ PhasesSeparate
  BY DEF StructInv
<1>3. e \in Entry /\ e.id = m /\ e.seq = seq /\ e.attempts = spool[m].attempts
  <2>1. spool[m] \in Pair
    BY <1>2 DEF TypeOK
  <2>2. QED
    BY <1>2, <2>1 DEF TypeOK, Entry, Pair
<1>4. m \in accepted /\ m \notin Ids(scheduled)
  BY <1>1, <1>2 DEF OnlyAccepted, Complete, PhasesSeparate
<1> HIDE DEF e
<1>5. /\ scheduled' = scheduled \cup {e}
      /\ scheduled' \subseteq Entry /\ byId' \subseteq IndexType
      /\ IndexesAgree' /\ SeqFresh'
      /\ Ids(scheduled)' = Ids(scheduled) \cup {m}
  BY <1>1, <1>2, <1>3, <1>4, ScheduleEffect
<1>6. QED
  BY <1>3, <1>4, <1>5

\* Recovery puts back only what the spool holds of mail that was taken over,
\* each message at most once.
LEMMA StructRecoverLoad ==
  ASSUME StructInv, NEW m \in Messages, RecoverLoad(m)
  PROVE  StructInv'
<1>1. /\ phase = "recovering" /\ seq' = seq + 1
      /\ unread' = unread \ {m} /\ settled' = settled \ {m}
      /\ UNCHANGED <<phase, now, inFlight, pc, held, erasing, purging, skipped, spool, torn,
                     submitted, accepted, tries, mishaps>>
  BY DEF RecoverLoad, diskVars
<1>2. TypeOK /\ SingleOwner /\ OnlyAccepted /\ PhasesSeparate /\ ErasedIsSettled /\ AttemptCounted
  BY DEF StructInv
<1>3. /\ m \in accepted
      /\ scheduled' \subseteq Entry /\ byId' \subseteq IndexType
      /\ IndexesAgree' /\ SeqFresh'
      /\ Ids(scheduled)' = Ids(scheduled) \cup {m}
  BY RecoverLoadEffect
<1>4. TypeOK'
  BY <1>1, <1>2, <1>3 DEF TypeOK, IndexType
<1>5. /\ Busy' = Busy /\ Sending' = Sending
      /\ Busy = {} /\ inFlight = {} /\ erasing = {}
  BY <1>1, <1>2 DEF Busy, Sending, PhasesSeparate, Up
<1>6. Sending = {}
  BY <1>5 DEF Busy, Sending
<1>7. SingleOwner'
  BY <1>1, <1>5, <1>6 DEF SingleOwner
<1>8. OnlyAccepted'
  BY <1>1, <1>2, <1>3, <1>5 DEF OnlyAccepted, Owned
<1>9. PhasesSeparate'
  BY <1>1, <1>2, <1>3, <1>5 DEF PhasesSeparate, Up
<1>10. ErasedIsSettled' /\ AttemptCounted'
  BY <1>1, <1>5, <1>6 DEF ErasedIsSettled, AttemptCounted
<1>11. QED
  BY <1>3, <1>4, <1>7, <1>8, <1>9, <1>10 DEF StructInv

\* The other steps of recovery schedule nothing.
LEMMA StructRecoverRest ==
  ASSUME StructInv,
         \/ Restart
         \/ RecoverDone
         \/ \E m \in Messages : RecoverUnreadable(m) \/ RecoverDiscard(m) \/ RecoverBreak(m)
  PROVE  StructInv'
<1>1. TypeOK /\ IndexesAgree /\ SeqFresh /\ SingleOwner /\ OnlyAccepted /\ PhasesSeparate
      /\ ErasedIsSettled /\ AttemptCounted
  BY DEF StructInv
<1>2. /\ ~Up /\ phase' \in {"recovering", "running"}
      /\ UNCHANGED <<now, scheduled, byId, inFlight, seq, held, erasing, purging, torn,
                     submitted, accepted, settled, tries, mishaps>>
      /\ pc' = pc \/ pc' = [w \in Workers |-> "top"]
      /\ unread' \subseteq Messages /\ skipped' \subseteq Messages
      /\ unread' # {} => phase' = "recovering"
      /\ unread' \cap Ids(scheduled) = {}
      /\ spool' = spool \/ \E m \in Messages : spool' = [spool EXCEPT ![m] = NoPair]
  BY <1>1 DEF Up, Restart, RecoverDone, RecoverUnreadable, RecoverDiscard, RecoverBreak, StartTasks,
       queueVars, diskVars, seenVars, TypeOK, PhasesSeparate, Ids
<1>3. Busy = {} /\ inFlight = {} /\ erasing = {} /\ Sending = {}
  BY <1>1, <1>2 DEF PhasesSeparate, Busy, Sending
<1>4. Busy' = {} /\ Sending' = {} /\ Ids(scheduled)' = Ids(scheduled)
  BY <1>2, <1>3 DEF Busy, Sending, Ids
<1>5. /\ spool' \in [Messages -> Pair]
      /\ \A n \in Messages : spool'[n] = spool[n] \/ spool'[n] = NoPair
  <2>1. NoPair \in Pair
    BY DEF NoPair, Pair
  <2>2. spool \in [Messages -> Pair]
    BY <1>1 DEF TypeOK
  <2>3. QED
    BY <1>2, <2>1, <2>2
<1>6. TypeOK'
  BY <1>1, <1>2, <1>5 DEF TypeOK
<1>7. IndexesAgree' /\ SeqFresh' /\ SingleOwner'
  BY <1>1, <1>2, <1>3, <1>4 DEF IndexesAgree, SeqFresh, SingleOwner
<1>8. OnlyAccepted'
  BY <1>1, <1>2, <1>3, <1>4, <1>5 DEF OnlyAccepted, Owned, NoPair
<1>9. PhasesSeparate'
  BY <1>1, <1>2, <1>3, <1>4 DEF PhasesSeparate, Up
<1>10. ErasedIsSettled' /\ AttemptCounted'
  BY <1>2, <1>3, <1>4 DEF ErasedIsSettled, AttemptCounted
<1>11. QED
  BY <1>6, <1>7, <1>8, <1>9, <1>10 DEF StructInv

\* Every step preserves the invariant.
LEMMA StructNext == StructInv /\ [Next]_vars => StructInv'
<1> SUFFICES ASSUME StructInv, [Next]_vars PROVE StructInv'
  OBVIOUS
<1>1. CASE \E m \in Messages, a \in SubmitAttempts : Enqueue(m, a)
  BY <1>1, StructEnqueue
<1>2. CASE \E m \in Messages, a \in SubmitAttempts : Refuse(m, a)
  BY <1>2, StructRefuse
<1>3. ASSUME NEW w \in Workers, WorkerStep(w) PROVE StructInv'
  <2>1. CASE LoopTop(w) \/ PollEmpty(w)
    BY <2>1, StructLoop
  <2>2. CASE \E e \in scheduled : TakeDue(w, e)
    BY <2>2, StructTakeDue
  <2>3. CASE Finish(w)
    BY <2>3, StructFinish
  <2>4. CASE FinishErase(w)
    BY <2>4, StructErase
  <2>5. CASE Requeue(w)
    BY <2>5, StructRequeue
  <2>6. QED
    BY <1>3, <2>1, <2>2, <2>3, <2>4, <2>5 DEF WorkerStep
<1>4. CASE \E m \in Messages : Remove(m)
  <2> PICK m \in Messages : Remove(m)
    BY <1>4
  <2>1. /\ Up /\ Unschedule(m) /\ purging' \subseteq purging
        /\ UNCHANGED <<phase, now, inFlight, seq, pc, held, unread, skipped,
                       spool, torn, submitted, accepted, tries, mishaps>>
    BY DEF Remove, diskVars
  <2>2. QED
    BY <2>1, StructRemove
<1>5. CASE StartPurge \/ \E m \in Messages : PurgeOne(m)
  BY <1>5, StructPurge
<1>6. CASE \E m \in Messages : RemoveErase(m)
  BY <1>6, StructErase
<1>7. CASE FlushNow
  BY <1>7, StructFlushNow
<1>8. CASE Tick \/ BeginShutdown \/ FinishInFlight \/ UNCHANGED vars
  <2>1. /\ phase' = phase \/ (phase' \in {"draining", "closing"} /\ Up)
        /\ now' \in Nat /\ purging' \subseteq Messages
        /\ UNCHANGED <<scheduled, byId, inFlight, seq, pc, held, erasing, unread, skipped,
                       spool, torn, submitted, accepted, settled, tries, mishaps>>
    BY <1>8 DEF Tick, BeginShutdown, FinishInFlight, vars, queueVars, taskVars, diskVars,
         seenVars, StructInv, TypeOK, Up
  <2>2. QED
    BY <2>1, StructIdle
<1>9. CASE Exit \/ Crash
  BY <1>9, StructEnd
<1>10. CASE Recovery
  BY <1>10, StructRecoverLoad, StructRecoverRest DEF Recovery
<1>11. QED
  BY <1>1, <1>2, <1>3, <1>4, <1>5, <1>6, <1>7, <1>8, <1>9, <1>10 DEF Next

\* Every reachable state satisfies the structural invariant.
THEOREM StructInvariant == Spec => []StructInv
BY StructInit, StructNext, PTL DEF Spec

\* The variables keep the types Queue's fields and the tasks' locals have.
THEOREM TypeCorrect == Spec => []TypeOK
<1>1. StructInv => TypeOK
  BY DEF StructInv
<1>2. QED
  BY <1>1, StructInvariant, PTL

\* The schedule and the id index of Queue::inner always describe the same
\* messages, and no key or id is used twice, so no insert drops a message.
THEOREM IndexesAlwaysAgree == Spec => []IndexesAgree
<1>1. StructInv => IndexesAgree
  BY DEF StructInv
<1>2. QED
  BY <1>1, StructInvariant, PTL

\* No two tasks ever own one message: with any number of workers, no message
\* is sent by two of them at once, or sent while the operator's removal owns it.
THEOREM OneOwner == Spec => []SingleOwner
<1>1. StructInv => SingleOwner
  BY DEF StructInv
<1>2. QED
  BY <1>1, StructInvariant, PTL

-----------------------------------------------------------------------------
\* Without a spool directory no file is ever written.
SpoolUnused == ~Persist => \A m \in Messages : spool[m] = NoPair

\* No file exists at first.
LEMMA SpoolUnusedInit == Init => SpoolUnused
BY DEF Init, SpoolUnused

\* No step writes one.
LEMMA SpoolUnusedNext == StructInv /\ SpoolUnused /\ [Next]_vars => SpoolUnused'
<1> SUFFICES ASSUME StructInv, SpoolUnused, [Next]_vars, ~Persist PROVE spool' = spool
  BY DEF SpoolUnused
<1>1. CASE Exit \/ Crash
  BY <1>1, SpoolAfterEnd
<1>2. ASSUME NEW m \in Messages, RecoverDiscard(m) PROVE FALSE
  BY <1>2 DEF RecoverDiscard, SpoolUnused, NoPair
<1>3. CASE \/ \E m \in Messages, a \in SubmitAttempts : Enqueue(m, a) \/ Refuse(m, a)
           \/ \E w \in Workers : WorkerStep(w)
           \/ \E m \in Messages : Remove(m) \/ PurgeOne(m) \/ RemoveErase(m)
           \/ StartPurge \/ FlushNow \/ Tick \/ BeginShutdown \/ FinishInFlight \/ UNCHANGED vars
  BY <1>3 DEF Enqueue, Refuse, WorkerStep, LoopTop, TakeDue, PollEmpty, Finish, FinishErase,
       Requeue, WriteSpool, Remove, PurgeOne, RemoveErase, StartPurge, FlushNow, Tick,
       BeginShutdown, FinishInFlight, vars, diskVars
<1>4. CASE \/ Restart \/ RecoverDone
           \/ \E m \in Messages : RecoverUnreadable(m) \/ RecoverLoad(m) \/ RecoverBreak(m)
  BY <1>4 DEF Restart, RecoverDone, RecoverUnreadable, RecoverLoad, RecoverBreak, diskVars
<1>5. QED
  BY <1>1, <1>2, <1>3, <1>4 DEF Next, Recovery

\* With persist off the spool directory stays empty, over all process lives.
THEOREM NoSpoolNoFiles == Spec => []SpoolUnused
BY StructInvariant, SpoolUnusedInit, SpoolUnusedNext, PTL DEF Spec

-----------------------------------------------------------------------------
(***************************************************************************)
(* Mail the relay has taken over is neither dropped from memory nor from   *)
(* the spool.  RecoveryComplete carries what the spool kept through a      *)
(* restart; without a spool, only a process end can lose anything.         *)
(***************************************************************************)

\* A process that is not serving has ended at least once.
EndsAreMishaps == phase \in {"down", "recovering"} => mishaps > 0

\* The inductive invariant.
Durable == KeptOnDisk /\ NothingMislaid /\ RecoveryComplete /\ EndsAreMishaps

\* Where an undecided message may be while the process lives.
Placed(m) == \/ m \in Ids(scheduled) \cup inFlight
             \/ m \in skipped \cup torn
             \/ ~Persist /\ mishaps > 0

\* Nothing has been taken over at first.
LEMMA DurableInit == Init => Durable
BY DEF Init, Durable, KeptOnDisk, NothingMislaid, RecoveryComplete, EndsAreMishaps

\* A running process stays durable if the step writes complete files, or notes
\* that it could not, and keeps every undecided message in some place.
LEMMA DurableUp ==
  ASSUME StructInv, Durable, Up, Up',
         \A m \in (accepted \ settled)' :
            /\ Persist => m \in torn' \/ Complete(spool'[m])
            /\ Placed(m)'
  PROVE  Durable'
<1>1. KeptOnDisk'
  BY DEF KeptOnDisk
<1>2. NothingMislaid'
  BY DEF NothingMislaid, Placed
<1>3. RecoveryComplete' /\ EndsAreMishaps'
  BY DEF RecoveryComplete, EndsAreMishaps, Up
<1>4. QED
  BY <1>1, <1>2, <1>3 DEF Durable

\* Writing down a message that is then scheduled, the rest staying in place.
LEMMA DurableWrite ==
  ASSUME StructInv, Durable, Up, Up', NEW e \in Entry, WriteSpool(e),
         Ids(scheduled)' = Ids(scheduled) \cup {e.id},
         inFlight \ {e.id} \subseteq inFlight',
         accepted' \subseteq accepted \cup {e.id},
         UNCHANGED <<skipped, settled>>
  PROVE  Durable'
<1>1. TypeOK
  BY DEF StructInv
<1>2. /\ Persist => e.id \in torn' \/ Complete(spool'[e.id])
      /\ \A n \in Messages \ {e.id} : spool'[n] = spool[n] /\ (n \in torn' <=> n \in torn)
      /\ mishaps <= mishaps' /\ mishaps' \in Nat
  BY <1>1, WriteSpoolEffect
<1>3. ASSUME NEW n \in (accepted \ settled)'
      PROVE  (Persist => n \in torn' \/ Complete(spool'[n])) /\ Placed(n)'
  <2>1. CASE n = e.id
    BY <1>2, <2>1 DEF Placed
  <2>2. CASE n # e.id
    <3>1. n \in accepted \ settled /\ n \in Messages
      BY <1>1, <2>2 DEF TypeOK
    <3>2. (Persist => n \in torn \/ Complete(spool[n])) /\ Placed(n)
      BY <3>1 DEF Durable, KeptOnDisk, NothingMislaid, Placed
    <3>3. QED
      BY <1>1, <1>2, <2>2, <3>1, <3>2 DEF Placed, TypeOK
  <2>3. QED
    BY <2>1, <2>2
<1>4. QED
  BY <1>3, DurableUp

\* A message taken over is written down before the client hears of it.
LEMMA DurableEnqueue ==
  ASSUME StructInv, Durable, NEW m \in Messages, NEW a \in SubmitAttempts, Enqueue(m, a)
  PROVE  Durable'
<1>1. /\ Up /\ Up' /\ accepted' = accepted \cup {m}
      /\ UNCHANGED <<inFlight, skipped, settled>>
  BY DEF Enqueue, Up, taskVars
<1>2. PICK e \in Entry : e.id = m /\ WriteSpool(e)
  BY EnqueueEffect
<1>3. Ids(scheduled)' = Ids(scheduled) \cup {m}
  BY EnqueueEffect
<1>4. QED
  BY <1>1, <1>2, <1>3, DurableWrite

\* A retry is written down before its worker lets go of it.
LEMMA DurableRequeue ==
  ASSUME StructInv, Durable, NEW w \in Workers, Requeue(w)
  PROVE  Durable'
<1>1. /\ Up /\ Up' /\ inFlight' = inFlight \ {held[w].id}
      /\ UNCHANGED <<accepted, skipped, settled>>
  BY DEF Requeue, Up, seenVars
<1>2. PICK e \in Entry : e.id = held[w].id /\ WriteSpool(e)
  BY RequeueEffect
<1>3. Ids(scheduled)' = Ids(scheduled) \cup {held[w].id}
  BY RequeueEffect
<1>4. QED
  BY <1>1, <1>2, <1>3, DurableWrite

\* Every other step of a running process leaves the spool alone, or unlinks the
\* files of a message that is settled.
LEMMA DurableStep ==
  ASSUME StructInv, Durable, Up, Up',
         accepted' = accepted, settled \subseteq settled', torn' = torn, skipped' = skipped,
         mishaps' = mishaps,
         \A m \in accepted \ settled' : /\ spool'[m] = spool[m]
                                        /\ m \in Ids(scheduled) \cup inFlight
                                             => m \in (Ids(scheduled) \cup inFlight)'
  PROVE  Durable'
<1>1. ASSUME NEW m \in (accepted \ settled)'
      PROVE  (Persist => m \in torn' \/ Complete(spool'[m])) /\ Placed(m)'
  <2>1. m \in accepted \ settled /\ m \in accepted \ settled'
    OBVIOUS
  <2>2. (Persist => m \in torn \/ Complete(spool[m])) /\ Placed(m)
    BY <2>1 DEF Durable, KeptOnDisk, NothingMislaid, Placed
  <2>3. QED
    BY <2>1, <2>2 DEF Placed
<1>2. QED
  BY <1>1, DurableUp

\* A worker decides a message or holds it; it unlinks only what is settled.
LEMMA DurableWorker ==
  ASSUME StructInv, Durable, NEW w \in Workers,
         \/ LoopTop(w) \/ PollEmpty(w) \/ Finish(w) \/ FinishErase(w)
         \/ \E e \in scheduled : TakeDue(w, e)
  PROVE  Durable'
<1>1. TypeOK /\ IndexesAgree /\ SeqFresh /\ ErasedIsSettled
  BY DEF StructInv
<1>2. CASE LoopTop(w) \/ PollEmpty(w)
  BY <1>2, DurableStep DEF LoopTop, PollEmpty, queueVars, diskVars, seenVars, Up, Ids
<1>3. CASE Finish(w)
  <2>1. /\ Up /\ Up' /\ inFlight' = inFlight \ {held[w].id}
        /\ settled' = settled \cup {held[w].id}
        /\ UNCHANGED <<scheduled, accepted, torn, skipped, mishaps, spool>>
    BY <1>3 DEF Finish, Up, diskVars
  <2>2. QED
    BY <2>1, DurableStep DEF Ids
<1>4. CASE FinishErase(w)
  <2>1. /\ Up /\ Up' /\ pc[w] = "erasing"
        /\ spool' = IF Persist THEN [spool EXCEPT ![held[w].id] = NoPair] ELSE spool
        /\ UNCHANGED <<scheduled, inFlight, accepted, settled, torn, skipped, mishaps>>
    BY <1>4 DEF FinishErase, Up, queueVars, seenVars
  <2>2. held[w].id \in settled
    BY <1>1, <2>1 DEF ErasedIsSettled, Busy, Sending
  <2>3. \A m \in accepted \ settled : spool'[m] = spool[m]
    BY <1>1, <2>1, <2>2 DEF TypeOK
  <2>4. QED
    BY <2>1, <2>3, DurableStep DEF Ids
<1>5. ASSUME NEW e \in scheduled, TakeDue(w, e) PROVE Durable'
  <2>1. /\ Up /\ Up'
        /\ scheduled' = scheduled \ {e} /\ byId' = {i \in byId : i.id # e.id} /\ seq' = seq
        /\ inFlight' = inFlight \cup {e.id}
        /\ UNCHANGED <<accepted, settled, torn, skipped, mishaps, spool>>
    BY <1>5 DEF TakeDue, Up, diskVars
  <2>2. Ids(scheduled)' = Ids(scheduled) \ {e.id}
    BY <1>1, <2>1, UnscheduleEffect
  <2>3. QED
    BY <2>1, <2>2, DurableStep
<1>6. QED
  BY <1>2, <1>3, <1>4, <1>5

\* An operator's removal settles what it takes out of the map.
LEMMA DurableRemove ==
  ASSUME StructInv, Durable, NEW m \in Messages, Unschedule(m), Up,
         UNCHANGED <<phase, inFlight, seq, skipped, spool, torn, accepted, mishaps>>
  PROVE  Durable'
<1>1. TypeOK /\ IndexesAgree /\ SeqFresh
  BY DEF StructInv
<1>2. PICK e \in scheduled : /\ e.id = m
                             /\ scheduled' = scheduled \ {e}
                             /\ byId' = {i \in byId : i.id # e.id}
                             /\ settled' = settled \cup {m}
  BY <1>1, UnscheduleIsRemoval
<1>3. Ids(scheduled)' = Ids(scheduled) \ {m}
  BY <1>1, <1>2, UnscheduleEffect
<1>4. QED
  BY <1>2, <1>3, DurableStep DEF Up

\* The operator's calls.
LEMMA DurableOperator ==
  ASSUME StructInv, Durable,
         \/ \E m \in Messages : Remove(m) \/ PurgeOne(m) \/ RemoveErase(m)
         \/ StartPurge
         \/ FlushNow
  PROVE  Durable'
<1>1. TypeOK /\ ErasedIsSettled
  BY DEF StructInv
<1>2. ASSUME NEW m \in Messages, Remove(m) \/ PurgeOne(m) PROVE Durable'
  <2>1. CASE Unschedule(m)
    BY <1>2, <2>1, DurableRemove DEF Remove, PurgeOne, diskVars
  <2>2. CASE ~Unschedule(m)
    BY <1>2, <2>2, DurableStep DEF Remove, PurgeOne, diskVars, Up, Ids
  <2>3. QED
    BY <2>1, <2>2
<1>3. ASSUME NEW m \in Messages, RemoveErase(m) PROVE Durable'
  <2>1. /\ Up /\ Up' /\ m \in settled
        /\ spool' = IF Persist THEN [spool EXCEPT ![m] = NoPair] ELSE spool
        /\ UNCHANGED <<scheduled, inFlight, accepted, settled, torn, skipped, mishaps>>
    BY <1>1, <1>3 DEF RemoveErase, ErasedIsSettled, Up, queueVars, seenVars
  <2>2. \A n \in accepted \ settled : spool'[n] = spool[n]
    BY <1>1, <2>1 DEF TypeOK
  <2>3. QED
    BY <2>1, <2>2, DurableStep DEF Ids
<1>4. CASE StartPurge
  BY <1>4, DurableStep DEF StartPurge, queueVars, diskVars, seenVars, Up, Ids
<1>5. CASE FlushNow
  <2>1. Ids(scheduled)' = Ids(scheduled)
    BY <1>5, FlushKeepsIds
  <2>2. QED
    BY <1>5, <2>1, DurableStep DEF FlushNow, taskVars, diskVars, seenVars, Up
<1>6. QED
  BY <1>2, <1>3, <1>4, <1>5

\* A process end interrupts at most one rewrite and finishes some removals:
\* what is neither settled nor torn is complete on disk before and after.
LEMMA DurableDie ==
  ASSUME StructInv, Durable, Exit \/ Crash
  PROVE  Durable'
<1>1. /\ phase' = "down" /\ mishaps' = mishaps + 1
      /\ UNCHANGED <<accepted, settled>>
  BY DEF Exit, Crash, Die
<1>2. TypeOK /\ ErasedIsSettled /\ SingleOwner
  BY DEF StructInv
<1>3. NothingMislaid' /\ RecoveryComplete' /\ EndsAreMishaps'
  BY <1>1, <1>2 DEF NothingMislaid, RecoveryComplete, EndsAreMishaps, Up, TypeOK
<1>4. KeptOnDisk'
  <2>1. CASE Exit
    BY <1>1, <2>1 DEF Exit, Die, diskVars, Durable, KeptOnDisk
  <2>2. CASE Crash
    <3> DEFINE left(H) == [m \in Messages |-> IF m \in H THEN [spool[m] EXCEPT !.meta = "absent"]
                                                        ELSE spool[m]]
               writing == IF Persist /\ Up
                          THEN (Messages \ submitted) \cup {held[w].id : w \in Sending}
                          ELSE {}
    <3>1. PICK H \in SUBSET (IF Persist THEN erasing \cup {held[w].id : w \in Busy \ Sending} ELSE {}) :
            \/ spool' = left(H) /\ UNCHANGED <<torn, submitted>>
            \/ \E m \in writing : \E p \in HalfWritten(spool[m]) :
                 /\ spool' = [left(H) EXCEPT ![m] = p]
                 /\ torn' = IF Complete(p) THEN torn \ {m} ELSE torn \cup {m}
                 /\ submitted' = submitted \cup {m}
      BY <2>2 DEF Crash
    <3>2. H \subseteq settled
      BY <1>2 DEF ErasedIsSettled
    <3>3. \A m \in Messages \ settled : left(H)[m] = spool[m]
      BY <3>2
    <3>4. left(H) \in [Messages -> {left(H)[m] : m \in Messages}]
      OBVIOUS
    <3>5. writing \subseteq Messages
      BY <1>2 DEF SingleOwner, TypeOK
    <3> HIDE DEF left, writing
    <3>6. ASSUME NEW n \in accepted \ settled, n \notin torn', Persist PROVE Complete(spool'[n])
      <4>1. n \in Messages /\ left(H)[n] = spool[n]
        BY <1>2, <3>3 DEF TypeOK
      <4>2. n \notin torn => Complete(spool[n])
        BY <3>6 DEF Durable, KeptOnDisk
      <4>3. CASE spool' = left(H) /\ UNCHANGED <<torn, submitted>>
        BY <3>6, <4>1, <4>2, <4>3
      <4>4. ASSUME NEW m \in writing, NEW p \in HalfWritten(spool[m]),
                   spool' = [left(H) EXCEPT ![m] = p],
                   torn' = IF Complete(p) THEN torn \ {m} ELSE torn \cup {m}
            PROVE  Complete(spool'[n])
        <5>1. CASE n = m
          BY <3>4, <3>6, <4>1, <4>4, <5>1
        <5>2. CASE n # m
          BY <3>4, <3>6, <4>1, <4>2, <4>4, <5>2
        <5>3. QED
          BY <5>1, <5>2
      <4>5. QED
        BY <3>1, <4>3, <4>4
    <3>7. QED
      BY <1>1, <3>6 DEF KeptOnDisk
  <2>3. QED
    BY <2>1, <2>2
<1>5. QED
  BY <1>3, <1>4 DEF Durable

\* Recovery loses nothing the spool kept: what it does not load it leaves on
\* disk and skips, and what it discards was already unusable.
LEMMA DurableRecovery ==
  ASSUME StructInv, Durable, Recovery
  PROVE  Durable'
<1>1. /\ TypeOK /\ IndexesAgree /\ SeqFresh /\ OnlyAccepted /\ PhasesSeparate
      /\ KeptOnDisk /\ RecoveryComplete /\ EndsAreMishaps
  BY DEF StructInv, Durable
<1>2. CASE Restart
  <2>1. /\ phase = "down" /\ phase' = "recovering"
        /\ unread' = {m \in Messages : spool[m].meta # "absent"}
        /\ UNCHANGED <<scheduled, skipped, spool, torn, accepted, settled, mishaps>>
    BY <1>2 DEF Restart, queueVars, diskVars, seenVars
  <2>2. mishaps > 0
    BY <1>1, <2>1 DEF EndsAreMishaps
  <2>3. \A m \in accepted \ settled : Persist => m \in torn \cup unread'
    BY <1>1, <2>1 DEF KeptOnDisk, Complete, TypeOK
  <2>4. QED
    BY <1>1, <2>1, <2>2, <2>3 DEF Durable, KeptOnDisk, NothingMislaid, RecoveryComplete,
         EndsAreMishaps, Up
<1>3. ASSUME NEW m \in Messages, RecoverUnreadable(m) PROVE Durable'
  BY <1>1, <1>3 DEF RecoverUnreadable, Durable, KeptOnDisk, NothingMislaid, RecoveryComplete,
       EndsAreMishaps, Up, queueVars, diskVars, seenVars, Ids
<1>4. ASSUME NEW m \in Messages, RecoverDiscard(m) PROVE Durable'
  <2>1. /\ phase = "recovering" /\ phase' = phase /\ ~Complete(spool[m])
        /\ unread' = unread \ {m} /\ spool' = [spool EXCEPT ![m] = NoPair]
        /\ UNCHANGED <<scheduled, skipped, torn, accepted, settled, mishaps>>
    BY <1>4 DEF RecoverDiscard, Complete, queueVars, seenVars
  <2>2. \A n \in Messages \ {m} : spool'[n] = spool[n]
    BY <1>1, <2>1 DEF TypeOK
  <2>3. m \in accepted \ settled => m \in torn \/ ~Persist
    BY <1>1, <2>1 DEF KeptOnDisk
  <2>4. KeptOnDisk'
    BY <1>1, <2>1, <2>2, <2>3 DEF KeptOnDisk, TypeOK
  <2>5. RecoveryComplete' /\ EndsAreMishaps'
    BY <1>1, <2>1, <2>3 DEF RecoveryComplete, EndsAreMishaps, Ids
  <2>6. NothingMislaid'
    BY <2>1 DEF NothingMislaid, Up
  <2>7. QED
    BY <2>4, <2>5, <2>6 DEF Durable
<1>5. ASSUME NEW m \in Messages, RecoverLoad(m) PROVE Durable'
  <2>1. /\ phase = "recovering" /\ phase' = phase
        /\ unread' = unread \ {m} /\ settled' = settled \ {m} /\ Complete(spool[m])
        /\ UNCHANGED <<skipped, spool, torn, accepted, mishaps>>
    BY <1>5 DEF RecoverLoad, diskVars
  <2>2. Ids(scheduled)' = Ids(scheduled) \cup {m}
    BY <1>5, RecoverLoadEffect
  <2>3. KeptOnDisk' /\ RecoveryComplete'
    BY <1>1, <2>1, <2>2 DEF KeptOnDisk, RecoveryComplete
  <2>4. QED
    BY <1>1, <2>1, <2>3 DEF Durable, NothingMislaid, EndsAreMishaps, Up
<1>6. ASSUME NEW m \in Messages, RecoverBreak(m) PROVE Durable'
  BY <1>1, <1>6 DEF RecoverBreak, StartTasks, Durable, KeptOnDisk, NothingMislaid,
       RecoveryComplete, EndsAreMishaps, Up, queueVars, diskVars, seenVars, Ids
<1>7. CASE RecoverDone
  BY <1>1, <1>7 DEF RecoverDone, StartTasks, Durable, KeptOnDisk, NothingMislaid,
       RecoveryComplete, EndsAreMishaps, Up, queueVars, diskVars, seenVars, Ids
<1>8. QED
  BY <1>2, <1>3, <1>4, <1>5, <1>6, <1>7 DEF Recovery

\* Every step is durable.
LEMMA DurableNext == StructInv /\ Durable /\ [Next]_vars => Durable'
<1> SUFFICES ASSUME StructInv, Durable, [Next]_vars PROVE Durable'
  OBVIOUS
<1>1. CASE \E m \in Messages, a \in SubmitAttempts : Enqueue(m, a)
  BY <1>1, DurableEnqueue
<1>2. CASE \/ \E m \in Messages, a \in SubmitAttempts : Refuse(m, a)
           \/ Tick \/ BeginShutdown \/ FinishInFlight \/ UNCHANGED vars
  <2>1. /\ phase' = phase \/ (Up /\ Up')
        /\ UNCHANGED <<scheduled, inFlight, skipped, unread, spool, torn, accepted, settled, mishaps>>
    BY <1>2 DEF Refuse, Tick, BeginShutdown, FinishInFlight, vars, queueVars, taskVars, diskVars,
         seenVars, Up
  <2>2. QED
    BY <2>1 DEF Durable, KeptOnDisk, NothingMislaid, RecoveryComplete, EndsAreMishaps, Up, Ids
<1>3. ASSUME NEW w \in Workers, WorkerStep(w) PROVE Durable'
  BY <1>3, DurableWorker, DurableRequeue DEF WorkerStep
<1>4. CASE \/ \E m \in Messages : Remove(m) \/ PurgeOne(m) \/ RemoveErase(m)
           \/ StartPurge \/ FlushNow
  BY <1>4, DurableOperator
<1>5. CASE Exit \/ Crash
  BY <1>5, DurableDie
<1>6. CASE Recovery
  BY <1>6, DurableRecovery
<1>7. QED
  BY <1>1, <1>2, <1>3, <1>4, <1>5, <1>6 DEF Next

\* Every reachable state is durable.
THEOREM Durability == Spec => []Durable
BY StructInvariant, DurableInit, DurableNext, PTL DEF Spec

\* Whatever crashes, failed writes, retries, removals and restarts happen, an
\* undecided message the relay took over has complete spool files, unless the
\* last write of them was cut short.
THEOREM SpoolKeepsMail == Spec => []KeptOnDisk
<1>1. Durable => KeptOnDisk
  BY DEF Durable
<1>2. QED
  BY <1>1, Durability, PTL

\* No sequence of takes, retries, flushes, purges and restarts drops a message
\* from memory: it is waiting, being sent, or was left out by recovery.
THEOREM NoMailMislaid == Spec => []NothingMislaid
<1>1. Durable => NothingMislaid
  BY DEF Durable
<1>2. QED
  BY <1>1, Durability, PTL

-----------------------------------------------------------------------------
(***************************************************************************)
(* Settled mail is not held.  With the owner of a message this is what     *)
(* makes the files of settled mail somebody's to remove, or left over.     *)
(***************************************************************************)

\* At first nothing is settled.
LEMMA SettledOverInit == Init => SettledIsOver
BY DEF Init, SettledIsOver

\* What a step settles it takes out of the map or the worker's hands, and what
\* recovery puts back it owes again.
LEMMA SettledOverNext == StructInv /\ SettledIsOver /\ [Next]_vars => SettledIsOver'
<1> SUFFICES ASSUME StructInv, SettledIsOver, [Next]_vars PROVE SettledIsOver'
  OBVIOUS
<1>1. TypeOK /\ IndexesAgree /\ SeqFresh /\ SingleOwner
  BY DEF StructInv
<1>2. ASSUME NEW m \in Messages, NEW a \in SubmitAttempts, Enqueue(m, a) PROVE SettledIsOver'
  <2>1. m \notin settled /\ Ids(scheduled)' = Ids(scheduled) \cup {m}
    BY <1>1, <1>2, EnqueueEffect DEF TypeOK, Enqueue
  <2>2. UNCHANGED <<inFlight, settled>>
    BY <1>2 DEF Enqueue
  <2>3. QED
    BY <2>1, <2>2 DEF SettledIsOver
<1>3. ASSUME NEW w \in Workers, NEW e \in scheduled, TakeDue(w, e) PROVE SettledIsOver'
  <2>1. /\ scheduled' = scheduled \ {e} /\ inFlight' = inFlight \cup {e.id}
        /\ settled' = settled
    BY <1>3 DEF TakeDue
  <2>2. e.id \in Ids(scheduled) /\ Ids(scheduled)' \subseteq Ids(scheduled)
    BY <2>1 DEF Ids
  <2>3. QED
    BY <2>1, <2>2 DEF SettledIsOver
<1>4. ASSUME NEW w \in Workers, Finish(w) PROVE SettledIsOver'
  <2>1. /\ pc[w] = "sending" /\ inFlight' = inFlight \ {held[w].id}
        /\ settled' = settled \cup {held[w].id} /\ scheduled' = scheduled
    BY <1>4 DEF Finish
  <2>2. held[w].id \notin Ids(scheduled)
    BY <1>1, <2>1 DEF SingleOwner, Busy
  <2>3. QED
    BY <2>1, <2>2 DEF SettledIsOver, Ids
<1>5. ASSUME NEW w \in Workers, Requeue(w) PROVE SettledIsOver'
  <2>1. /\ held[w].id \in inFlight
        /\ Ids(scheduled)' = Ids(scheduled) \cup {held[w].id}
    BY <1>1, <1>5, RequeueEffect
  <2>2. inFlight' = inFlight \ {held[w].id} /\ settled' = settled
    BY <1>5 DEF Requeue, seenVars
  <2>3. QED
    BY <2>1, <2>2 DEF SettledIsOver
<1>6. ASSUME NEW m \in Messages, Remove(m) \/ PurgeOne(m) PROVE SettledIsOver'
  <2>1. UNCHANGED <<inFlight, seq>>
    BY <1>6 DEF Remove, PurgeOne
  <2>2. CASE Unschedule(m)
    <3>1. PICK e \in scheduled : /\ e.id = m
                                 /\ scheduled' = scheduled \ {e}
                                 /\ byId' = {i \in byId : i.id # e.id}
                                 /\ settled' = settled \cup {m}
      BY <1>1, <2>2, UnscheduleIsRemoval
    <3>2. Ids(scheduled)' = Ids(scheduled) \ {m}
      BY <1>1, <2>1, <3>1, UnscheduleEffect
    <3>3. m \in Ids(scheduled)
      BY <3>1 DEF Ids
    <3>4. m \notin inFlight
      BY <1>1, <3>3 DEF SingleOwner, Sending, Busy
    <3>5. QED
      BY <2>1, <3>1, <3>2, <3>4 DEF SettledIsOver
  <2>3. CASE ~Unschedule(m)
    BY <1>6, <2>1, <2>3 DEF Remove, PurgeOne, SettledIsOver, Ids
  <2>4. QED
    BY <2>2, <2>3
<1>7. CASE FlushNow
  <2>1. Ids(scheduled)' = Ids(scheduled)
    BY <1>1, <1>7, FlushKeepsIds
  <2>2. QED
    BY <1>7, <2>1 DEF FlushNow, seenVars, SettledIsOver
<1>8. CASE Exit \/ Crash
  BY <1>8 DEF Exit, Crash, Die, SettledIsOver, Ids
<1>9. ASSUME NEW m \in Messages, RecoverLoad(m) PROVE SettledIsOver'
  <2>1. Ids(scheduled)' = Ids(scheduled) \cup {m}
    BY <1>9, RecoverLoadEffect
  <2>2. settled' = settled \ {m} /\ inFlight' = inFlight
    BY <1>9 DEF RecoverLoad
  <2>3. phase = "recovering" /\ m \notin inFlight
    BY <1>9 DEF RecoverLoad, StructInv, PhasesSeparate, Up
  <2>4. QED
    BY <2>1, <2>2, <2>3 DEF SettledIsOver
<1>10. CASE \/ \E m \in Messages, a \in SubmitAttempts : Refuse(m, a)
            \/ \E w \in Workers : LoopTop(w) \/ PollEmpty(w) \/ FinishErase(w)
            \/ \E m \in Messages : \/ RemoveErase(m) \/ RecoverUnreadable(m)
                                   \/ RecoverDiscard(m) \/ RecoverBreak(m)
            \/ StartPurge \/ Tick \/ BeginShutdown \/ FinishInFlight \/ Restart \/ RecoverDone
            \/ UNCHANGED vars
  <2>1. UNCHANGED <<scheduled, inFlight, settled>>
    BY <1>10 DEF Refuse, LoopTop, PollEmpty, FinishErase, RemoveErase, RecoverUnreadable,
         RecoverDiscard, RecoverBreak, StartPurge, Tick, BeginShutdown, FinishInFlight, Restart,
         RecoverDone, vars, queueVars, seenVars
  <2>2. QED
    BY <2>1 DEF SettledIsOver, Ids
<1>11. QED
  BY <1>2, <1>3, <1>4, <1>5, <1>6, <1>7, <1>8, <1>9, <1>10 DEF Next, WorkerStep, Recovery

\* No message that was delivered, rejected or removed is waiting or being sent.
THEOREM SettledStaysOut == Spec => []SettledIsOver
BY StructInvariant, SettledOverInit, SettledOverNext, PTL DEF Spec

-----------------------------------------------------------------------------
(***************************************************************************)
(* DeliveryQueue implements MailPromise: each step of the queue is a step  *)
(* of the promise, or changes no fate.                                     *)
(***************************************************************************)

Fates == [m \in Messages |-> Fate(m)]
Lingering == Leftover \cap Unlinking
Stale == Leftover \ Unlinking
PromiseVars == <<Up, Fates, Exposed, Lingering, Stale>>

\* What each fate says of the queue's state.
FateMeaning ==
  \A m \in Messages :
    /\ Fate(m) \in {"new", "refused", "settled", "kept", "lost"}
    /\ Fate(m) = "new" <=> m \notin submitted
    /\ Fate(m) = "refused" <=> m \in submitted \ accepted
    /\ Fate(m) = "settled" <=> m \in settled
    /\ Fate(m) = "kept" <=> m \in accepted \ settled /\ Kept(m)
    /\ Fate(m) = "lost" <=> m \in accepted \ settled /\ ~Kept(m)

\* Because only mail taken over and not settled is ever held, the fates read from
\* what the queue holds are those the history tells.
LEMMA FateMeans == StructInv /\ SettledIsOver => FateMeaning
<1> SUFFICES ASSUME StructInv, SettledIsOver, NEW m \in Messages
             PROVE  /\ Fate(m) \in {"new", "refused", "settled", "kept", "lost"}
                    /\ Fate(m) = "new" <=> m \notin submitted
                    /\ Fate(m) = "refused" <=> m \in submitted \ accepted
                    /\ Fate(m) = "settled" <=> m \in settled
                    /\ Fate(m) = "kept" <=> m \in accepted \ settled /\ Kept(m)
                    /\ Fate(m) = "lost" <=> m \in accepted \ settled /\ ~Kept(m)
  BY DEF FateMeaning
<1>1. settled \subseteq accepted /\ accepted \subseteq submitted
  BY DEF StructInv, TypeOK
<1>2. Kept(m) => m \in accepted \ settled
  <2>1. ASSUME InMemory(m) PROVE m \in accepted \ settled
    <3>1. m \notin settled
      BY <2>1 DEF InMemory, SettledIsOver
    <3>2. m \in Owned
      BY <2>1 DEF InMemory, Owned, StructInv, SingleOwner, Sending, Busy
    <3>3. QED
      BY <3>1, <3>2 DEF StructInv, OnlyAccepted
  <2>2. ASSUME Complete(spool[m]), m \notin settled PROVE m \in accepted \ settled
    BY <2>2 DEF Complete, StructInv, OnlyAccepted
  <2>3. QED
    BY <2>1, <2>2 DEF Kept
<1>3. CASE Kept(m)
  BY <1>1, <1>2, <1>3 DEF Fate
<1>4. CASE ~Kept(m) /\ m \notin submitted
  BY <1>1, <1>4 DEF Fate
<1>5. CASE ~Kept(m) /\ m \in submitted \ accepted
  BY <1>1, <1>5 DEF Fate
<1>6. CASE ~Kept(m) /\ m \in settled
  BY <1>1, <1>6 DEF Fate
<1>7. CASE ~Kept(m) /\ m \in accepted \ settled
  BY <1>1, <1>7 DEF Fate
<1>8. QED
  BY <1>3, <1>4, <1>5, <1>6, <1>7

\* The facts every step starts from and ends in.
Grounds == StructInv /\ Durable /\ SpoolUnused /\ SettledIsOver /\ FateMeaning

\* They hold in every reachable state.
LEMMA GroundsHold == Spec => []Grounds
<1>1. StructInv /\ Durable /\ SpoolUnused /\ SettledIsOver => Grounds
  BY FateMeans DEF Grounds
<1>2. QED
  BY <1>1, StructInvariant, Durability, NoSpoolNoFiles, SettledStaysOut, PTL

\* A worker that neither begins nor ends an unlinking changes nobody's duties.
LEMMA UnlinkingStays ==
  ASSUME NEW w \in Workers, UNCHANGED erasing, pc[w] # "erasing", pc'[w] # "erasing",
         \A v \in Workers \ {w} : pc'[v] = pc[v] /\ held'[v] = held[v]
  PROVE  Unlinking' = Unlinking
<1>1. Unlinking' = erasing' \cup {held'[v].id : v \in {u \in Workers : pc'[u] = "erasing"}}
  BY DEF Unlinking
<1>2. {u \in Workers : pc'[u] = "erasing"} = {u \in Workers : pc[u] = "erasing"}
  OBVIOUS
<1>3. \A v \in {u \in Workers : pc[u] = "erasing"} : held'[v] = held[v]
  OBVIOUS
<1>4. QED
  BY <1>1, <1>2, <1>3 DEF Unlinking

\* Files left over stay what they are while the files of settled mail, and the
\* duties to unlink, do not change.
LEMMA LeftoversStay ==
  ASSUME settled' = settled, \A n \in settled : spool'[n] = spool[n], Unlinking' = Unlinking
  PROVE  UNCHANGED <<Lingering, Stale>>
<1>1. Leftover' = Leftover
  BY DEF Leftover
<1>2. QED
  BY <1>1 DEF Lingering, Stale

\* The disk is touched, or nothing is: no fate changes.
LEMMA NoFateChanges ==
  ASSUME Grounds, Grounds', UNCHANGED <<submitted, accepted, settled>>,
         \A m \in accepted \ settled : Kept(m)' <=> Kept(m),
         Up' = Up, UNCHANGED <<Lingering, Stale>>
  PROVE  Promise!Rewrite
<1>1. \A m \in Messages : Fate(m)' = Fate(m)
  BY DEF Grounds, FateMeaning
<1>2. Fates' = Fates
  BY <1>1 DEF Fates
<1>3. Exposed' \in SUBSET Messages
  BY DEF Exposed, Grounds, StructInv, TypeOK
<1>4. QED
  BY <1>2, <1>3 DEF Promise!Rewrite, Fates, Lingering, Stale

\* One message moves from one fate to another.
LEMMA OneFateChanges ==
  ASSUME Grounds, Grounds', NEW m \in Messages, NEW from, NEW to,
         Fate(m) = from, Fate(m)' = to,
         \A n \in Messages \ {m} : Fate(n)' = Fate(n)
  PROVE  Promise!Change(m, from, to)
<1>1. Fates' = [Fates EXCEPT ![m] = to]
  BY DEF Fates
<1>2. Fates[m] = from
  BY DEF Fates
<1>3. QED
  BY <1>1, <1>2 DEF Promise!Change, Fates

\* At first every message is new and the disk is empty.
LEMMA PromiseInit == Init => Promise!Init
<1> SUFFICES ASSUME Init PROVE Promise!Init
  OBVIOUS
<1>1. \A m \in Messages : Fate(m) = "new"
  BY DEF Init, Fate, Kept, InMemory, Ids, Complete, NoPair
<1>2. Exposed \in SUBSET Messages
  BY DEF Exposed, Init
<1>3. Up /\ Leftover = {}
  BY DEF Init, Up, Leftover
<1>4. QED
  BY <1>1, <1>2, <1>3 DEF Promise!Init

\* Taking a message over: new mail becomes kept mail.
LEMMA PromiseEnqueue ==
  ASSUME Grounds, Grounds', NEW m \in Messages, NEW a \in SubmitAttempts, Enqueue(m, a)
  PROVE  Promise!Accept(m)
<1>1. /\ m \notin submitted /\ Up /\ Up'
      /\ submitted' = submitted \cup {m} /\ accepted' = accepted \cup {m}
      /\ UNCHANGED <<inFlight, settled, pc, held, erasing>>
  BY DEF Enqueue, Up, taskVars
<1>2. /\ StructInv /\ TypeOK /\ FateMeaning /\ FateMeaning' /\ TypeOK'
  BY DEF Grounds, StructInv
<1>3. PICK e \in Entry : e.id = m /\ WriteSpool(e)
  BY <1>2, EnqueueEffect
<1>4. m \notin settled /\ Ids(scheduled)' = Ids(scheduled) \cup {m}
  BY <1>2, EnqueueEffect DEF TypeOK
<1>5. \A n \in Messages \ {m} : spool'[n] = spool[n]
  BY <1>2, <1>3, WriteSpoolEffect
<1>6. Fate(m) = "new"
  BY <1>1, <1>2 DEF FateMeaning
<1>7. Fate(m)' = "kept"
  BY <1>1, <1>2, <1>4 DEF FateMeaning, Kept, InMemory
<1>8. \A n \in Messages \ {m} : Kept(n)' <=> Kept(n)
  BY <1>1, <1>4, <1>5 DEF Kept, InMemory
<1>9. \A n \in Messages \ {m} : Fate(n)' = Fate(n)
  BY <1>1, <1>2, <1>8 DEF FateMeaning
<1>10. Promise!Change(m, "new", "kept")
  BY <1>6, <1>7, <1>9, OneFateChanges
<1>11. Exposed' \in SUBSET Messages
  BY <1>2 DEF Exposed, TypeOK
<1>12. Unlinking' = Unlinking
  BY <1>1 DEF Unlinking
<1>13. UNCHANGED <<Lingering, Stale>>
  BY <1>1, <1>2, <1>4, <1>5, <1>12, LeftoversStay DEF TypeOK
<1>14. QED
  BY <1>1, <1>10, <1>11, <1>13 DEF Promise!Accept, Lingering, Stale

\* Turning a message away: nothing was promised.
LEMMA PromiseRefuse ==
  ASSUME Grounds, Grounds', NEW m \in Messages, NEW a \in SubmitAttempts, Refuse(m, a)
  PROVE  Promise!Refuse(m)
<1>1. /\ m \notin submitted /\ submitted' = submitted \cup {m} /\ Up /\ Up'
      /\ UNCHANGED <<scheduled, inFlight, spool, accepted, settled, pc, held, erasing>>
  BY DEF Refuse, queueVars, diskVars, taskVars, Up
<1>2. FateMeaning /\ FateMeaning' /\ TypeOK /\ TypeOK'
  BY DEF Grounds, StructInv
<1>3. Fate(m) = "new" /\ Fate(m)' = "refused"
  BY <1>1, <1>2 DEF FateMeaning, TypeOK
<1>4. \A n \in Messages : Kept(n)' <=> Kept(n)
  BY <1>1 DEF Kept, InMemory, Ids
<1>5. \A n \in Messages \ {m} : Fate(n)' = Fate(n)
  BY <1>1, <1>2, <1>4 DEF FateMeaning
<1>6. Promise!Change(m, "new", "refused")
  BY <1>3, <1>5, OneFateChanges
<1>7. Exposed' \in SUBSET Messages
  BY <1>2 DEF Exposed, TypeOK
<1>8. UNCHANGED <<Lingering, Stale>>
  BY <1>1, LeftoversStay DEF Unlinking
<1>9. QED
  BY <1>1, <1>6, <1>7, <1>8 DEF Promise!Refuse, Lingering, Stale

\* Deciding a message in memory settles kept mail, and leaves its files to the
\* task that decided it.
LEMMA PromiseSettle ==
  ASSUME Grounds, Grounds', NEW m \in Messages, InMemory(m),
         settled' = settled \cup {m}, Unlinking' = Unlinking \cup {m},
         UNCHANGED <<submitted, accepted, spool, torn>>, Up, Up',
         \A n \in Messages \ {m} : InMemory(n)' <=> InMemory(n)
  PROVE  Promise!Settle(m)
<1>1. FateMeaning /\ FateMeaning' /\ m \notin settled
  BY DEF Grounds, SettledIsOver, InMemory
<1>2. \A n \in Messages \ {m} : Kept(n)' <=> Kept(n)
  BY DEF Kept
<1>3. Fate(m) = "kept" /\ Fate(m)' = "settled"
  BY <1>1 DEF FateMeaning, Fate, Kept
<1>4. \A n \in Messages \ {m} : Fate(n)' = Fate(n)
  BY <1>1, <1>2 DEF FateMeaning
<1>5. Promise!Change(m, "kept", "settled")
  BY <1>3, <1>4, OneFateChanges
<1>6. Leftover' = Leftover \cup (IF Complete(spool[m]) THEN {m} ELSE {})
  BY DEF Leftover
<1>7. Lingering' \in {Lingering, Lingering \cup {m}} /\ Stale' = Stale
  <2>1. m \notin Leftover
    BY <1>1 DEF Leftover
  <2>2. Lingering' = Lingering \cup (IF Complete(spool[m]) THEN {m} ELSE {})
    BY <1>6, <2>1 DEF Lingering
  <2>3. Stale' = Stale
    BY <1>6, <2>1 DEF Stale
  <2>4. QED
    BY <2>2, <2>3
<1>8. UNCHANGED Exposed
  BY DEF Exposed
<1>9. QED
  BY <1>5, <1>7, <1>8 DEF Promise!Settle, Lingering, Stale

\* Unlinking the files of settled mail removes a lingering copy, or there was none.
LEMMA PromiseErase ==
  ASSUME Grounds, Grounds', NEW m \in Messages, m \in settled, m \in Unlinking,
         Unlinking' \cup {m} = Unlinking,
         spool' = IF Persist THEN [spool EXCEPT ![m] = NoPair] ELSE spool,
         UNCHANGED <<scheduled, inFlight, submitted, accepted, settled, torn>>, Up, Up'
  PROVE  Promise!Erase(m) \/ Promise!Rewrite
<1>1. FateMeaning /\ FateMeaning' /\ spool \in [Messages -> Pair]
  BY DEF Grounds, StructInv, TypeOK
<1>2. \A n \in Messages \ {m} : spool'[n] = spool[n]
  BY <1>1
<1>3. ~Complete(spool'[m])
  BY <1>1 DEF Grounds, SpoolUnused, Complete, NoPair
<1>4. \A n \in accepted \ settled : Kept(n)' <=> Kept(n)
  BY <1>2 DEF Kept, InMemory, Ids, Grounds, StructInv, TypeOK
<1>5. Leftover' = Leftover \ {m}
  BY <1>2, <1>3 DEF Leftover, Grounds, StructInv, TypeOK
<1>6. Lingering' = Lingering \ {m} /\ Stale' = Stale
  BY <1>5 DEF Lingering, Stale
<1>7. CASE m \in Lingering
  <2>1. \A n \in Messages : Fate(n)' = Fate(n)
    BY <1>1, <1>4 DEF FateMeaning
  <2>2. Fates' = Fates /\ Exposed' = Exposed
    BY <2>1 DEF Fates, Exposed
  <2>3. QED
    BY <1>6, <1>7, <2>2 DEF Promise!Erase, Fates, Lingering, Stale
<1>8. CASE m \notin Lingering
  <2>1. UNCHANGED <<Lingering, Stale>>
    BY <1>6, <1>8
  <2>2. QED
    BY <1>4, <2>1, NoFateChanges
<1>9. QED
  BY <1>7, <1>8

\* The worker loop: messages move between the map and a worker, and the files
\* unlinked are those of settled mail.
LEMMA PromiseWorker ==
  ASSUME Grounds, Grounds', NEW w \in Workers, WorkerStep(w)
  PROVE  Promise!Next
<1>1. /\ StructInv /\ TypeOK /\ IndexesAgree /\ SeqFresh /\ SingleOwner /\ OnlyAccepted
      /\ ErasedIsSettled /\ SettledIsOver
  BY DEF Grounds, StructInv
<1>2. CASE LoopTop(w) \/ PollEmpty(w)
  <2>1. /\ UNCHANGED <<scheduled, inFlight, submitted, accepted, settled, spool, erasing, held>>
        /\ Up' = Up /\ pc[w] # "erasing"
    BY <1>2 DEF LoopTop, PollEmpty, queueVars, diskVars, seenVars, Up
  <2>2. pc'[w] # "erasing" /\ \A v \in Workers \ {w} : pc'[v] = pc[v]
    BY <1>1, <1>2 DEF LoopTop, PollEmpty, TypeOK
  <2>3. Unlinking' = Unlinking
    BY <2>1, <2>2, UnlinkingStays
  <2>4. UNCHANGED <<Lingering, Stale>>
    BY <2>1, <2>3, LeftoversStay
  <2>5. QED
    BY <2>1, <2>4, NoFateChanges DEF Kept, InMemory, Ids, Promise!Next
<1>3. ASSUME NEW e \in scheduled, TakeDue(w, e) PROVE Promise!Next
  <2>1. /\ scheduled' = scheduled \ {e} /\ byId' = {i \in byId : i.id # e.id} /\ seq' = seq
        /\ inFlight' = inFlight \cup {e.id} /\ Up' = Up
        /\ UNCHANGED <<submitted, accepted, settled, spool, erasing>>
    BY <1>3 DEF TakeDue, diskVars, Up
  <2>2. Ids(scheduled)' = Ids(scheduled) \ {e.id} /\ e.id \in Ids(scheduled)
    BY <1>1, <2>1, UnscheduleEffect DEF Ids
  <2>3. /\ pc[w] # "erasing" /\ pc'[w] # "erasing"
        /\ \A v \in Workers \ {w} : pc'[v] = pc[v] /\ held'[v] = held[v]
    BY <1>1, <1>3 DEF TakeDue, TypeOK
  <2>4. Unlinking' = Unlinking
    BY <2>1, <2>3, UnlinkingStays
  <2>5. UNCHANGED <<Lingering, Stale>>
    BY <2>1, <2>4, LeftoversStay
  <2>6. QED
    BY <2>1, <2>2, <2>5, NoFateChanges DEF Kept, InMemory, Promise!Next
<1>4. CASE Finish(w)
  <2>1. /\ pc[w] = "sending" /\ inFlight' = inFlight \ {held[w].id}
        /\ settled' = settled \cup {held[w].id} /\ Up /\ Up'
        /\ pc' = [pc EXCEPT ![w] = "erasing"]
        /\ UNCHANGED <<scheduled, submitted, accepted, spool, torn, held, erasing>>
    BY <1>4 DEF Finish, diskVars, Up
  <2>2. held[w].id \in inFlight /\ held[w].id \in Messages
    BY <1>1, <2>1 DEF SingleOwner, Sending, Busy, TypeOK
  <2>3. {v \in Workers : pc'[v] = "erasing"} = {v \in Workers : pc[v] = "erasing"} \cup {w}
    BY <1>1, <2>1 DEF TypeOK
  <2>4. Unlinking' = Unlinking \cup {held[w].id}
    <3>1. Unlinking' = erasing' \cup {held'[v].id : v \in {u \in Workers : pc'[u] = "erasing"}}
      BY DEF Unlinking
    <3>2. QED
      BY <2>1, <2>3, <3>1 DEF Unlinking
  <2>5. Promise!Settle(held[w].id)
    BY <2>1, <2>2, <2>4, PromiseSettle DEF InMemory, Ids
  <2>6. QED
    BY <2>2, <2>5 DEF Promise!Next
<1>5. CASE FinishErase(w)
  <2>1. /\ pc[w] = "erasing" /\ Up /\ Up'
        /\ spool' = IF Persist THEN [spool EXCEPT ![held[w].id] = NoPair] ELSE spool
        /\ pc' = [pc EXCEPT ![w] = "top"] /\ held' = [held EXCEPT ![w] = Idle]
        /\ UNCHANGED <<scheduled, inFlight, submitted, accepted, settled, torn, erasing>>
    BY <1>5 DEF FinishErase, queueVars, seenVars, Up
  <2>2. held[w].id \in settled /\ held[w].id \in Messages
    BY <1>1, <2>1 DEF ErasedIsSettled, Busy, Sending, TypeOK
  <2>3. held[w].id \in Unlinking /\ Unlinking' \cup {held[w].id} = Unlinking
    <3>1. {v \in Workers : pc'[v] = "erasing"} = {v \in Workers : pc[v] = "erasing"} \ {w}
      BY <1>1, <2>1 DEF TypeOK
    <3>2. \A v \in Workers \ {w} : held'[v] = held[v]
      BY <1>1, <2>1 DEF TypeOK
    <3>3. Unlinking' = erasing' \cup {held'[v].id : v \in {u \in Workers : pc'[u] = "erasing"}}
      BY DEF Unlinking
    <3>4. Unlinking' = erasing \cup {held[v].id : v \in {u \in Workers : pc[u] = "erasing"} \ {w}}
      BY <2>1, <3>1, <3>2, <3>3
    <3>5. QED
      BY <2>1, <3>4 DEF Unlinking
  <2>4. Promise!Erase(held[w].id) \/ Promise!Rewrite
    BY <2>1, <2>2, <2>3, PromiseErase
  <2>5. QED
    BY <2>2, <2>4 DEF Promise!Next
<1>6. CASE Requeue(w)
  <2>1. /\ inFlight' = inFlight \ {held[w].id} /\ pc[w] = "sending" /\ Up' = Up
        /\ pc' = [pc EXCEPT ![w] = "top"] /\ held' = [held EXCEPT ![w] = Idle]
        /\ UNCHANGED <<submitted, accepted, settled, erasing>>
    BY <1>6 DEF Requeue, seenVars, Up
  <2>2. /\ held[w].id \in inFlight
        /\ Ids(scheduled)' = Ids(scheduled) \cup {held[w].id}
    BY <1>1, <1>6, RequeueEffect
  <2>3. PICK e \in Entry : e.id = held[w].id /\ WriteSpool(e)
    BY <1>1, <1>6, RequeueEffect
  <2>4. \A n \in Messages \ {held[w].id} : spool'[n] = spool[n]
    BY <1>1, <2>3, WriteSpoolEffect
  <2>5. \A n \in accepted \ settled : Kept(n)' <=> Kept(n)
    BY <1>1, <2>1, <2>2, <2>4 DEF Kept, InMemory, TypeOK
  <2>6. /\ pc[w] # "erasing" /\ pc'[w] # "erasing"
        /\ \A v \in Workers \ {w} : pc'[v] = pc[v] /\ held'[v] = held[v]
    BY <1>1, <2>1 DEF TypeOK
  <2>7. Unlinking' = Unlinking
    BY <2>1, <2>6, UnlinkingStays
  <2>8. \A n \in settled : spool'[n] = spool[n]
    BY <1>1, <2>2, <2>4 DEF SettledIsOver, TypeOK
  <2>9. UNCHANGED <<Lingering, Stale>>
    BY <2>1, <2>7, <2>8, LeftoversStay
  <2>10. QED
    BY <2>1, <2>5, <2>9, NoFateChanges DEF Promise!Next
<1>7. QED
  BY <1>2, <1>3, <1>4, <1>5, <1>6 DEF WorkerStep

\* Operator removals settle mail; a purge, a flush and the clock move none.
LEMMA PromiseOperator ==
  ASSUME Grounds, Grounds',
         \/ \E m \in Messages : Remove(m) \/ PurgeOne(m) \/ RemoveErase(m)
         \/ StartPurge \/ FlushNow
         \/ Tick \/ BeginShutdown \/ FinishInFlight
  PROVE  Promise!Next
<1>1. StructInv /\ TypeOK /\ IndexesAgree /\ SeqFresh /\ SingleOwner /\ ErasedIsSettled
  BY DEF Grounds, StructInv
<1>2. ASSUME NEW m \in Messages, Remove(m) \/ PurgeOne(m) PROVE Promise!Next
  <2>1. /\ UNCHANGED <<submitted, accepted, spool, torn, inFlight, seq, pc, held>>
        /\ Up /\ Up'
    BY <1>2 DEF Remove, PurgeOne, diskVars, Up
  <2>2. CASE Unschedule(m)
    <3>1. PICK e \in scheduled : /\ e.id = m
                                 /\ scheduled' = scheduled \ {e}
                                 /\ byId' = {i \in byId : i.id # e.id}
                                 /\ settled' = settled \cup {m}
      BY <1>1, <2>2, UnscheduleIsRemoval
    <3>2. Ids(scheduled)' = Ids(scheduled) \ {m}
      BY <1>1, <2>1, <3>1, UnscheduleEffect
    <3>3. m \in Ids(scheduled)
      BY <3>1 DEF Ids
    <3>4. erasing' = erasing \cup {m}
      BY <2>2 DEF Unschedule
    <3>5. Unlinking' = Unlinking \cup {m}
      BY <2>1, <3>4 DEF Unlinking
    <3>6. Promise!Settle(m)
      BY <2>1, <3>1, <3>2, <3>3, <3>5, PromiseSettle DEF InMemory
    <3>7. QED
      BY <3>6 DEF Promise!Next
  <2>3. CASE ~Unschedule(m)
    <3>1. UNCHANGED <<scheduled, settled, erasing>>
      BY <1>2, <2>3 DEF Remove, PurgeOne
    <3>2. UNCHANGED <<Lingering, Stale>>
      BY <2>1, <3>1, LeftoversStay DEF Unlinking
    <3>3. QED
      BY <2>1, <3>1, <3>2, NoFateChanges DEF Kept, InMemory, Ids, Promise!Next
  <2>4. QED
    BY <2>2, <2>3
<1>3. ASSUME NEW m \in Messages, RemoveErase(m) PROVE Promise!Next
  <2>1. /\ m \in settled /\ m \in erasing /\ erasing' = erasing \ {m} /\ Up /\ Up'
        /\ spool' = IF Persist THEN [spool EXCEPT ![m] = NoPair] ELSE spool
        /\ UNCHANGED <<scheduled, inFlight, submitted, accepted, settled, torn, pc, held>>
    BY <1>1, <1>3 DEF RemoveErase, ErasedIsSettled, queueVars, seenVars, Up
  <2>2. m \in Unlinking /\ Unlinking' \cup {m} = Unlinking
    BY <2>1 DEF Unlinking
  <2>3. Promise!Erase(m) \/ Promise!Rewrite
    BY <2>1, <2>2, PromiseErase
  <2>4. QED
    BY <2>3 DEF Promise!Next
<1>4. CASE FlushNow
  <2>1. Ids(scheduled)' = Ids(scheduled)
    BY <1>4, FlushKeepsIds
  <2>2. /\ UNCHANGED <<inFlight, submitted, accepted, settled, spool, pc, held, erasing>>
        /\ Up' = Up
    BY <1>4 DEF FlushNow, diskVars, seenVars, taskVars, Up
  <2>3. UNCHANGED <<Lingering, Stale>>
    BY <2>2, LeftoversStay DEF Unlinking
  <2>4. QED
    BY <2>1, <2>2, <2>3, NoFateChanges DEF Kept, InMemory, Promise!Next
<1>5. CASE StartPurge \/ Tick \/ BeginShutdown \/ FinishInFlight
  <2>1. /\ UNCHANGED <<scheduled, inFlight, submitted, accepted, settled, spool, pc, held, erasing>>
        /\ Up' = Up
    BY <1>5 DEF StartPurge, Tick, BeginShutdown, FinishInFlight, queueVars, diskVars, seenVars,
         taskVars, Up
  <2>2. UNCHANGED <<Lingering, Stale>>
    BY <2>1, LeftoversStay DEF Unlinking
  <2>3. QED
    BY <2>1, <2>2, NoFateChanges DEF Kept, InMemory, Ids, Promise!Next
<1>6. QED
  BY <1>2, <1>3, <1>4, <1>5

\* The end of a process loses only kept mail that was exposed, and drops only
\* submissions nobody was promised anything about.
LEMMA PromiseEnds ==
  ASSUME Grounds, Grounds', Exit \/ Crash
  PROVE  Promise!Ends
<1>1. /\ scheduled' = {} /\ inFlight' = {}
      /\ UNCHANGED <<accepted, settled>>
  BY DEF Exit, Crash, Die
<1>2. /\ StructInv /\ TypeOK /\ TypeOK' /\ FateMeaning /\ FateMeaning' /\ KeptOnDisk'
  BY DEF Grounds, StructInv, Durable
<1>3. /\ submitted \subseteq submitted'
      /\ \A m \in Messages : Complete(spool'[m]) => Complete(spool[m]) \/ m \in inFlight
  BY <1>2, SpoolAfterEnd
<1>4. \A m \in Messages : ~InMemory(m)'
  BY <1>1 DEF InMemory, Ids
<1> DEFINE gone == {m \in Messages : Fate(m) = "kept" /\ Fate(m)' = "lost"}
           dropped == {m \in Messages : Fate(m) = "new" /\ Fate(m)' = "refused"}
<1>5. gone \subseteq Exposed'
  <2> SUFFICES ASSUME NEW m \in gone PROVE m \in Exposed'
    OBVIOUS
  <2>1. m \in accepted' \ settled' /\ ~Kept(m)'
    BY <1>2 DEF FateMeaning
  <2>2. Persist => m \in torn'
    BY <1>2, <2>1 DEF KeptOnDisk, Kept
  <2>3. QED
    BY <2>2 DEF Exposed
<1>6. \A m \in Messages : Fate(m)' = IF m \in gone THEN "lost"
                                     ELSE IF m \in dropped THEN "refused"
                                     ELSE Fate(m)
  <2> TAKE m \in Messages
  <2>1. CASE Fate(m) = "new"
    <3>1. m \notin submitted /\ m \notin accepted'
      BY <1>1, <1>2, <2>1 DEF FateMeaning, TypeOK
    <3>2. Fate(m)' = "new" \/ Fate(m)' = "refused"
      BY <1>2, <3>1 DEF FateMeaning
    <3>3. QED
      BY <2>1, <3>2
  <2>2. CASE Fate(m) = "refused"
    <3>1. m \in submitted' \ accepted'
      BY <1>1, <1>2, <1>3, <2>2 DEF FateMeaning
    <3>2. QED
      BY <1>2, <2>2, <3>1 DEF FateMeaning
  <2>3. CASE Fate(m) = "settled"
    BY <1>1, <1>2, <2>3 DEF FateMeaning
  <2>4. CASE Fate(m) = "kept"
    <3>1. m \in accepted' \ settled'
      BY <1>1, <1>2, <2>4 DEF FateMeaning
    <3>2. Fate(m)' = "kept" \/ Fate(m)' = "lost"
      BY <1>2, <3>1 DEF FateMeaning
    <3>3. QED
      BY <2>4, <3>2
  <2>5. CASE Fate(m) = "lost"
    <3>1. m \in accepted' \ settled' /\ ~Kept(m) /\ m \notin settled
      BY <1>1, <1>2, <2>5 DEF FateMeaning
    <3>2. ~Kept(m)'
      BY <1>3, <1>4, <3>1 DEF Kept, InMemory
    <3>3. QED
      BY <1>2, <2>5, <3>1, <3>2 DEF FateMeaning
  <2>6. QED
    BY <1>2, <2>1, <2>2, <2>3, <2>4, <2>5 DEF FateMeaning
<1>7. Exposed' \in SUBSET Messages
  BY <1>2 DEF Exposed, TypeOK
<1> HIDE DEF gone, dropped
<1>8. /\ gone \in SUBSET (Exposed' \cap {m \in Messages : Fates[m] = "kept"})
      /\ dropped \in SUBSET {m \in Messages : Fates[m] = "new"}
  BY <1>5 DEF gone, dropped, Fates
<1>9. Fates' = [m \in Messages |-> IF m \in gone THEN "lost"
                                   ELSE IF m \in dropped THEN "refused"
                                   ELSE Fates[m]]
  BY <1>6 DEF Fates
<1>10. Up' = FALSE
  BY DEF Exit, Crash, Die, Up
<1>11. QED
  BY <1>7, <1>8, <1>9, <1>10 DEF Promise!Ends, Fates

\* A crash turns lingering copies into stale ones; an orderly exit finds none.
LEMMA PromiseStops ==
  ASSUME Grounds, Grounds', Exit \/ Crash
  PROVE  Promise!Stop \/ Promise!Crash
<1>1. /\ StructInv /\ SettledIsOver /\ TypeOK /\ TypeOK'
  BY DEF Grounds, StructInv
<1>2. /\ settled' = settled /\ erasing' = {} /\ pc' = [w \in Workers |-> "stopped"]
      /\ Promise!Ends
  BY PromiseEnds DEF Exit, Crash, Die
<1>3. Unlinking' = {}
  <2>1. Unlinking' = erasing' \cup {held'[v].id : v \in {u \in Workers : pc'[u] = "erasing"}}
    BY DEF Unlinking
  <2>2. {u \in Workers : pc'[u] = "erasing"} = {}
    BY <1>2
  <2>3. QED
    BY <1>2, <2>1, <2>2
<1>4. CASE Exit
  <2>1. Up /\ Unlinking = {} /\ spool' = spool
    BY <1>4 DEF Unlinking, Exit, Up, diskVars
  <2>2. Lingering = {} /\ UNCHANGED <<Lingering, Stale>>
    BY <1>2, <1>3, <2>1, LeftoversStay DEF Lingering
  <2>3. QED
    BY <1>2, <2>1, <2>2 DEF Promise!Stop, Lingering, Stale
<1>5. CASE Crash
  <2>1. \A m \in Messages : Complete(spool'[m]) => Complete(spool[m]) \/ m \in inFlight
    BY <1>1, SpoolAfterEnd
  <2>2. Leftover' \subseteq Leftover
    BY <1>1, <1>2, <2>1 DEF Leftover, SettledIsOver, TypeOK
  <2>3. Lingering' = {} /\ Stale' \in SUBSET (Stale \cup Lingering)
    BY <1>3, <2>2 DEF Lingering, Stale
  <2>4. QED
    BY <1>2, <2>3 DEF Promise!Crash, Lingering, Stale
<1>6. QED
  BY <1>4, <1>5

\* Recovery brings kept mail back into memory, takes stale copies of settled mail
\* for kept mail, and discards only lost mail.
LEMMA PromiseRecovery ==
  ASSUME Grounds, Grounds', Recovery
  PROVE  Promise!Next
<1>1. StructInv /\ TypeOK /\ SpoolUnused /\ PhasesSeparate /\ FateMeaning /\ FateMeaning'
  BY DEF Grounds, StructInv
<1>2. UNCHANGED <<submitted, accepted, inFlight, erasing>> /\ ~Up
  BY DEF Recovery, Restart, RecoverUnreadable, RecoverDiscard, RecoverLoad, RecoverBreak,
       RecoverDone, queueVars, seenVars, Up
<1>3. Unlinking = {} /\ Unlinking' = {}
  <2>1. erasing = {} /\ {u \in Workers : pc[u] = "erasing"} = {}
    BY <1>1, <1>2 DEF PhasesSeparate, Busy
  <2>2. {u \in Workers : pc'[u] = "erasing"} = {}
    BY <2>1 DEF Recovery, Restart, RecoverUnreadable, RecoverDiscard, RecoverLoad, RecoverBreak,
         RecoverDone, StartTasks
  <2>3. Unlinking' = erasing' \cup {held'[v].id : v \in {u \in Workers : pc'[u] = "erasing"}}
    BY DEF Unlinking
  <2>4. QED
    BY <1>2, <2>1, <2>2, <2>3 DEF Unlinking
<1>4. ASSUME NEW m \in Messages, RecoverLoad(m) PROVE Promise!Next
  <2>1. /\ Complete(spool[m]) /\ spool' = spool /\ torn' = torn /\ Up' = Up
        /\ settled' = settled \ {m}
    BY <1>4 DEF RecoverLoad, diskVars, Up
  <2>2. Persist
    BY <1>1, <2>1 DEF SpoolUnused, NoPair, Complete
  <2>3. Ids(scheduled)' = Ids(scheduled) \cup {m}
    BY <1>1, <1>4, RecoverLoadEffect
  <2>4. CASE m \in settled
    <3>1. Fate(m) = "settled" /\ Fate(m)' = "kept"
      BY <1>1, <2>3, <2>4 DEF FateMeaning, Fate, Kept, InMemory
    <3>2. \A n \in Messages \ {m} : Kept(n)' <=> Kept(n)
      BY <1>2, <2>1, <2>3 DEF Kept, InMemory
    <3>3. \A n \in Messages \ {m} : Fate(n)' = Fate(n)
      BY <1>1, <1>2, <2>1, <3>2 DEF FateMeaning
    <3>4. Promise!Change(m, "settled", "kept")
      BY <3>1, <3>3, OneFateChanges
    <3>5. Lingering = {} /\ Lingering' = {} /\ m \in Stale /\ Stale' = Stale \ {m}
      BY <1>3, <2>1, <2>4 DEF Lingering, Stale, Leftover
    <3>6. Exposed' = Exposed
      BY <2>1 DEF Exposed
    <3>7. Promise!Reopen(m)
      BY <1>2, <2>1, <3>4, <3>5, <3>6 DEF Promise!Reopen, Lingering, Stale
    <3>8. QED
      BY <3>7 DEF Promise!Next
  <2>5. CASE m \notin settled
    <3>1. settled' = settled
      BY <2>1, <2>5
    <3>2. \A n \in accepted \ settled : Kept(n)' <=> Kept(n)
      BY <1>2, <2>1, <2>2, <2>3, <3>1 DEF Kept, InMemory
    <3>3. UNCHANGED <<Lingering, Stale>>
      BY <1>3, <2>1, <3>1, LeftoversStay
    <3>4. QED
      BY <1>2, <2>1, <3>1, <3>2, <3>3, NoFateChanges DEF Promise!Next
  <2>6. QED
    BY <2>4, <2>5
<1>5. ASSUME NEW m \in Messages, RecoverDiscard(m) PROVE Promise!Next
  <2>1. /\ ~Complete(spool[m]) /\ spool' = [spool EXCEPT ![m] = NoPair] /\ scheduled' = scheduled
        /\ Up' = Up /\ settled' = settled
    BY <1>5 DEF RecoverDiscard, Complete, queueVars, seenVars, Up
  <2>2. ~Complete(NoPair)
    BY DEF Complete, NoPair
  <2>3. \A n \in Messages : Complete(spool'[n]) <=> Complete(spool[n])
    BY <1>1, <2>1, <2>2 DEF TypeOK
  <2>4. Leftover' = Leftover
    BY <1>1, <2>1, <2>3 DEF Leftover, TypeOK
  <2>5. UNCHANGED <<Lingering, Stale>>
    BY <1>3, <2>4 DEF Lingering, Stale
  <2>6. \A n \in accepted \ settled : Kept(n)' <=> Kept(n)
    BY <1>1, <1>2, <2>1, <2>3 DEF Kept, InMemory, Ids, TypeOK
  <2>7. QED
    BY <1>2, <2>1, <2>5, <2>6, NoFateChanges DEF Promise!Next
<1>6. CASE \/ Restart \/ RecoverDone
           \/ \E m \in Messages : RecoverUnreadable(m) \/ RecoverBreak(m)
  <2>1. UNCHANGED <<scheduled, spool, settled, torn>>
    BY <1>6 DEF Restart, RecoverUnreadable, RecoverBreak, RecoverDone, queueVars, diskVars, seenVars
  <2>2. UNCHANGED <<Lingering, Stale>>
    BY <1>3, <2>1, LeftoversStay
  <2>3. \A n \in Messages : Kept(n)' <=> Kept(n)
    BY <1>2, <2>1 DEF Kept, InMemory, Ids
  <2>4. CASE Up' = Up
    BY <1>2, <2>1, <2>2, <2>3, <2>4, NoFateChanges DEF Promise!Next, Grounds, StructInv, TypeOK
  <2>5. CASE Up' # Up
    <3>1. Up' = TRUE
      BY <1>2, <2>5 DEF Up
    <3>2. \A n \in Messages : Fate(n)' = Fate(n)
      BY <1>1, <1>2, <2>1, <2>3 DEF FateMeaning
    <3>3. Fates' = Fates /\ Exposed' = Exposed
      BY <2>1, <3>2 DEF Fates, Exposed
    <3>4. Promise!Start
      BY <1>2, <2>2, <3>1, <3>3 DEF Promise!Start, Fates, Lingering, Stale
    <3>5. QED
      BY <3>4 DEF Promise!Next
  <2>6. QED
    BY <2>4, <2>5
<1>7. QED
  BY <1>4, <1>5, <1>6 DEF Recovery

\* Every step of the queue is a step of the promise, or a stutter.
LEMMA PromiseNext == Grounds /\ Grounds' /\ [Next]_vars => [Promise!Next]_PromiseVars
<1> SUFFICES ASSUME Grounds, Grounds', [Next]_vars
             PROVE  Promise!Next \/ UNCHANGED PromiseVars
  OBVIOUS
<1>1. CASE \E m \in Messages, a \in SubmitAttempts : Enqueue(m, a) \/ Refuse(m, a)
  BY <1>1, PromiseEnqueue, PromiseRefuse DEF Promise!Next
<1>2. CASE \E w \in Workers : WorkerStep(w)
  BY <1>2, PromiseWorker
<1>3. CASE \/ \E m \in Messages : Remove(m) \/ PurgeOne(m) \/ RemoveErase(m)
           \/ StartPurge \/ FlushNow
           \/ Tick \/ BeginShutdown \/ FinishInFlight
  BY <1>3, PromiseOperator
<1>4. CASE Exit \/ Crash
  BY <1>4, PromiseStops DEF Promise!Next
<1>5. CASE Recovery
  BY <1>5, PromiseRecovery
<1>6. CASE UNCHANGED vars
  <2>1. /\ UNCHANGED <<scheduled, inFlight, submitted, accepted, settled, spool, pc, held, erasing>>
        /\ Up' = Up
    BY <1>6 DEF vars, queueVars, diskVars, seenVars, taskVars, Up
  <2>2. UNCHANGED <<Lingering, Stale>>
    BY <2>1, LeftoversStay DEF Unlinking
  <2>3. QED
    BY <2>1, <2>2, NoFateChanges DEF Kept, InMemory, Ids, Promise!Next
<1>7. QED
  BY <1>1, <1>2, <1>3, <1>4, <1>5, <1>6 DEF Next

\* The queue implements the promise: whatever interleaving of submissions,
\* workers, operator calls, crashes and restarts, a message taken over is kept
\* until it is settled, only one whose files were damaged can be lost, and one
\* that was settled is owed again only if a crash came before its unlinking.
THEOREM QueueImplementsPromise == Spec => PromiseKept
<1>1. [Promise!Next]_PromiseVars => [Promise!Next]_(Promise!vars)
  BY DEF PromiseVars, Promise!vars, Fates, Lingering, Stale
<1>2. QED
  BY <1>1, PromiseInit, PromiseNext, GroundsHold, PTL DEF Spec, PromiseKept, Promise!Spec

-----------------------------------------------------------------------------
(***************************************************************************)
(* The two limits of the queue: the attempts made for one message, and the *)
(* number of messages held.                                                *)
(***************************************************************************)

(* Attempts.  An entry reaches the queue with attempts left only if the     *)
(* attempts made at submission stay below the limit: with hybrid mode and  *)
(* max_attempts = 1 the bound does not hold.                               *)

AttemptsLeft == \A a \in SubmitAttempts : a < MaxAttempts

\* The bound, with what makes it inductive.
Counted == AttemptsBounded /\ CountsKept /\ SpoolUnused

BusyIds == {held[w].id : w \in Busy}

\* Nothing has been tried and nothing written at first.
LEMMA CountInit == Init => Counted
<1> SUFFICES ASSUME Init PROVE Counted
  OBVIOUS
<1>1. Sending = {}
  BY DEF Init, Sending
<1>2. QED
  BY <1>1, ConstantsAssumption DEF Init, Counted, AttemptsBounded, CountsKept, SpoolUnused, NoPair

\* A step that makes no attempt and writes no new count keeps the counts: each
\* copy left was there before, and a worker that lets go of a message either
\* has its files unlinked or ends with the process.
LEMMA CountFrame ==
  ASSUME StructInv, Counted, tries' = tries, mishaps <= mishaps', mishaps' \in Nat,
         spool' \in [Messages -> Pair],
         \A e \in scheduled' : \E d \in scheduled : e.id = d.id /\ e.attempts = d.attempts,
         \A w \in Sending' : w \in Sending /\ held'[w] = held[w],
         \A m \in Messages :
            spool'[m].meta = "full" =>
              /\ spool[m].meta = "full" /\ spool'[m].attempts = spool[m].attempts
              /\ m \in BusyIds => m \in BusyIds' \/ mishaps' > mishaps,
         SpoolUnused'
  PROVE  Counted'
<1>1. TypeOK /\ AttemptsBounded /\ CountsKept
  BY DEF StructInv, Counted
<1>2. \A m \in Messages : tries[m] \in Nat /\ mishaps \in Nat /\ MaxAttempts \in Nat
  BY <1>1, ConstantsAssumption DEF TypeOK
<1>3. AttemptsBounded'
  BY <1>1, <1>2 DEF AttemptsBounded
<1>4. \A e \in scheduled' : e.attempts < MaxAttempts /\ tries'[e.id] <= e.attempts + mishaps'
  <2> TAKE e \in scheduled'
  <2>1. PICK d \in scheduled : e.id = d.id /\ e.attempts = d.attempts
    OBVIOUS
  <2>2. d.id \in Messages /\ d.attempts \in Nat
    BY <1>1 DEF TypeOK, Entry
  <2>3. d.attempts < MaxAttempts /\ tries[d.id] <= d.attempts + mishaps
    BY <1>1 DEF CountsKept
  <2>4. QED
    BY <1>2, <2>1, <2>2, <2>3
<1>5. \A w \in Sending' : /\ held'[w].attempts \in 1..MaxAttempts
                          /\ tries'[held'[w].id] <= held'[w].attempts + mishaps'
  <2> TAKE w \in Sending'
  <2>1. w \in Sending /\ held'[w] = held[w]
    OBVIOUS
  <2>2. held[w].id \in Messages
    BY <1>1, <2>1 DEF StructInv, SingleOwner, TypeOK
  <2>3. held[w].attempts \in 1..MaxAttempts /\ tries[held[w].id] <= held[w].attempts + mishaps
    BY <1>1, <2>1 DEF CountsKept
  <2>4. QED
    BY <1>2, <2>1, <2>2, <2>3
<1>6. ASSUME NEW m \in Messages, spool'[m].meta = "full"
      PROVE  /\ spool'[m].attempts < MaxAttempts
             /\ tries'[m] <= spool'[m].attempts + mishaps' + (IF m \in BusyIds' THEN 1 ELSE 0)
  <2>1. /\ spool[m].meta = "full" /\ spool'[m].attempts = spool[m].attempts
        /\ m \in BusyIds => m \in BusyIds' \/ mishaps' > mishaps
    BY <1>6
  <2>2. spool[m].attempts \in Nat
    BY <1>1 DEF TypeOK, Pair
  <2>3. /\ spool[m].attempts < MaxAttempts
        /\ tries[m] <= spool[m].attempts + mishaps + (IF m \in BusyIds THEN 1 ELSE 0)
    BY <1>1, <2>1 DEF CountsKept, BusyIds
  <2>4. QED
    BY <1>2, <2>1, <2>2, <2>3
<1>7. CountsKept'
  BY <1>4, <1>5, <1>6 DEF CountsKept, BusyIds
<1>8. QED
  BY <1>3, <1>7 DEF Counted

\* A new message arrives with the attempts its submission has made.
LEMMA CountEnqueue ==
  ASSUME AttemptsLeft, StructInv, Counted,
         NEW m \in Messages, NEW a \in SubmitAttempts, Enqueue(m, a)
  PROVE  Counted'
<1>1. /\ tries' = [tries EXCEPT ![m] = a]
      /\ UNCHANGED <<pc, held>>
  BY DEF Enqueue, taskVars
<1>2. /\ TypeOK /\ OnlyAccepted
      /\ AttemptsBounded /\ CountsKept /\ SpoolUnused
  BY DEF StructInv, Counted
<1>3. a \in Nat /\ a < MaxAttempts /\ MaxAttempts \in Nat
  BY EnqueueEffect, ConstantsAssumption DEF AttemptsLeft
<1>4. PICK e \in Entry : /\ e.id = m /\ e.attempts = a
                         /\ WriteSpool(e)
                         /\ scheduled' = scheduled \cup {e}
  BY EnqueueEffect
<1>5. m \notin submitted /\ m \notin Owned
  BY EnqueueEffect
<1>6. m \notin Ids(scheduled) /\ m \notin BusyIds /\ spool[m].meta = "absent"
  BY <1>2, <1>5 DEF OnlyAccepted, Owned, BusyIds
<1>7. /\ spool' \in [Messages -> Pair] /\ mishaps' \in Nat /\ mishaps <= mishaps'
      /\ \A n \in Messages \ {m} : spool'[n] = spool[n]
      /\ spool'[m].meta = "full" => spool'[m].attempts = a
  BY <1>2, <1>4, <1>6, WriteSpoolEffect
<1>8. /\ Sending' = Sending /\ BusyIds' = BusyIds
      /\ \A w \in Sending : held[w].id \in BusyIds
  BY <1>1 DEF Sending, Busy, BusyIds
<1>9. /\ tries'[m] = a
      /\ \A n \in Messages \ {m} : tries'[n] = tries[n]
      /\ \A n \in Messages : tries[n] \in Nat
      /\ mishaps \in Nat
  BY <1>1, <1>2 DEF TypeOK
<1>10. AttemptsBounded'
  BY <1>2, <1>3, <1>7, <1>9 DEF AttemptsBounded
<1>11. ASSUME NEW d \in scheduled'
       PROVE  d.attempts < MaxAttempts /\ tries'[d.id] <= d.attempts + mishaps'
  <2>1. CASE d = e
    BY <1>3, <1>4, <1>7, <1>9, <2>1
  <2>2. CASE d \in scheduled
    <3>1. d.id \in Messages /\ d.id # m /\ d.attempts \in Nat
      BY <1>2, <1>6, <2>2 DEF TypeOK, Entry, Ids
    <3>2. d.attempts < MaxAttempts /\ tries[d.id] <= d.attempts + mishaps
      BY <1>2, <2>2 DEF CountsKept
    <3>3. QED
      BY <1>3, <1>7, <1>9, <3>1, <3>2
  <2>3. QED
    BY <1>4, <2>1, <2>2
<1>12. ASSUME NEW w \in Sending'
       PROVE  /\ held'[w].attempts \in 1..MaxAttempts
              /\ tries'[held'[w].id] <= held'[w].attempts + mishaps'
  <2>1. held[w].id \in Messages /\ held[w].id # m
    BY <1>6, <1>8 DEF StructInv, SingleOwner, TypeOK
  <2>2. held[w].attempts \in 1..MaxAttempts /\ tries[held[w].id] <= held[w].attempts + mishaps
    BY <1>2, <1>8 DEF CountsKept
  <2>3. QED
    BY <1>1, <1>3, <1>7, <1>9, <2>1, <2>2
<1>13. ASSUME NEW n \in Messages, spool'[n].meta = "full"
       PROVE  /\ spool'[n].attempts < MaxAttempts
              /\ tries'[n] <= spool'[n].attempts + mishaps' + (IF n \in BusyIds' THEN 1 ELSE 0)
  <2>1. CASE n = m
    BY <1>3, <1>6, <1>7, <1>8, <1>9, <1>13, <2>1
  <2>2. CASE n # m
    <3>1. spool[n].meta = "full" /\ spool'[n] = spool[n] /\ spool[n].attempts \in Nat
      BY <1>2, <1>7, <1>13, <2>2 DEF TypeOK, Pair
    <3>2. /\ spool[n].attempts < MaxAttempts
          /\ tries[n] <= spool[n].attempts + mishaps + (IF n \in BusyIds THEN 1 ELSE 0)
      BY <1>2, <3>1 DEF CountsKept, BusyIds
    <3>3. QED
      BY <1>3, <1>7, <1>8, <1>9, <2>2, <3>1, <3>2
  <2>3. QED
    BY <2>1, <2>2
<1>14. CountsKept'
  BY <1>11, <1>12, <1>13 DEF CountsKept, BusyIds
<1>15. SpoolUnused'
  BY <1>2, <1>4 DEF SpoolUnused, WriteSpool, diskVars
<1>16. QED
  BY <1>10, <1>14, <1>15 DEF Counted

\* An attempt starts: the count the worker holds rises with the attempts made,
\* the one on disk lags by the attempt in progress.
LEMMA CountTakeDue ==
  ASSUME AttemptsLeft, StructInv, Counted, NEW w \in Workers, NEW e \in scheduled, TakeDue(w, e)
  PROVE  Counted'
<1>1. /\ Up /\ pc[w] = "poll"
      /\ scheduled' = scheduled \ {e}
      /\ pc' = [pc EXCEPT ![w] = "sending"]
      /\ held' = [held EXCEPT ![w] = [id |-> e.id, attempts |-> e.attempts + 1]]
      /\ tries' = [tries EXCEPT ![e.id] = @ + 1]
      /\ UNCHANGED <<spool, mishaps>>
  BY DEF TakeDue, diskVars
<1>2. /\ TypeOK /\ IndexesAgree /\ SingleOwner
      /\ AttemptsBounded /\ CountsKept /\ SpoolUnused
  BY DEF StructInv, Counted
<1>3. /\ e.id \in Messages /\ e.attempts \in Nat /\ MaxAttempts \in Nat
      /\ e.attempts < MaxAttempts /\ tries[e.id] <= e.attempts + mishaps
  BY <1>2, ConstantsAssumption DEF TypeOK, Entry, CountsKept
<1>4. /\ tries'[e.id] = tries[e.id] + 1
      /\ \A n \in Messages \ {e.id} : tries'[n] = tries[n]
      /\ \A n \in Messages : tries[n] \in Nat
      /\ mishaps \in Nat
  BY <1>1, <1>2, <1>3 DEF TypeOK
<1>5. /\ Sending' = Sending \cup {w} /\ w \notin Sending /\ w \notin Busy
      /\ held'[w] = [id |-> e.id, attempts |-> e.attempts + 1]
      /\ \A v \in Workers \ {w} : held'[v] = held[v]
      /\ Busy' = Busy \cup {w} /\ Busy \subseteq Workers /\ Sending \subseteq Busy
  BY <1>1, <1>2 DEF Sending, Busy, TypeOK
<1>6. BusyIds' = BusyIds \cup {e.id}
  BY <1>5 DEF BusyIds
<1>7. e.id \notin BusyIds
  BY <1>2 DEF SingleOwner, BusyIds, Ids
<1>8. AttemptsBounded'
  BY <1>1, <1>2, <1>3, <1>4 DEF AttemptsBounded
<1>9. ASSUME NEW d \in scheduled'
      PROVE  d.attempts < MaxAttempts /\ tries'[d.id] <= d.attempts + mishaps'
  <2>1. d \in scheduled /\ d.id # e.id /\ d.id \in Messages
    BY <1>1, <1>2 DEF IndexesAgree, TypeOK, Entry
  <2>2. d.attempts < MaxAttempts /\ tries[d.id] <= d.attempts + mishaps
    BY <1>2, <2>1 DEF CountsKept
  <2>3. QED
    BY <1>1, <1>4, <2>1, <2>2
<1>10. ASSUME NEW v \in Sending'
       PROVE  /\ held'[v].attempts \in 1..MaxAttempts
              /\ tries'[held'[v].id] <= held'[v].attempts + mishaps'
  <2>1. CASE v = w
    <3>1. held'[v].id = e.id /\ held'[v].attempts = e.attempts + 1
      BY <1>5, <2>1
    <3>2. QED
      BY <1>1, <1>3, <1>4, <3>1
  <2>2. CASE v # w
    <3>1. v \in Sending /\ held'[v] = held[v]
      BY <1>5, <2>2
    <3>2. held[v].id \in Messages /\ held[v].id # e.id
      BY <1>2, <1>5, <1>7, <3>1 DEF SingleOwner, TypeOK, BusyIds
    <3>3. held[v].attempts \in 1..MaxAttempts /\ tries[held[v].id] <= held[v].attempts + mishaps
      BY <1>2, <3>1 DEF CountsKept
    <3>4. QED
      BY <1>1, <1>4, <3>1, <3>2, <3>3
  <2>3. QED
    BY <2>1, <2>2
<1>11. ASSUME NEW n \in Messages, spool'[n].meta = "full"
       PROVE  /\ spool'[n].attempts < MaxAttempts
              /\ tries'[n] <= spool'[n].attempts + mishaps' + (IF n \in BusyIds' THEN 1 ELSE 0)
  <2>1. spool[n].attempts \in Nat
    BY <1>2 DEF TypeOK, Pair
  <2>2. /\ spool[n].attempts < MaxAttempts
        /\ tries[n] <= spool[n].attempts + mishaps + (IF n \in BusyIds THEN 1 ELSE 0)
    BY <1>1, <1>2, <1>11 DEF CountsKept, BusyIds
  <2>3. QED
    BY <1>1, <1>3, <1>4, <1>6, <1>7, <2>1, <2>2
<1>12. CountsKept'
  BY <1>9, <1>10, <1>11 DEF CountsKept, BusyIds
<1>13. SpoolUnused'
  BY <1>1, <1>2 DEF SpoolUnused
<1>14. QED
  BY <1>8, <1>12, <1>13 DEF Counted

\* A retry goes back with the count its worker held; a write that fails leaves
\* the older count on disk, and is a mishap.
LEMMA CountRequeue ==
  ASSUME AttemptsLeft, StructInv, Counted, NEW w \in Workers, Requeue(w)
  PROVE  Counted'
<1>1. /\ pc[w] = "sending" /\ held[w].attempts < MaxAttempts
      /\ pc' = [pc EXCEPT ![w] = "top"] /\ held' = [held EXCEPT ![w] = Idle]
      /\ tries' = tries
  BY DEF Requeue, seenVars
<1>2. /\ TypeOK /\ SingleOwner
      /\ AttemptsBounded /\ CountsKept /\ SpoolUnused
  BY DEF StructInv, Counted
<1>3. /\ w \in Sending /\ held[w].id \in Messages
      /\ held[w].attempts \in 1..MaxAttempts
  BY RequeueEffect
<1>4. tries[held[w].id] <= held[w].attempts + mishaps
  BY <1>2, <1>3 DEF CountsKept
<1>5. held[w].attempts \in Nat /\ MaxAttempts \in Nat
  BY <1>3, ConstantsAssumption
<1>6. PICK e \in Entry : /\ e.id = held[w].id /\ e.attempts = held[w].attempts
                         /\ WriteSpool(e)
                         /\ scheduled' = scheduled \cup {e}
  BY RequeueEffect
<1>7. /\ spool' \in [Messages -> Pair] /\ mishaps' \in Nat /\ mishaps <= mishaps'
      /\ \A n \in Messages \ {e.id} : spool'[n] = spool[n]
      /\ spool'[e.id].meta = "full" =>
           \/ spool'[e.id].attempts = e.attempts
           \/ ~Persist /\ spool' = spool
           \/ /\ mishaps' = mishaps + 1
              /\ spool[e.id].meta = "full"
              /\ spool'[e.id].attempts = spool[e.id].attempts
  BY <1>2, <1>6, WriteSpoolEffect
<1>8. e.id \in Messages /\ mishaps \in Nat
  BY <1>2, <1>3, <1>6 DEF TypeOK
<1>9. /\ Sending' = Sending \ {w} /\ Busy' = Busy \ {w}
      /\ Sending \subseteq Busy /\ Busy \subseteq Workers
      /\ \A v \in Workers \ {w} : held'[v] = held[v]
  BY <1>1, <1>2 DEF Sending, Busy, TypeOK
<1>10. /\ \A n \in Messages : tries[n] \in Nat
       /\ mishaps \in Nat
  BY <1>2 DEF TypeOK
<1>11. \A n \in BusyIds \ {e.id} : n \in BusyIds'
  BY <1>6, <1>9 DEF BusyIds
<1>12. AttemptsBounded'
  BY <1>1, <1>2, <1>5, <1>7, <1>10 DEF AttemptsBounded
<1>13. ASSUME NEW d \in scheduled'
       PROVE  d.attempts < MaxAttempts /\ tries'[d.id] <= d.attempts + mishaps'
  <2>1. CASE d = e
    <3>1. d.id = held[w].id /\ d.attempts = held[w].attempts /\ tries[d.id] \in Nat
      BY <1>6, <1>8, <1>10, <2>1
    <3>2. mishaps \in Nat /\ mishaps' \in Nat /\ mishaps <= mishaps'
      BY <1>7, <1>8
    <3>3. tries[d.id] <= d.attempts + mishaps'
      BY <1>4, <1>5, <3>1, <3>2
    <3>4. QED
      BY <1>1, <3>1, <3>3
  <2>2. CASE d \in scheduled
    <3>1. d.id \in Messages /\ d.attempts \in Nat
      BY <1>2, <2>2 DEF TypeOK, Entry
    <3>2. d.attempts < MaxAttempts /\ tries[d.id] <= d.attempts + mishaps
      BY <1>2, <2>2 DEF CountsKept
    <3>3. QED
      BY <1>1, <1>5, <1>7, <1>10, <3>1, <3>2
  <2>3. QED
    BY <1>6, <2>1, <2>2
<1>14. ASSUME NEW v \in Sending'
       PROVE  /\ held'[v].attempts \in 1..MaxAttempts
              /\ tries'[held'[v].id] <= held'[v].attempts + mishaps'
  <2>1. v \in Sending /\ held'[v] = held[v]
    BY <1>9
  <2>2. held[v].id \in Messages
    BY <1>2, <2>1 DEF SingleOwner, TypeOK
  <2>3. held[v].attempts \in 1..MaxAttempts /\ tries[held[v].id] <= held[v].attempts + mishaps
    BY <1>2, <2>1 DEF CountsKept
  <2>4. QED
    BY <1>1, <1>5, <1>7, <1>10, <2>1, <2>2, <2>3
<1>15. ASSUME NEW n \in Messages, spool'[n].meta = "full"
       PROVE  /\ spool'[n].attempts < MaxAttempts
              /\ tries'[n] <= spool'[n].attempts + mishaps' + (IF n \in BusyIds' THEN 1 ELSE 0)
  <2>1. /\ spool[n].attempts \in Nat /\ spool'[n].attempts \in Nat
        /\ ~Persist => spool[n].meta # "full"
    BY <1>2, <1>7 DEF TypeOK, Pair, SpoolUnused, NoPair
  <2>2. CASE n = e.id /\ spool'[n].attempts = e.attempts
    BY <1>1, <1>4, <1>5, <1>6, <1>7, <1>10, <2>1, <2>2
  <2>3. CASE n = e.id /\ mishaps' = mishaps + 1 /\ spool[n].meta = "full"
               /\ spool'[n].attempts = spool[n].attempts
    <3>1. /\ spool[n].attempts < MaxAttempts
          /\ tries[n] <= spool[n].attempts + mishaps + (IF n \in BusyIds THEN 1 ELSE 0)
      BY <1>2, <2>3 DEF CountsKept, BusyIds
    <3>2. QED
      BY <1>1, <1>5, <1>10, <2>1, <2>3, <3>1
  <2>4. CASE n # e.id
    <3>1. spool'[n] = spool[n]
      BY <1>7, <2>4
    <3>2. /\ spool[n].attempts < MaxAttempts
          /\ tries[n] <= spool[n].attempts + mishaps + (IF n \in BusyIds THEN 1 ELSE 0)
      BY <1>2, <1>15, <3>1 DEF CountsKept, BusyIds
    <3>3. n \in BusyIds => n \in BusyIds'
      BY <1>11, <2>4
    <3>4. QED
      BY <1>1, <1>5, <1>7, <1>10, <2>1, <3>1, <3>2, <3>3
  <2>5. QED
    BY <1>7, <1>15, <2>1, <2>2, <2>3, <2>4
<1>16. CountsKept'
  BY <1>13, <1>14, <1>15 DEF CountsKept, BusyIds
<1>17. SpoolUnused'
  BY <1>2, <1>6 DEF SpoolUnused, WriteSpool, diskVars
<1>18. QED
  BY <1>12, <1>16, <1>17 DEF Counted

\* A refused message has no copy anywhere whose count could be wrong.
LEMMA CountRefuse ==
  ASSUME AttemptsLeft, StructInv, Counted,
         NEW m \in Messages, NEW a \in SubmitAttempts, Refuse(m, a)
  PROVE  Counted'
<1>1. /\ m \notin submitted /\ tries' = [tries EXCEPT ![m] = a]
      /\ UNCHANGED <<scheduled, pc, held, spool, mishaps>>
  BY DEF Refuse, queueVars, taskVars, diskVars
<1>2. /\ TypeOK /\ OnlyAccepted /\ SingleOwner
      /\ AttemptsBounded /\ CountsKept /\ SpoolUnused
  BY DEF StructInv, Counted
<1>3. a \in Nat /\ a < MaxAttempts /\ MaxAttempts \in Nat
  BY ConstantsAssumption DEF AttemptsLeft
<1>4. /\ tries'[m] = a /\ \A n \in Messages \ {m} : tries'[n] = tries[n]
      /\ mishaps \in Nat
  BY <1>1, <1>2 DEF TypeOK
<1>5. m \notin Ids(scheduled) /\ m \notin BusyIds /\ spool[m].meta = "absent"
  BY <1>1, <1>2 DEF TypeOK, OnlyAccepted, Owned, BusyIds
<1>6. Sending' = Sending /\ BusyIds' = BusyIds /\ \A w \in Sending : held[w].id \in BusyIds
  BY <1>1 DEF Sending, Busy, BusyIds
<1>7. AttemptsBounded'
  BY <1>1, <1>2, <1>3, <1>4 DEF AttemptsBounded
<1>8. \A e \in scheduled' : e.attempts < MaxAttempts /\ tries'[e.id] <= e.attempts + mishaps'
  BY <1>1, <1>2, <1>4, <1>5 DEF CountsKept, TypeOK, Entry, Ids
<1>9. \A w \in Sending' : /\ held'[w].attempts \in 1..MaxAttempts
                          /\ tries'[held'[w].id] <= held'[w].attempts + mishaps'
  BY <1>1, <1>2, <1>4, <1>5, <1>6 DEF CountsKept, SingleOwner, TypeOK
<1>10. \A n \in Messages :
         spool'[n].meta = "full" =>
           /\ spool'[n].attempts < MaxAttempts
           /\ tries'[n] <= spool'[n].attempts + mishaps' + (IF n \in BusyIds' THEN 1 ELSE 0)
  BY <1>1, <1>2, <1>4, <1>5, <1>6 DEF CountsKept, BusyIds
<1>11. CountsKept'
  BY <1>8, <1>9, <1>10 DEF CountsKept, BusyIds
<1>12. QED
  BY <1>1, <1>2, <1>7, <1>11 DEF Counted, SpoolUnused

\* The loop, a final verdict and the unlinking of files start no attempt.
LEMMA CountWorker ==
  ASSUME StructInv, Counted, NEW w \in Workers,
         LoopTop(w) \/ PollEmpty(w) \/ Finish(w) \/ FinishErase(w)
  PROVE  Counted'
<1>1. TypeOK /\ SpoolUnused /\ SingleOwner
  BY DEF StructInv, Counted
<1>2. mishaps \in Nat /\ mishaps <= mishaps
  BY <1>1 DEF TypeOK
<1>3. CASE LoopTop(w) \/ PollEmpty(w)
  <2>1. /\ pc[w] \in {"top", "poll"}
        /\ \E k \in {"top", "poll", "stopped"} : pc' = [pc EXCEPT ![w] = k]
        /\ UNCHANGED <<scheduled, held, spool, tries, mishaps>>
    BY <1>3 DEF LoopTop, PollEmpty, queueVars, diskVars, seenVars
  <2>2. Sending' = Sending /\ Busy' = Busy
    BY <1>1, <2>1 DEF Sending, Busy, TypeOK
  <2>3. QED
    BY <1>1, <1>2, <2>1, <2>2, CountFrame DEF BusyIds, TypeOK, SpoolUnused
<1>4. CASE Finish(w)
  <2>1. /\ pc[w] = "sending" /\ pc' = [pc EXCEPT ![w] = "erasing"]
        /\ UNCHANGED <<scheduled, held, spool, tries, mishaps>>
    BY <1>4 DEF Finish, diskVars
  <2>2. Sending' \subseteq Sending /\ Busy' = Busy
    BY <1>1, <2>1 DEF Sending, Busy, TypeOK
  <2>3. QED
    BY <1>1, <1>2, <2>1, <2>2, CountFrame DEF BusyIds, TypeOK, SpoolUnused
<1>5. CASE FinishErase(w)
  <2>1. /\ pc[w] = "erasing" /\ pc' = [pc EXCEPT ![w] = "top"]
        /\ held' = [held EXCEPT ![w] = Idle]
        /\ spool' = IF Persist THEN [spool EXCEPT ![held[w].id] = NoPair] ELSE spool
        /\ UNCHANGED <<scheduled, tries, mishaps>>
    BY <1>5 DEF FinishErase, queueVars, seenVars
  <2>2. /\ Sending' = Sending /\ Busy' = Busy \ {w} /\ w \notin Sending
        /\ Busy \subseteq Workers
        /\ \A v \in Workers \ {w} : held'[v] = held[v]
    BY <1>1, <2>1 DEF Sending, Busy, TypeOK
  <2>3. Sending \subseteq Workers
    BY DEF Sending
  <2>4. NoPair \in Pair /\ NoPair.meta = "absent"
    BY DEF NoPair, Pair
  <2>5. spool' \in [Messages -> Pair]
    BY <1>1, <2>1, <2>4 DEF TypeOK
  <2>6. ASSUME NEW m \in Messages, spool'[m].meta = "full"
        PROVE  /\ spool[m].meta = "full" /\ spool'[m].attempts = spool[m].attempts
               /\ m \in BusyIds => m \in BusyIds'
    <3>1. Persist
      BY <1>1, <2>1, <2>4, <2>6 DEF SpoolUnused
    <3>2. m # held[w].id /\ spool'[m] = spool[m]
      BY <1>1, <2>1, <2>4, <2>6, <3>1 DEF TypeOK
    <3>3. QED
      BY <2>2, <2>6, <3>2 DEF BusyIds
  <2>7. SpoolUnused'
    BY <1>1, <2>1 DEF SpoolUnused
  <2>8. QED
    BY <1>2, <2>1, <2>2, <2>3, <2>5, <2>6, <2>7, CountFrame
<1>6. QED
  BY <1>3, <1>4, <1>5

\* Nor do the operator, the clock and the first steps of a shutdown.
LEMMA CountOperator ==
  ASSUME StructInv, Counted,
         \/ \E m \in Messages : Remove(m) \/ PurgeOne(m) \/ RemoveErase(m)
         \/ StartPurge \/ FlushNow
         \/ Tick \/ BeginShutdown \/ FinishInFlight \/ UNCHANGED vars
  PROVE  Counted'
<1>1. TypeOK /\ SpoolUnused
  BY DEF StructInv, Counted
<1>2. /\ UNCHANGED <<pc, held, tries, mishaps>>
      /\ spool' = spool \/ \E m \in Messages : Persist /\ spool' = [spool EXCEPT ![m] = NoPair]
  BY DEF Remove, PurgeOne, RemoveErase, StartPurge, FlushNow, Tick, BeginShutdown,
       FinishInFlight, vars, queueVars, taskVars, diskVars, seenVars
<1>3. \A e \in scheduled' : \E d \in scheduled : e.id = d.id /\ e.attempts = d.attempts
  <2>1. CASE scheduled' \subseteq scheduled
    BY <2>1
  <2>2. CASE FlushNow
    BY <2>2, FlushKeepsIds
  <2>3. FlushNow \/ scheduled' \subseteq scheduled
    BY DEF Remove, PurgeOne, RemoveErase, StartPurge, Unschedule, Tick, BeginShutdown,
         FinishInFlight, vars, queueVars, taskVars, diskVars, seenVars
  <2>4. QED
    BY <2>1, <2>2, <2>3
<1>4. Sending' = Sending /\ BusyIds' = BusyIds
  BY <1>2 DEF Sending, Busy, BusyIds
<1>5. NoPair \in Pair /\ NoPair.meta = "absent"
  BY DEF NoPair, Pair
<1>6. /\ spool' \in [Messages -> Pair]
      /\ \A m \in Messages : spool'[m].meta = "full" => spool'[m] = spool[m]
  BY <1>1, <1>2, <1>5 DEF TypeOK
<1>7. SpoolUnused'
  BY <1>1, <1>2 DEF SpoolUnused
<1>8. mishaps \in Nat /\ mishaps <= mishaps
  BY <1>1 DEF TypeOK
<1>9. QED
  BY <1>2, <1>3, <1>4, <1>6, <1>7, <1>8, CountFrame

\* An end of the process forgets the attempts in progress, and is a mishap.
LEMMA CountEnd ==
  ASSUME StructInv, Counted, Exit \/ Crash
  PROVE  Counted'
<1>1. /\ mishaps' = mishaps + 1 /\ scheduled' = {} /\ tries' = tries
      /\ pc' = [w \in Workers |-> "stopped"]
  BY DEF Exit, Crash, Die
<1>2. Sending' = {}
  BY <1>1 DEF Sending
<1>3. mishaps \in Nat
  BY DEF StructInv, TypeOK
<1>4. SpoolUnused'
  BY SpoolAfterEnd DEF Counted, SpoolUnused
<1>5. QED
  BY <1>1, <1>2, <1>3, <1>4, SpoolAfterEnd, CountFrame

\* Recovery takes the counts from the spool, where no attempt is in progress.
LEMMA CountRecovery ==
  ASSUME StructInv, Counted, Recovery
  PROVE  Counted'
<1>1. TypeOK /\ IndexesAgree /\ SeqFresh /\ SpoolUnused /\ PhasesSeparate
      /\ AttemptsBounded /\ CountsKept
  BY DEF StructInv, Counted
<1>2. mishaps \in Nat /\ mishaps <= mishaps
  BY <1>1 DEF TypeOK
<1>3. ~Up /\ Busy = {} /\ BusyIds = {} /\ Sending = {}
  <2>1. ~Up
    BY DEF Recovery, Restart, RecoverUnreadable, RecoverDiscard, RecoverLoad, RecoverBreak,
         RecoverDone, Up
  <2>2. QED
    BY <1>1, <2>1 DEF PhasesSeparate, BusyIds, Busy, Sending
<1>4. Sending' = {} /\ Busy' = {} /\ UNCHANGED <<tries, mishaps>>
  <2>1. (pc' = pc \/ pc' = [w \in Workers |-> "top"]) /\ UNCHANGED <<tries, mishaps>>
    BY DEF Recovery, Restart, RecoverUnreadable, RecoverDiscard, RecoverLoad, RecoverBreak,
         RecoverDone, StartTasks, seenVars
  <2>2. QED
    BY <1>3, <2>1 DEF Busy, Sending
<1>5. ASSUME NEW m \in Messages, RecoverLoad(m) PROVE Counted'
  <2>1. Complete(spool[m]) /\ spool' = spool
    BY <1>5 DEF RecoverLoad, diskVars
  <2>2. PICK e \in Entry : /\ e.id = m /\ e.attempts = spool[m].attempts
                           /\ scheduled' = scheduled \cup {e}
    BY <1>5, RecoverLoadEffect
  <2>3. e.attempts < MaxAttempts /\ tries[e.id] <= e.attempts + mishaps
    <3>1. /\ spool[m].attempts < MaxAttempts
          /\ tries[m] <= spool[m].attempts + mishaps + (IF m \in BusyIds THEN 1 ELSE 0)
      BY <1>1, <2>1 DEF CountsKept, BusyIds, Complete
    <3>2. spool[m].attempts \in Nat
      BY <1>1 DEF TypeOK, Pair
    <3>3. QED
      BY <1>2, <1>3, <2>2, <3>1, <3>2
  <2>4. BusyIds' = {}
    BY <1>4 DEF BusyIds
  <2>5. AttemptsBounded'
    BY <1>1, <1>4 DEF AttemptsBounded
  <2>6. \A d \in scheduled' : d.attempts < MaxAttempts /\ tries'[d.id] <= d.attempts + mishaps'
    BY <1>1, <1>4, <2>2, <2>3 DEF CountsKept
  <2>7. CountsKept'
    BY <1>1, <1>3, <1>4, <2>1, <2>4, <2>6 DEF CountsKept, BusyIds
  <2>8. QED
    BY <1>1, <2>1, <2>5, <2>7 DEF Counted, SpoolUnused
<1>6. CASE \/ Restart \/ RecoverDone
           \/ \E m \in Messages : RecoverUnreadable(m) \/ RecoverDiscard(m) \/ RecoverBreak(m)
  <2>1. /\ scheduled' = scheduled
        /\ \/ spool' = spool
           \/ \E m \in Messages : /\ spool' = [spool EXCEPT ![m] = NoPair]
                                  /\ spool[m].meta = "full"
    BY <1>6 DEF Restart, RecoverUnreadable, RecoverDiscard, RecoverBreak, RecoverDone, StartTasks,
         queueVars, diskVars
  <2>2. NoPair \in Pair /\ NoPair.meta = "absent"
    BY DEF NoPair, Pair
  <2>3. /\ spool' \in [Messages -> Pair]
        /\ \A m \in Messages : spool'[m].meta = "full" => spool'[m] = spool[m]
    BY <1>1, <2>1, <2>2 DEF TypeOK
  <2>4. SpoolUnused'
    BY <1>1, <2>1, <2>2 DEF SpoolUnused, TypeOK
  <2>5. BusyIds' = {}
    BY <1>4 DEF BusyIds
  <2>6. QED
    BY <1>2, <1>3, <1>4, <2>1, <2>3, <2>4, <2>5, CountFrame
<1>7. QED
  BY <1>5, <1>6 DEF Recovery

\* Every step keeps the counts.
LEMMA CountNext == ASSUME AttemptsLeft PROVE StructInv /\ Counted /\ [Next]_vars => Counted'
<1> SUFFICES ASSUME StructInv, Counted, [Next]_vars PROVE Counted'
  OBVIOUS
<1>1. CASE \E m \in Messages, a \in SubmitAttempts : Enqueue(m, a) \/ Refuse(m, a)
  BY <1>1, CountEnqueue, CountRefuse
<1>2. ASSUME NEW w \in Workers, WorkerStep(w) PROVE Counted'
  BY <1>2, CountWorker, CountTakeDue, CountRequeue DEF WorkerStep
<1>3. CASE \/ \E m \in Messages : Remove(m) \/ PurgeOne(m) \/ RemoveErase(m)
           \/ StartPurge \/ FlushNow
           \/ Tick \/ BeginShutdown \/ FinishInFlight \/ UNCHANGED vars
  BY <1>3, CountOperator
<1>4. CASE Exit \/ Crash
  BY <1>4, CountEnd
<1>5. CASE Recovery
  BY <1>5, CountRecovery
<1>6. QED
  BY <1>1, <1>2, <1>3, <1>4, <1>5 DEF Next

\* max_attempts bounds the attempts really made over all process lives: only an
\* end of the process or a failed write can add one.
THEOREM AttemptsStayBounded == ASSUME AttemptsLeft PROVE Spec => []AttemptsBounded
<1>1. Counted => AttemptsBounded
  BY DEF Counted
<1>2. QED
  BY <1>1, StructInvariant, CountInit, CountNext, PTL DEF Spec

-----------------------------------------------------------------------------
(* Depth.  What waits and what is being sent is one set of ids, and only an *)
(* enqueue or a recovery with room to spare adds to it.                    *)

Pending == Ids(scheduled) \cup inFlight

\* Each scheduled entry and each busy worker stands for one pending id.
PendingExact ==
  /\ IsFiniteSet(Pending) /\ Cardinality(Pending) \in Nat
  /\ Cardinality(scheduled) \in Nat /\ Cardinality(Workers) \in Nat
  /\ Cardinality(inFlight) \in Nat /\ Cardinality(inFlight) <= Cardinality(Workers)
  /\ Cardinality(scheduled) + Cardinality(inFlight) = Cardinality(Pending)

\* In a structurally sound state the depth and the workers' messages add up to
\* the number of pending ids: no message is counted twice.
LEMMA PendingCount == StructInv => PendingExact
<1> SUFFICES ASSUME StructInv PROVE PendingExact
  OBVIOUS
<1>1. TypeOK /\ IndexesAgree /\ SingleOwner
  BY DEF StructInv
<1>2. IsFiniteSet(scheduled) /\ Cardinality(scheduled) \in Nat
  BY <1>1, ScheduledFinite
<1>3. Cardinality(Ids(scheduled)) = Cardinality(scheduled) /\ IsFiniteSet(Ids(scheduled))
  <2> DEFINE f == [e \in scheduled |-> e.id]
  <2>1. f \in Injection(scheduled, Ids(scheduled))
    BY <1>1 DEF Injection, IsInjective, IndexesAgree, Ids
  <2>2. f \in Surjection(scheduled, Ids(scheduled))
    BY DEF Surjection, Ids
  <2>3. ExistsBijection(scheduled, Ids(scheduled))
    BY <2>1, <2>2 DEF ExistsBijection, Bijection
  <2>4. QED
    BY <1>2, <2>3, FS_Bijection
<1>4. /\ IsFiniteSet(inFlight) /\ Cardinality(inFlight) \in Nat
      /\ Cardinality(Workers) \in Nat /\ Cardinality(inFlight) <= Cardinality(Workers)
  <2> DEFINE g == [m \in inFlight |-> CHOOSE w \in Sending : held[w].id = m]
  <2>1. \A m \in inFlight : g[m] \in Sending /\ held[g[m]].id = m
    BY <1>1 DEF SingleOwner
  <2>2. Sending \subseteq Workers
    BY DEF Sending
  <2> HIDE DEF g
  <2>3. g \in [inFlight -> Workers]
    BY <2>1, <2>2 DEF g
  <2>4. g \in Injection(inFlight, Workers)
    BY <2>1, <2>3 DEF Injection, IsInjective
  <2>5. QED
    BY <2>4, FS_Injection, FS_CardinalityType, ConstantsAssumption
<1>5. Ids(scheduled) \cap inFlight = {}
  BY <1>1 DEF SingleOwner, Sending, Busy
<1>6. /\ IsFiniteSet(Pending)
      /\ Cardinality(Pending) = Cardinality(Ids(scheduled)) + Cardinality(inFlight)
  <2>1. Cardinality(Ids(scheduled) \cap inFlight) = 0
    BY <1>5, FS_EmptySet
  <2>2. /\ IsFiniteSet(Ids(scheduled) \cup inFlight)
        /\ Cardinality(Ids(scheduled) \cup inFlight)
             = Cardinality(Ids(scheduled)) + Cardinality(inFlight)
                 - Cardinality(Ids(scheduled) \cap inFlight)
    BY <1>3, <1>4, FS_Union
  <2>3. Cardinality(Ids(scheduled)) \in Nat /\ Cardinality(inFlight) \in Nat
    BY <1>2, <1>3, <1>4
  <2>4. QED
    BY <2>1, <2>2, <2>3 DEF Pending
<1>7. QED
  BY <1>2, <1>3, <1>4, <1>6 DEF PendingExact

\* The empty queue is within its bound.
LEMMA DepthInit == Init => DepthBounded
<1> SUFFICES ASSUME Init PROVE DepthBounded
  OBVIOUS
<1>1. Cardinality(scheduled) = 0 /\ Cardinality(inFlight) = 0
  BY FS_EmptySet DEF Init
<1>2. Cardinality(Workers) \in Nat /\ Capacity \in Nat
  BY FS_CardinalityType, ConstantsAssumption
<1>3. QED
  BY <1>1, <1>2 DEF DepthBounded

\* A step either adds no pending id, or adds one where there is room for it.
LEMMA PendingGrows ==
  ASSUME StructInv, [Next]_vars
  PROVE  \/ Pending' \subseteq Pending
         \/ /\ Cardinality(scheduled) < Capacity
            /\ \E m \in Messages : Pending' \subseteq Pending \cup {m}
<1>1. TypeOK /\ SingleOwner
  BY DEF StructInv
<1>2. ASSUME NEW m \in Messages, NEW a \in SubmitAttempts, Enqueue(m, a)
      PROVE  /\ Cardinality(scheduled) < Capacity
             /\ Pending' \subseteq Pending \cup {m}
  BY <1>2 DEF Enqueue, Insert, Pending, Ids
<1>3. ASSUME NEW m \in Messages, RecoverLoad(m)
      PROVE  /\ Cardinality(scheduled) < Capacity
             /\ Pending' \subseteq Pending \cup {m}
  BY <1>3 DEF RecoverLoad, Insert, Pending, Ids
<1>4. ASSUME NEW w \in Workers, NEW e \in scheduled, TakeDue(w, e)
      PROVE  Pending' \subseteq Pending
  BY <1>4 DEF TakeDue, Pending, Ids
<1>5. ASSUME NEW w \in Workers, Requeue(w)
      PROVE  Pending' \subseteq Pending
  <2>1. held[w].id \in inFlight
    BY <1>1, <1>5 DEF Requeue, SingleOwner, Sending
  <2>2. QED
    BY <1>5, <2>1 DEF Requeue, Insert, Pending, Ids
<1>6. CASE FlushNow
  BY <1>6, FlushKeepsIds DEF FlushNow, Pending
<1>7. CASE \/ \E m \in Messages, a \in SubmitAttempts : Refuse(m, a)
           \/ \E w \in Workers : LoopTop(w) \/ PollEmpty(w) \/ Finish(w) \/ FinishErase(w)
           \/ \E m \in Messages : Remove(m) \/ PurgeOne(m) \/ RemoveErase(m)
           \/ StartPurge \/ Tick \/ BeginShutdown \/ FinishInFlight \/ Exit \/ Crash
           \/ Restart \/ RecoverDone
           \/ \E m \in Messages : RecoverUnreadable(m) \/ RecoverDiscard(m) \/ RecoverBreak(m)
           \/ UNCHANGED vars
  <2>1. scheduled' \subseteq scheduled /\ inFlight' \subseteq inFlight
    BY <1>7 DEF Refuse, LoopTop, PollEmpty, Finish, FinishErase, Remove, PurgeOne, RemoveErase,
         Unschedule, StartPurge, Tick, BeginShutdown, FinishInFlight, Exit, Crash, Die, Restart,
         RecoverDone, RecoverUnreadable, RecoverDiscard, RecoverBreak, vars, queueVars
  <2>2. QED
    BY <2>1 DEF Pending, Ids
<1>8. QED
  BY <1>2, <1>3, <1>4, <1>5, <1>6, <1>7 DEF Next, WorkerStep, Recovery

\* Every step keeps the queue within its bound.
LEMMA DepthNext == StructInv /\ DepthBounded /\ [Next]_vars => DepthBounded'
<1> SUFFICES ASSUME StructInv, DepthBounded, [Next]_vars PROVE DepthBounded'
  OBVIOUS
<1>1. /\ IsFiniteSet(Pending) /\ Cardinality(Pending) \in Nat
      /\ Cardinality(scheduled) \in Nat /\ Cardinality(Workers) \in Nat
      /\ Cardinality(inFlight) \in Nat /\ Cardinality(inFlight) <= Cardinality(Workers)
      /\ Cardinality(scheduled) + Cardinality(inFlight) = Cardinality(Pending)
  BY PendingCount DEF PendingExact
<1>2. PendingExact'
  BY StructNext, PendingCount, PTL
<1>3. /\ Cardinality(Pending') \in Nat
      /\ Cardinality(scheduled)' + Cardinality(inFlight)' = Cardinality(Pending')
  BY <1>2 DEF PendingExact
<1>4. Capacity \in Nat
  BY ConstantsAssumption
<1>5. CASE Pending' \subseteq Pending
  <2>1. Cardinality(Pending') <= Cardinality(Pending)
    BY <1>1, <1>5, FS_Subset
  <2>2. QED
    BY <1>1, <1>3, <1>4, <2>1 DEF DepthBounded
<1>6. ASSUME Cardinality(scheduled) < Capacity,
             NEW m \in Messages, Pending' \subseteq Pending \cup {m}
      PROVE  DepthBounded'
  <2>1. /\ IsFiniteSet(Pending \cup {m}) /\ Cardinality(Pending \cup {m}) \in Nat
        /\ Cardinality(Pending \cup {m}) <= Cardinality(Pending) + 1
    BY <1>1, FS_AddElement, FS_CardinalityType
  <2>2. Cardinality(Pending') <= Cardinality(Pending \cup {m})
    BY <1>6, <2>1, FS_Subset
  <2>3. QED
    BY <1>1, <1>3, <1>4, <1>6, <2>1, <2>2 DEF DepthBounded
<1>7. QED
  BY <1>5, <1>6, PendingGrows

\* Whatever is retried, flushed, removed or reloaded, the queue never holds more
\* than its capacity and one message for each worker.
THEOREM DepthStaysBounded == Spec => []DepthBounded
BY StructInvariant, DepthInit, DepthNext, PTL DEF Spec
=============================================================================
