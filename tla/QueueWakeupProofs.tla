-------------------------- MODULE QueueWakeupProofs --------------------------
(***************************************************************************)
(* The wait of a worker, for any number of messages and workers, any cap   *)
(* and any retry delays.  Both promises are about relative time: how a     *)
(* worker's timer stands to the due time of the first message, and to the  *)
(* time since a message became due or the process began to stop.           *)
(***************************************************************************)
EXTENDS QueueWakeup, FiniteSetTheorems, SequenceTheorems, TLAPS

Entries == [id : Messages, in : Int]
Places == {"top", "look", "measure", "pause", "asleep", "sending", "requeued", "stopped"}

\* The scheduled map: by due time, each message once.
Ordered(s) == \A i, j \in DOMAIN s : i < j => s[i].in <= s[j].in
Once(s) == \A i, j \in DOMAIN s : i < j => s[i].id # s[j].id
Listed(s) == s \in Seq(Entries) /\ Ordered(s) /\ Once(s)
Holds(s, m) == \E i \in DOMAIN s : s[i].id = m

-----------------------------------------------------------------------------
(* Lines.                                                                  *)

\* What precedes a due time in an ordered line is a prefix of it, and its
\* cardinality is where it ends.
LEMMA PrefixOfEarlier ==
  ASSUME NEW s \in Seq(Entries), Ordered(s), NEW d \in Int
  PROVE  LET k == Cardinality({i \in DOMAIN s : s[i].in <= d})
         IN  k \in 0 .. Len(s) /\ \A i \in DOMAIN s : s[i].in <= d <=> i <= k
<1> DEFINE S == {i \in DOMAIN s : s[i].in <= d}
           k == Cardinality(S)
<1>1. DOMAIN s = 1 .. Len(s) /\ Len(s) \in Nat /\ s \in [1 .. Len(s) -> Entries]
  BY LenProperties
<1>2. \A i \in DOMAIN s : s[i].in \in Int
  BY <1>1 DEF Entries
<1>3. S \subseteq 1 .. Len(s)
  BY <1>1
<1>4. IsFiniteSet(S) /\ k \in Nat /\ k <= Len(s)
  <2>1. IsFiniteSet(1 .. Len(s)) /\ Cardinality(1 .. Len(s)) = Len(s)
    BY <1>1, FS_Interval
  <2>2. IsFiniteSet(S) /\ k <= Len(s)
    BY <1>3, <2>1, FS_Subset
  <2> QED
    BY <2>2, FS_CardinalityType
<1>5. ASSUME NEW i \in DOMAIN s, i \in S
      PROVE  i <= k
  <2>1. 1 .. i \subseteq S
    BY <1>1, <1>2, <1>5 DEF Ordered
  <2>2. i \in Nat /\ Cardinality(1 .. i) = i
    BY <1>1, FS_Interval
  <2> QED
    BY <1>4, <2>1, <2>2, FS_Subset
<1>6. ASSUME NEW i \in DOMAIN s, i \notin S
      PROVE  k < i
  <2>1. S \subseteq 1 .. (i - 1)
    BY <1>1, <1>2, <1>6 DEF Ordered
  <2>2. IsFiniteSet(1 .. (i - 1)) /\ Cardinality(1 .. (i - 1)) = i - 1
    <3>1. i - 1 \in Nat /\ 1 \in Int /\ i - 1 \in Int
      BY <1>1
    <3>2. IsFiniteSet(1 .. (i - 1)) /\ Cardinality(1 .. (i - 1)) = IF 1 > i - 1 THEN 0 ELSE (i - 1) - 1 + 1
      BY <3>1, FS_Interval
    <3> QED
      BY <3>1, <3>2
  <2>3. k <= i - 1
    BY <2>1, <2>2, FS_Subset
  <2> QED
    BY <1>1, <1>4, <2>3
<1>7. \A i \in DOMAIN s : s[i].in <= d <=> i \in S
  OBVIOUS
<1> HIDE DEF S
<1>8. \A i \in DOMAIN s : s[i].in <= d <=> i <= k
  BY <1>1, <1>4, <1>5, <1>6, <1>7
<1> QED
  BY <1>4, <1>8, <1>1 DEF S

\* Inserted after all that are due no later, a message splits the line in two.
LEMMA InsertSplits ==
  ASSUME NEW s \in Seq(Entries), NEW k \in 0 .. Len(s), NEW e \in Entries
  PROVE  LET t == Seqs!InsertAt(s, k + 1, e)
         IN  /\ t \in Seq(Entries) /\ Len(t) = Len(s) + 1
             /\ \A i \in 1 .. Len(t) :
                  t[i] = IF i <= k THEN s[i] ELSE IF i = k + 1 THEN e ELSE s[i - 1]
<1> DEFINE a == SubSeq(s, 1, k)
           b == SubSeq(s, k + 1, Len(s))
           t == Seqs!InsertAt(s, k + 1, e)
<1>1. Len(s) \in Nat /\ s \in [1 .. Len(s) -> Entries] /\ k \in Nat
  BY LenProperties
<1>2. t = (a \o <<e>>) \o b
  <2>1. (k + 1) - 1 = k
    BY <1>1
  <2> QED
    BY <2>1, Zenon DEF Seqs!InsertAt
<1>3. a \in Seq(Entries) /\ Len(a) = k /\ \A i \in 1 .. k : a[i] = s[i]
  <2>1. \A i \in 1 .. k : s[i] \in Entries
    BY <1>1
  <2> QED
    BY <1>1, <2>1, SubSeqProperties
<1>4. b \in Seq(Entries) /\ Len(b) = Len(s) - k /\ \A i \in 1 .. (Len(s) - k) : b[i] = s[k + i]
  <2>1. \A i \in (k + 1) .. Len(s) : s[i] \in Entries
    BY <1>1
  <2>2. k + 1 \in Int /\ Len(s) \in Int
    BY <1>1
  <2>3. /\ b \in Seq(Entries)
        /\ Len(b) = IF k + 1 <= Len(s) THEN Len(s) - (k + 1) + 1 ELSE 0
        /\ \A i \in 1 .. (Len(s) - (k + 1) + 1) : b[i] = s[(k + 1) + i - 1]
    BY <2>1, <2>2, SubSeqProperties
  <2> QED
    BY <1>1, <2>3
<1> HIDE DEF a, b
<1> HIDE DEF t
<1>5. <<e>> \in Seq(Entries) /\ Len(<<e>>) = 1 /\ <<e>>[1] = e
  OBVIOUS
<1>6. /\ a \o <<e>> \in Seq(Entries) /\ Len(a \o <<e>>) = k + 1
      /\ \A i \in 1 .. (k + 1) : (a \o <<e>>)[i] = IF i <= k THEN s[i] ELSE e
  BY <1>1, <1>3, <1>5, ConcatProperties
<1>7. /\ t \in Seq(Entries) /\ Len(t) = (k + 1) + (Len(s) - k)
      /\ \A i \in 1 .. ((k + 1) + (Len(s) - k)) :
           t[i] = IF i <= k + 1 THEN (a \o <<e>>)[i] ELSE b[i - (k + 1)]
  <2> DEFINE c == a \o <<e>>
  <2>1. c \in Seq(Entries) /\ Len(c) = k + 1 /\ t = c \o b
    BY <1>2, <1>6
  <2> HIDE DEF c
  <2>2. /\ c \o b \in Seq(Entries) /\ Len(c \o b) = Len(c) + Len(b)
        /\ \A i \in 1 .. Len(c) + Len(b) : (c \o b)[i] = IF i <= Len(c) THEN c[i] ELSE b[i - Len(c)]
    BY <1>4, <2>1, ConcatProperties
  <2>3. /\ t \in Seq(Entries) /\ Len(t) = (k + 1) + (Len(s) - k)
        /\ \A i \in 1 .. ((k + 1) + (Len(s) - k)) : t[i] = IF i <= k + 1 THEN c[i] ELSE b[i - (k + 1)]
    BY <1>4, <2>1, <2>2
  <2> QED
    BY <2>3 DEF c
<1>8. Len(t) = Len(s) + 1
  BY <1>1, <1>7
<1>9. ASSUME NEW i \in 1 .. Len(t)
      PROVE  t[i] = IF i <= k THEN s[i] ELSE IF i = k + 1 THEN e ELSE s[i - 1]
  <2>1. CASE i <= k + 1
    BY <1>1, <1>6, <1>7, <1>8, <2>1
  <2>2. CASE i > k + 1
    <3>1. i - (k + 1) \in 1 .. (Len(s) - k) /\ k + (i - (k + 1)) = i - 1
      BY <1>1, <1>8, <2>2
    <3>2. t[i] = b[i - (k + 1)]
      BY <1>1, <1>7, <1>8, <2>2
    <3> QED
      BY <1>1, <1>4, <2>2, <3>1, <3>2
  <2> QED
    BY <1>1, <1>8, <2>1, <2>2
<1> QED
  BY <1>7, <1>8, <1>9 DEF t

\* The map's insertion: the line stays listed and gains that message.
LEMMA WithListed ==
  ASSUME Listed(line), NEW m \in Messages, ~Holds(line, m), NEW d \in Int
  PROVE  /\ Listed(With(m, d))
         /\ \A i \in DOMAIN With(m, d) : \/ With(m, d)[i] = [id |-> m, in |-> d]
                                         \/ \E j \in DOMAIN line : With(m, d)[i] = line[j]
<1> DEFINE k == Cardinality({i \in DOMAIN line : line[i].in <= d})
           e == [id |-> m, in |-> d]
           t == With(m, d)
<1>1. DOMAIN line = 1 .. Len(line) /\ Len(line) \in Nat /\ line \in [1 .. Len(line) -> Entries]
  BY LenProperties DEF Listed
<1>2. k \in 0 .. Len(line) /\ \A i \in DOMAIN line : line[i].in <= d <=> i <= k
  BY PrefixOfEarlier DEF Listed
<1>3. t = Seqs!InsertAt(line, k + 1, e) /\ e \in Entries
  BY DEF With, Entries
<1> HIDE DEF k, e, t
<1>4. /\ t \in Seq(Entries) /\ Len(t) = Len(line) + 1
      /\ \A i \in 1 .. Len(t) :
           t[i] = IF i <= k THEN line[i] ELSE IF i = k + 1 THEN e ELSE line[i - 1]
  <2>1. line \in Seq(Entries)
    BY DEF Listed
  <2>2. k \in 0 .. Len(line) /\ e \in Entries
    BY <1>2, <1>3
  <2>3. LET u == Seqs!InsertAt(line, k + 1, e)
        IN  /\ u \in Seq(Entries) /\ Len(u) = Len(line) + 1
            /\ \A i \in 1 .. Len(u) :
                 u[i] = IF i <= k THEN line[i] ELSE IF i = k + 1 THEN e ELSE line[i - 1]
    BY <2>1, <2>2, InsertSplits
  <2> QED
    BY <1>3, <2>3
<1>5. DOMAIN t = 1 .. Len(t)
  BY <1>4, LenProperties
<1>6. \A i \in DOMAIN t : t[i] = e \/ \E j \in DOMAIN line : t[i] = line[j]
  BY <1>1, <1>2, <1>4, <1>5
<1>7. \A i \in DOMAIN line : line[i].in \in Int /\ line[i].id # m
  BY <1>1 DEF Entries, Holds
<1>8. e.in = d /\ e.id = m
  BY DEF e
<1>9. ASSUME NEW i \in DOMAIN t, NEW j \in DOMAIN t, i < j
      PROVE  t[i].in <= t[j].in /\ t[i].id # t[j].id
  <2>1. i \in 1 .. (Len(line) + 1) /\ j \in 1 .. (Len(line) + 1) /\ k \in Nat /\ k <= Len(line)
    BY <1>1, <1>2, <1>4, <1>5
  <2>2. CASE j <= k
    BY <1>1, <1>4, <1>9, <2>1, <2>2 DEF Listed, Ordered, Once
  <2>3. CASE j = k + 1
    BY <1>1, <1>2, <1>4, <1>7, <1>8, <1>9, <2>1, <2>3
  <2>4. CASE j > k + 1 /\ i <= k
    <3>1. i \in DOMAIN line /\ j - 1 \in DOMAIN line /\ i < j - 1
      BY <1>1, <2>1, <2>4
    <3>2. t[i] = line[i] /\ t[j] = line[j - 1]
      BY <1>4, <2>1, <2>4
    <3> QED
      BY <3>1, <3>2 DEF Listed, Ordered, Once
  <2>5. CASE j > k + 1 /\ i = k + 1
    <3>1. j - 1 \in DOMAIN line /\ ~(j - 1 <= k)
      BY <1>1, <2>1, <2>5
    <3>2. t[i] = e /\ t[j] = line[j - 1]
      BY <1>4, <2>1, <2>5
    <3> QED
      BY <1>2, <1>7, <1>8, <3>1, <3>2
  <2>6. CASE i > k + 1
    <3>1. i - 1 \in DOMAIN line /\ j - 1 \in DOMAIN line /\ i - 1 < j - 1
      BY <1>1, <1>9, <2>1, <2>6
    <3>2. t[i] = line[i - 1] /\ t[j] = line[j - 1]
      BY <1>4, <1>9, <2>1, <2>6
    <3> QED
      BY <3>1, <3>2 DEF Listed, Ordered, Once
  <2> QED
    BY <1>9, <2>1, <2>2, <2>3, <2>4, <2>5, <2>6
<1>10. Ordered(t) /\ Once(t)
  BY <1>9 DEF Ordered, Once
<1> QED
  BY <1>4, <1>6, <1>10 DEF Listed, t, e

\* A line without one of its messages is listed, and its first is due no earlier.
LEMMA RemovedListed ==
  ASSUME NEW s, Listed(s), NEW k \in DOMAIN s, NEW t, t = Seqs!RemoveAt(s, k)
  PROVE  /\ Listed(t)
         /\ \A i \in DOMAIN t : \E j \in DOMAIN s : t[i] = s[j]
         /\ t # <<>> => s # <<>> /\ s[1].in <= t[1].in
<1> DEFINE a == SubSeq(s, 1, k - 1)
           b == SubSeq(s, k + 1, Len(s))
<1>1. DOMAIN s = 1 .. Len(s) /\ Len(s) \in Nat /\ s \in [1 .. Len(s) -> Entries]
  BY LenProperties DEF Listed
<1>2. t = a \o b
  BY DEF Seqs!RemoveAt
<1>3. a \in Seq(Entries) /\ Len(a) = k - 1 /\ \A i \in 1 .. (k - 1) : a[i] = s[i]
  <2>1. \A i \in 1 .. (k - 1) : s[i] \in Entries
    BY <1>1
  <2>2. 1 \in Int /\ k - 1 \in Int
    BY <1>1
  <2>3. /\ a \in Seq(Entries) /\ Len(a) = IF 1 <= k - 1 THEN (k - 1) - 1 + 1 ELSE 0
        /\ \A i \in 1 .. ((k - 1) - 1 + 1) : a[i] = s[1 + i - 1]
    BY <2>1, <2>2, SubSeqProperties
  <2> QED
    BY <1>1, <2>3
<1>4. b \in Seq(Entries) /\ Len(b) = Len(s) - k /\ \A i \in 1 .. (Len(s) - k) : b[i] = s[k + i]
  <2>1. \A i \in (k + 1) .. Len(s) : s[i] \in Entries
    BY <1>1
  <2>2. k + 1 \in Int /\ Len(s) \in Int
    BY <1>1
  <2>3. /\ b \in Seq(Entries)
        /\ Len(b) = IF k + 1 <= Len(s) THEN Len(s) - (k + 1) + 1 ELSE 0
        /\ \A i \in 1 .. (Len(s) - (k + 1) + 1) : b[i] = s[(k + 1) + i - 1]
    BY <2>1, <2>2, SubSeqProperties
  <2> QED
    BY <1>1, <2>3
<1> HIDE DEF a, b
<1>5. /\ t \in Seq(Entries) /\ Len(t) = (k - 1) + (Len(s) - k)
      /\ \A i \in 1 .. ((k - 1) + (Len(s) - k)) : t[i] = IF i <= k - 1 THEN a[i] ELSE b[i - (k - 1)]
  BY <1>2, <1>3, <1>4, ConcatProperties
<1>6. Len(t) = Len(s) - 1 /\ DOMAIN t = 1 .. (Len(s) - 1)
  BY <1>1, <1>5, LenProperties
<1>7. ASSUME NEW i \in DOMAIN t
      PROVE  t[i] = IF i < k THEN s[i] ELSE s[i + 1]
  <2>1. CASE i < k
    BY <1>1, <1>3, <1>5, <1>6, <2>1
  <2>2. CASE i >= k
    <3>1. i - (k - 1) \in 1 .. (Len(s) - k) /\ k + (i - (k - 1)) = i + 1
      BY <1>1, <1>6, <2>2
    <3>2. t[i] = b[i - (k - 1)]
      BY <1>1, <1>5, <1>6, <2>2
    <3>3. b[i - (k - 1)] = s[k + (i - (k - 1))]
      BY <1>4, <3>1
    <3> QED
      BY <1>1, <1>6, <2>2, <3>1, <3>2, <3>3
  <2> QED
    BY <1>1, <1>6, <2>1, <2>2
<1>8. \A i \in DOMAIN s : s[i].in \in Int
  BY <1>1 DEF Entries
<1>9. Ordered(t) /\ Once(t)
  <2>1. \A i \in DOMAIN t : \E p \in DOMAIN s : t[i] = s[p] /\ p = IF i < k THEN i ELSE i + 1
    BY <1>1, <1>6, <1>7
  <2>2. ASSUME NEW i \in DOMAIN t, NEW j \in DOMAIN t, i < j
        PROVE  t[i].in <= t[j].in /\ t[i].id # t[j].id
    <3>1. PICK p \in DOMAIN s : t[i] = s[p] /\ p = IF i < k THEN i ELSE i + 1
      BY <2>1
    <3>2. PICK q \in DOMAIN s : t[j] = s[q] /\ q = IF j < k THEN j ELSE j + 1
      BY <2>1
    <3>3. p < q
      BY <1>1, <1>6, <2>2, <3>1, <3>2
    <3> QED
      BY <3>1, <3>2, <3>3 DEF Listed, Ordered, Once
  <2> QED
    BY <2>2 DEF Ordered, Once
<1>10. \A i \in DOMAIN t : \E j \in DOMAIN s : t[i] = s[j]
  BY <1>1, <1>6, <1>7
<1>11. t # <<>> => 1 \in DOMAIN t
  BY <1>5, <1>6, EmptySeq
<1>12. t # <<>> => s # <<>> /\ s[1].in <= t[1].in
  BY <1>1, <1>6, <1>7, <1>8, <1>11 DEF Listed, Ordered
<1> QED
  BY <1>5, <1>9, <1>10, <1>12 DEF Listed

\* The line after its first message has been taken.
LEMMA TailListed ==
  ASSUME NEW s, Listed(s), s # <<>>
  PROVE  /\ Listed(Tail(s)) /\ 1 \in DOMAIN s /\ s[1].id \in Messages
         /\ \A i \in DOMAIN Tail(s) : \E j \in DOMAIN s : Tail(s)[i] = s[j] /\ s[j].id # s[1].id
<1>1. DOMAIN s = 1 .. Len(s) /\ Len(s) \in Nat \ {0} /\ s \in [1 .. Len(s) -> Entries]
  BY LenProperties, EmptySeq DEF Listed
<1>2. /\ Tail(s) \in Seq(Entries) /\ Len(Tail(s)) = Len(s) - 1
      /\ \A i \in 1 .. Len(Tail(s)) : Tail(s)[i] = s[i + 1]
  BY HeadTailProperties DEF Listed
<1>3. DOMAIN Tail(s) = 1 .. (Len(s) - 1)
  BY <1>2, LenProperties
<1>4. Ordered(Tail(s)) /\ Once(Tail(s))
  BY <1>1, <1>2, <1>3 DEF Listed, Ordered, Once
<1>5. 1 \in DOMAIN s /\ s[1].id \in Messages
  BY <1>1 DEF Entries
<1>6. \A i \in DOMAIN Tail(s) : i + 1 \in DOMAIN s /\ Tail(s)[i] = s[i + 1] /\ s[i + 1].id # s[1].id
  BY <1>1, <1>2, <1>3 DEF Listed, Once
<1> QED
  BY <1>2, <1>4, <1>5, <1>6 DEF Listed

\* A line whose due times are moved by a monotone map stays listed.
LEMMA MovedListed ==
  ASSUME NEW s, Listed(s), NEW t, DOMAIN t = DOMAIN s,
         t = [i \in DOMAIN s |-> [id |-> s[i].id, in |-> t[i].in]],
         \A i \in DOMAIN s : t[i].in \in Int,
         \A i, j \in DOMAIN s : s[i].in <= s[j].in => t[i].in <= t[j].in
  PROVE  Listed(t) /\ (t # <<>> => s # <<>>)
<1>1. DOMAIN s = 1 .. Len(s) /\ Len(s) \in Nat /\ s \in [1 .. Len(s) -> Entries]
  BY LenProperties DEF Listed
<1>2. t \in [1 .. Len(s) -> Entries]
  <2>1. \A i \in 1 .. Len(s) : t[i] = [id |-> s[i].id, in |-> t[i].in] /\ s[i].id \in Messages
    BY <1>1 DEF Entries
  <2>2. \A i \in 1 .. Len(s) : t[i] \in Entries
    BY <1>1, <2>1 DEF Entries
  <2> QED
    BY <1>1, <2>2
<1>3. t \in Seq(Entries)
  BY <1>1, <1>2, SeqDef
<1>4. \A i \in DOMAIN s : t[i].id = s[i].id
  OBVIOUS
<1>5. Ordered(t) /\ Once(t)
  BY <1>4 DEF Listed, Ordered, Once
<1>6. t # <<>> => s # <<>>
  BY <1>1, <1>3, LenProperties, EmptySeq
<1> QED
  BY <1>3, <1>5, <1>6 DEF Listed

-----------------------------------------------------------------------------
(* Types, and whose a message is.                                          *)

\* A worker sends a message that is not in the line, and no two send the same.
Jobs ==
  \A w \in Workers :
    /\ pc[w] = "sending" => job[w] \in Messages /\ ~Holds(line, job[w])
    /\ pc[w] # "sending" => job[w] = None
    /\ \A v \in Workers : pc[v] = "sending" /\ pc[w] = "sending" /\ v # w => job[v] # job[w]

Types ==
  /\ Listed(line)
  /\ pc \in [Workers -> Places] /\ timer \in [Workers -> Nat] /\ job \in [Workers -> Messages \cup {None}]
  /\ permit \in BOOLEAN /\ woken \in [Workers -> {None, "one", "all"}]
  /\ posting \subseteq Messages /\ flushing \in BOOLEAN /\ stopping \in BOOLEAN /\ since \in Nat

LEMMA TypesAreTypeOK == Types <=> TypeOK
BY DEF Types, TypeOK, Listed, Ordered, Once, Entries, Places

LEMMA EmptyAndOneListed ==
  ASSUME NEW m \in Messages, NEW d \in Int
  PROVE  Listed(<<>>) /\ Listed(<<[id |-> m, in |-> d]>>)
<1>1. [id |-> m, in |-> d] \in Entries
  BY DEF Entries
<1>2. <<>> \in Seq(Entries) /\ <<[id |-> m, in |-> d]>> \in Seq(Entries)
  BY <1>1
<1>3. DOMAIN <<>> = {} /\ DOMAIN <<[id |-> m, in |-> d]>> = 1 .. 1
  OBVIOUS
<1> QED
  BY <1>2, <1>3 DEF Listed, Ordered, Once

LEMMA InitTypes == Init => Types /\ Jobs
<1> SUFFICES ASSUME Init PROVE Types /\ Jobs
  OBVIOUS
<1> USE WakeupAssumption
<1>1. Listed(line) /\ permit \in BOOLEAN
  <2>1. PICK found \in BOOLEAN, m \in Messages, d \in Delays \cup {0} :
          /\ line = IF found THEN <<[id |-> m, in |-> d]>> ELSE <<>>
          /\ permit = found
    BY DEF Init
  <2>2. d \in Int
    BY DEF WakeupAssumption
  <2> QED
    BY <2>1, <2>2, EmptyAndOneListed
<1>2. /\ pc \in [Workers -> Places] /\ timer \in [Workers -> Nat]
      /\ job \in [Workers -> Messages \cup {None}] /\ woken \in [Workers -> {None, "one", "all"}]
  BY DEF Init, Places
<1>3. Jobs
  BY DEF Init, Jobs
<1> QED
  BY <1>1, <1>2, <1>3 DEF Init, Types

\* Notify keeps its types, whoever is chosen.
LEMMA NotifyTypes ==
  ASSUME Types, NEW sent, sent \in [Workers -> {None, "one", "all"}], NotifyOne(sent)
  PROVE  permit' \in BOOLEAN /\ woken' \in [Workers -> {None, "one", "all"}]
BY DEF Types, NotifyOne, Unnotified

LEMMA NotifyWaitersType ==
  ASSUME Types
  PROVE  NotifyWaiters \in [Workers -> {None, "one", "all"}]
BY DEF Types, NotifyWaiters

LEMMA EntryOfListed ==
  ASSUME NEW s, Listed(s), NEW i \in DOMAIN s
  PROVE  s[i].in \in Int /\ s[i].id \in Messages /\ s[i] = [id |-> s[i].id, in |-> s[i].in]
<1>1. s[i] \in Entries
  BY LenProperties DEF Listed
<1> QED
  BY <1>1 DEF Entries

\* What every action does to the line.
LEMMA LineStep ==
  ASSUME Types, Jobs, [Next]_vars
  PROVE  Listed(line')
<1> USE WakeupAssumption
<1>1. ASSUME NEW m \in Messages, NEW d \in Delays \cup {0}, Enqueue(m, d)
      PROVE  Listed(line')
  <2>1. ~Holds(line, m) /\ d \in Int /\ line' = With(m, d)
    BY <1>1 DEF Enqueue, Waiting, Holds, WakeupAssumption
  <2> QED
    BY <2>1, WithListed DEF Types
<1>2. ASSUME NEW m \in Messages, Remove(m)
      PROVE  Listed(line')
  BY <1>2, RemovedListed DEF Remove, Types
<1>3. CASE FlushNow
  <2>1. \A i \in DOMAIN line : line[i].in \in Int /\ line[i] = [id |-> line[i].id, in |-> line[i].in]
    BY EntryOfListed DEF Types
  <2>2. line' = [i \in DOMAIN line |-> [line[i] EXCEPT !.in = Lesser(@, 0)]]
    BY <1>3 DEF FlushNow
  <2>3. DOMAIN line' = DOMAIN line
    BY <2>2
  <2>4. \A i \in DOMAIN line : line'[i] = [id |-> line[i].id, in |-> Lesser(line[i].in, 0)]
    BY <2>1, <2>2
  <2>5. line' = [i \in DOMAIN line |-> [id |-> line[i].id, in |-> line'[i].in]]
    BY <2>2, <2>4
  <2>6. /\ \A i \in DOMAIN line : line'[i].in \in Int
        /\ \A i, j \in DOMAIN line : line[i].in <= line[j].in => line'[i].in <= line'[j].in
    <3>1. ASSUME NEW i \in DOMAIN line
          PROVE  line'[i].in = Lesser(line[i].in, 0)
      <4> DEFINE d == Lesser(line[i].in, 0)
      <4>1. line'[i] = [id |-> line[i].id, in |-> d]
        BY <2>4
      <4> HIDE DEF d
      <4>2. line'[i].in = d
        BY <4>1
      <4> QED
        BY <4>2 DEF d
    <3> QED
      BY <2>1, <3>1 DEF Lesser
  <2> QED
    BY <2>3, <2>5, <2>6, MovedListed DEF Types
<1>4. CASE Tick
  <2>1. \A i \in DOMAIN line : line[i].in \in Int /\ line[i] = [id |-> line[i].id, in |-> line[i].in]
    BY EntryOfListed DEF Types
  <2>2. line' = [i \in DOMAIN line |-> [line[i] EXCEPT !.in = Greater(@ - 1, Late)]]
    BY <1>4 DEF Tick
  <2>3. DOMAIN line' = DOMAIN line
    BY <2>2
  <2>4. \A i \in DOMAIN line : line'[i] = [id |-> line[i].id, in |-> Greater(line[i].in - 1, Late)]
    BY <2>1, <2>2
  <2>5. line' = [i \in DOMAIN line |-> [id |-> line[i].id, in |-> line'[i].in]]
    BY <2>2, <2>4
  <2>6. Late \in Int
    BY DEF Late, WakeupAssumption
  <2>7. /\ \A i \in DOMAIN line : line'[i].in \in Int
        /\ \A i, j \in DOMAIN line : line[i].in <= line[j].in => line'[i].in <= line'[j].in
    <3>1. ASSUME NEW i \in DOMAIN line
          PROVE  line'[i].in = Greater(line[i].in - 1, Late)
      <4> DEFINE d == Greater(line[i].in - 1, Late)
      <4>1. line'[i] = [id |-> line[i].id, in |-> d]
        BY <2>4
      <4> HIDE DEF d
      <4>2. line'[i].in = d
        BY <4>1
      <4> QED
        BY <4>2 DEF d
    <3> QED
      BY <2>1, <3>1, <2>6 DEF Greater
  <2> QED
    BY <2>3, <2>5, <2>7, MovedListed DEF Types
<1>5. ASSUME NEW w \in Workers, TakeDue(w)
      PROVE  Listed(line')
  BY <1>5, TailListed DEF TakeDue, Due, Types
<1>6. ASSUME NEW w \in Workers, NEW d \in Delays, Requeue(w, d)
      PROVE  Listed(line')
  <2>1. job[w] \in Messages /\ ~Holds(line, job[w]) /\ d \in Int /\ line' = With(job[w], d)
    BY <1>6 DEF Requeue, Jobs, WakeupAssumption
  <2> QED
    BY <2>1, WithListed DEF Types
<1>7. CASE line' = line
  BY <1>7 DEF Types
<1>8. \/ \E m \in Messages : (\E d \in Delays \cup {0} : Enqueue(m, d)) \/ Remove(m)
      \/ FlushNow \/ Tick
      \/ \E w \in Workers : TakeDue(w) \/ \E d \in Delays : Requeue(w, d)
      \/ line' = line
  BY DEF Next, Step, vars, Announce, AnnounceFlush, LoopTop, NothingDue, Measure, Sleep, Wake, Finish,
         AnnounceRetry, Shutdown
<1> QED
  BY <1>1, <1>2, <1>3, <1>4, <1>5, <1>6, <1>7, <1>8

LEMMA TypesStep ==
  ASSUME Types, Jobs, [Next]_vars
  PROVE  Types'
<1> USE WakeupAssumption
<1>1. Listed(line')
  BY LineStep
<1>2. ASSUME NEW m \in Messages, NEW d \in Delays \cup {0}, Enqueue(m, d) \/ Remove(m)
      PROVE  Types'
  BY <1>1, <1>2 DEF Types, Enqueue, Remove, notifyVars
<1>3. ASSUME NEW m \in Messages, Announce(m)
      PROVE  Types'
  <2>1. permit' \in BOOLEAN /\ woken' \in [Workers -> {None, "one", "all"}]
    BY <1>3, NotifyTypes DEF Announce, Types
  <2> QED
    BY <1>1, <1>3, <2>1 DEF Types, Announce
<1>4. CASE FlushNow
  BY <1>1, <1>4 DEF Types, FlushNow, notifyVars
<1>5. CASE AnnounceFlush
  <2>1. permit' \in BOOLEAN /\ woken' \in [Workers -> {None, "one", "all"}]
    BY <1>5, NotifyTypes, NotifyWaitersType DEF AnnounceFlush
  <2> QED
    BY <1>1, <1>5, <2>1 DEF Types, AnnounceFlush
<1>6. ASSUME NEW w \in Workers, LoopTop(w) \/ NothingDue(w) \/ Finish(w)
      PROVE  Types'
  BY <1>1, <1>6 DEF Types, LoopTop, NothingDue, Finish, Goes, notifyVars, Places
<1>7. ASSUME NEW w \in Workers, TakeDue(w)
      PROVE  Types'
  <2>1. line[1].id \in Messages
    BY <1>7, TailListed DEF TakeDue, Due, Types
  <2> QED
    BY <1>1, <1>7, <2>1 DEF Types, TakeDue, Goes, notifyVars, Places
<1>8. ASSUME NEW w \in Workers, Measure(w)
      PROVE  Types'
  <2> DEFINE delay == IF line = <<>> THEN MaxIdle ELSE Lesser(Greater(line[1].in, 0), MaxIdle)
  <2>1. line # <<>> => line[1].in \in Int
    BY TailListed, EntryOfListed DEF Types
  <2>2. delay \in Nat
    BY <2>1 DEF Lesser, Greater, WakeupAssumption
  <2>3. /\ pc' = [pc EXCEPT ![w] = IF delay = 0 THEN "top" ELSE "pause"]
        /\ timer' = [timer EXCEPT ![w] = delay]
        /\ UNCHANGED <<line, job, notifyVars, posting, flushing, stopping, since>>
    BY <1>8 DEF Measure, Goes
  <2> HIDE DEF delay
  <2> QED
    BY <1>1, <2>2, <2>3 DEF Types, notifyVars, Places
<1>9. ASSUME NEW w \in Workers, Sleep(w)
      PROVE  Types'
  <2>1. /\ permit' = FALSE
        /\ \/ pc' = [pc EXCEPT ![w] = "top"] /\ timer' = [timer EXCEPT ![w] = 0]
           \/ pc' = [pc EXCEPT ![w] = "asleep"] /\ timer' = timer
        /\ UNCHANGED <<line, job, woken, posting, flushing, stopping, since>>
    BY <1>9 DEF Sleep, Goes
  <2>2. pc' \in [Workers -> Places] /\ timer' \in [Workers -> Nat]
    BY <2>1 DEF Types, Places
  <2>3. permit' \in BOOLEAN
    BY <2>1
  <2> QED
    BY <1>1, <2>1, <2>2, <2>3 DEF Types
<1>10. ASSUME NEW w \in Workers, Wake(w)
       PROVE  Types'
  <2>1. permit' \in BOOLEAN /\ woken' \in [Workers -> {None, "one", "all"}]
    BY <1>10 DEF Types, Wake, Unnotified
  <2> QED
    BY <1>1, <1>10, <2>1 DEF Types, Wake, Goes, Places
<1>11. ASSUME NEW w \in Workers, NEW d \in Delays, Requeue(w, d)
       PROVE  Types'
  BY <1>1, <1>11 DEF Types, Requeue, Goes, notifyVars, Places
<1>12. ASSUME NEW w \in Workers, AnnounceRetry(w)
       PROVE  Types'
  <2>1. permit' \in BOOLEAN /\ woken' \in [Workers -> {None, "one", "all"}]
    BY <1>12, NotifyTypes DEF AnnounceRetry, Types
  <2> QED
    BY <1>1, <1>12, <2>1 DEF Types, AnnounceRetry, Goes, Places
<1>13. CASE Shutdown
  BY <1>1, <1>13 DEF Types, Shutdown, notifyVars
<1>14. CASE Tick
  <2>1. timer' \in [Workers -> Nat]
    BY <1>14 DEF Types, Tick, Asleep
  <2>2. since' \in Nat
    BY <1>14 DEF Types, Tick, Lesser, WakeupAssumption
  <2> QED
    BY <1>1, <1>14, <2>1, <2>2 DEF Types, Tick, notifyVars
<1>15. CASE UNCHANGED vars
  BY <1>1, <1>15 DEF Types, vars, notifyVars
<1>16. \/ \E m \in Messages :
            (\E d \in Delays \cup {0} : Enqueue(m, d) \/ Remove(m)) \/ Announce(m)
       \/ FlushNow \/ AnnounceFlush \/ Shutdown \/ Tick
       \/ \E w \in Workers : \/ LoopTop(w) \/ NothingDue(w) \/ Finish(w) \/ TakeDue(w) \/ Measure(w)
                             \/ Sleep(w) \/ Wake(w) \/ (\E d \in Delays : Requeue(w, d)) \/ AnnounceRetry(w)
       \/ UNCHANGED vars
  BY Zenon DEF Next, Step
<1> QED
  BY <1>2, <1>3, <1>4, <1>5, <1>6, <1>7, <1>8, <1>9, <1>10, <1>11, <1>12, <1>13, <1>14, <1>15, <1>16

\* A message enters the line anew, or is taken off it, or returned by its worker.
LEMMA JobsStep ==
  ASSUME Types, Jobs, [Next]_vars
  PROVE  Jobs'
<1> USE WakeupAssumption
<1>1. ASSUME NEW m \in Messages, NEW d \in Delays \cup {0}, Enqueue(m, d)
      PROVE  Jobs'
  <2>1. ~Holds(line, m) /\ d \in Int /\ line' = With(m, d)
    BY <1>1 DEF Enqueue, Waiting, Holds, WakeupAssumption
  <2>2. \A n : Holds(line', n) => n = m \/ Holds(line, n)
    BY <2>1, WithListed DEF Types, Holds
  <2>3. \A w \in Workers : job[w] # m
    BY <1>1 DEF Enqueue, Sent
  <2> QED
    BY <1>1, <2>2, <2>3 DEF Jobs, Enqueue
<1>2. ASSUME NEW w \in Workers, TakeDue(w)
      PROVE  Jobs'
  <2>1. /\ line[1].id \in Messages /\ line' = Tail(line) /\ 1 \in DOMAIN line
        /\ \A i \in DOMAIN line' : \E j \in DOMAIN line : line'[i] = line[j] /\ line[j].id # line[1].id
    BY <1>2, TailListed DEF TakeDue, Due, Types
  <2>2. Holds(line, line[1].id) /\ ~Holds(line', line[1].id)
    BY <2>1 DEF Holds
  <2>3. \A n : Holds(line', n) => Holds(line, n)
    BY <2>1 DEF Holds
  <2>4. /\ pc' = [pc EXCEPT ![w] = "sending"] /\ job' = [job EXCEPT ![w] = line[1].id]
        /\ pc \in [Workers -> Places] /\ job \in [Workers -> Messages \cup {None}]
    BY <1>2 DEF TakeDue, Goes, Types
  <2> QED
    BY <2>1, <2>2, <2>3, <2>4 DEF Jobs
<1>3. ASSUME NEW w \in Workers, NEW d \in Delays, Requeue(w, d)
      PROVE  Jobs'
  <2>1. job[w] \in Messages /\ ~Holds(line, job[w]) /\ d \in Int /\ line' = With(job[w], d)
    BY <1>3 DEF Requeue, Jobs, WakeupAssumption
  <2>2. \A n : Holds(line', n) => n = job[w] \/ Holds(line, n)
    BY <2>1, WithListed DEF Types, Holds
  <2>3. /\ pc' = [pc EXCEPT ![w] = "requeued"] /\ job' = [job EXCEPT ![w] = None] /\ pc[w] = "sending"
        /\ pc \in [Workers -> Places] /\ job \in [Workers -> Messages \cup {None}]
    BY <1>3 DEF Requeue, Goes, Types
  <2> QED
    BY <2>2, <2>3 DEF Jobs
<1>4. ASSUME NEW w \in Workers, Finish(w)
      PROVE  Jobs'
  BY <1>4 DEF Finish, Goes, Types, Jobs
<1>5. ASSUME /\ \A n : Holds(line', n) => Holds(line, n)
             /\ job' = job
             /\ \A w \in Workers : pc'[w] = "sending" <=> pc[w] = "sending"
      PROVE  Jobs'
  BY <1>5 DEF Jobs
<1>6. ASSUME NEW m \in Messages, Remove(m)
      PROVE  Jobs'
  <2>1. \A n : Holds(line', n) => Holds(line, n)
    BY <1>6, RemovedListed DEF Remove, Types, Holds
  <2> QED
    BY <1>5, <1>6, <2>1 DEF Remove
<1>7. CASE FlushNow \/ Tick
  <2>1. \/ line' = [i \in DOMAIN line |-> [line[i] EXCEPT !.in = Lesser(@, 0)]]
        \/ line' = [i \in DOMAIN line |-> [line[i] EXCEPT !.in = Greater(@ - 1, Late)]]
    BY <1>7 DEF FlushNow, Tick
  <2>2. DOMAIN line' = DOMAIN line
    BY <2>1
  <2>3. ASSUME NEW i \in DOMAIN line
        PROVE  line'[i].id = line[i].id
    <3> DEFINE a == Lesser(line[i].in, 0)
               b == Greater(line[i].in - 1, Late)
    <3>1. \/ line'[i] = [line[i] EXCEPT !.in = a]
          \/ line'[i] = [line[i] EXCEPT !.in = b]
      BY <2>1
    <3>2. line[i] = [id |-> line[i].id, in |-> line[i].in]
      BY EntryOfListed DEF Types
    <3> HIDE DEF a, b
    <3> QED
      BY <3>1, <3>2
  <2>4. \A n : Holds(line', n) => Holds(line, n)
    BY <2>2, <2>3 DEF Holds
  <2> QED
    BY <1>5, <1>7, <2>4 DEF FlushNow, Tick
<1>8. ASSUME NEW w \in Workers, LoopTop(w) \/ NothingDue(w) \/ Sleep(w) \/ Wake(w) \/ AnnounceRetry(w)
      PROVE  Jobs'
  <2>1. /\ line' = line /\ job' = job
        /\ \E place \in {"stopped", "look", "measure", "top", "asleep"} : pc' = [pc EXCEPT ![w] = place]
        /\ pc[w] # "sending"
    BY <1>8 DEF LoopTop, NothingDue, Sleep, Wake, AnnounceRetry, Goes
  <2>2. \A v \in Workers : pc'[v] = "sending" <=> pc[v] = "sending"
    BY <2>1 DEF Types
  <2> QED
    BY <1>5, <2>1, <2>2
<1>9. ASSUME NEW w \in Workers, Measure(w)
      PROVE  Jobs'
  <2>1. /\ line' = line /\ job' = job /\ pc[w] # "sending"
        /\ pc' = [pc EXCEPT ![w] = "top"] \/ pc' = [pc EXCEPT ![w] = "pause"]
    BY <1>9 DEF Measure, Goes
  <2>2. \A v \in Workers : pc'[v] = "sending" <=> pc[v] = "sending"
    BY <2>1 DEF Types
  <2> QED
    BY <1>5, <2>1, <2>2
<1>10. CASE line' = line /\ job' = job /\ pc' = pc
  BY <1>5, <1>10
<1>11. \/ \E m \in Messages : (\E d \in Delays \cup {0} : Enqueue(m, d)) \/ Remove(m)
       \/ FlushNow \/ Tick
       \/ \E w \in Workers : \/ LoopTop(w) \/ TakeDue(w) \/ NothingDue(w) \/ Measure(w) \/ Sleep(w) \/ Wake(w)
                             \/ Finish(w) \/ (\E d \in Delays : Requeue(w, d)) \/ AnnounceRetry(w)
       \/ line' = line /\ job' = job /\ pc' = pc
  BY DEF Next, Step, vars, Announce, AnnounceFlush, Shutdown
<1> QED
  BY <1>1, <1>2, <1>3, <1>4, <1>6, <1>7, <1>8, <1>9, <1>10, <1>11

-----------------------------------------------------------------------------
(* Due mail is noticed.                                                    *)

\* A worker that will look at the line, or whose wait ends no later than the first
\* message becomes due.
Alert(w) ==
  \/ pc[w] \in {"top", "look", "measure", "sending", "requeued"}
  \/ pc[w] = "pause" /\ (permit \/ timer[w] <= line[1].in)
  \/ pc[w] = "asleep" /\ (woken[w] # None \/ timer[w] <= line[1].in)

\* Waiting for the first message is not enough: it must hold while messages are not
\* yet due, and a timer be compared with what is first now, not when it was set.
Noticed ==
  /\ ~stopping => \A w \in Workers : pc[w] # "stopped"
  /\ ~stopping /\ posting = {} /\ ~flushing /\ Workers # {} /\ line # <<>> => \E w \in Workers : Alert(w)

LEMMA NoticedMeansDueIsNoticed == Types /\ Noticed => DueIsNoticed
<1> SUFFICES ASSUME Types, Noticed, Due, ~stopping, posting = {}, ~flushing, Workers # {}
             PROVE  \E w \in Workers : ~Asleep(w)
  BY DEF DueIsNoticed
<1>1. PICK w \in Workers : Alert(w)
  BY DEF Noticed, Due
<1>2. line[1].in \in Int /\ line[1].in <= 0 /\ timer[w] \in Nat
  BY TailListed, EntryOfListed DEF Types, Due
<1>3. ~Asleep(w)
  BY <1>1, <1>2 DEF Alert, Asleep
<1> QED
  BY <1>3

\* A notification reaches a waiter, or stays for one who is about to wait.
LEMMA NotifiedIsAlert ==
  ASSUME Types, NEW sent, sent \in [Workers -> {None, "one", "all"}], NotifyOne(sent), Workers # {},
         \A w \in Workers : pc[w] # "stopped",
         pc' = pc \/ \E w \in Workers : pc' = [pc EXCEPT ![w] = "top"]
  PROVE  \E w \in Workers : Alert(w)'
<1>1. CASE Unnotified(sent) = {}
  <2>1. permit' = TRUE /\ woken' = sent /\ \A w \in Workers : pc[w] = "asleep" => sent[w] # None
    BY <1>1 DEF NotifyOne, Unnotified
  <2>2. PICK w \in Workers : TRUE
    OBVIOUS
  <2>3. pc'[w] \in Places \ {"stopped"} /\ (pc'[w] = "asleep" => pc[w] = "asleep")
    BY DEF Types, Places
  <2> QED
    BY <2>1, <2>3 DEF Alert, Places
<1>2. CASE Unnotified(sent) # {}
  <2>1. PICK w \in Unnotified(sent) : woken' = [sent EXCEPT ![w] = "one"]
    BY <1>2 DEF NotifyOne
  <2>2. w \in Workers /\ woken'[w] # None /\ pc[w] = "asleep"
    BY <2>1 DEF Unnotified, None
  <2>3. pc'[w] \in {"asleep", "top"}
    BY <2>2 DEF Types
  <2> QED
    BY <2>2, <2>3 DEF Alert
<1> QED
  BY <1>1, <1>2

LEMMA InitNoticed == Init => Noticed
BY DEF Init, Noticed, Alert

LEMMA NoticedStep ==
  ASSUME Types, Types', Noticed, [Next]_vars
  PROVE  Noticed'
<1> USE WakeupAssumption
\* A step of a worker that leaves it on its way to look makes it alert.
<1>1. ASSUME NEW w \in Workers, NEW place \in {"top", "look", "measure", "sending", "requeued"},
             pc' = [pc EXCEPT ![w] = place], stopping' = stopping
      PROVE  Noticed'
  <2>1. pc'[w] = place /\ \A v \in Workers : v # w => pc'[v] = pc[v]
    BY <1>1 DEF Types
  <2>2. Alert(w)'
    BY <2>1 DEF Alert
  <2>3. ~stopping' => \A v \in Workers : pc'[v] # "stopped"
    BY <1>1, <2>1 DEF Noticed
  <2> QED
    BY <2>2, <2>3 DEF Noticed
<1>2. ASSUME NEW m \in Messages, NEW d \in Delays \cup {0}, Enqueue(m, d)
      PROVE  Noticed'
  BY <1>2 DEF Enqueue, Noticed
<1>3. ASSUME NEW m \in Messages, Announce(m)
      PROVE  Noticed'
  <2>1. NotifyOne(woken) /\ pc' = pc /\ stopping' = stopping
    BY <1>3 DEF Announce
  <2>2. ~stopping /\ Workers # {} => \E w \in Workers : Alert(w)'
    BY <2>1, NotifiedIsAlert DEF Types, Noticed
  <2> QED
    BY <2>1, <2>2 DEF Noticed
<1>4. CASE AnnounceFlush
  <2>1. NotifyOne(NotifyWaiters) /\ pc' = pc /\ stopping' = stopping
    BY <1>4 DEF AnnounceFlush
  <2>2. ~stopping /\ Workers # {} => \E w \in Workers : Alert(w)'
    BY <2>1, NotifiedIsAlert, NotifyWaitersType DEF Noticed
  <2> QED
    BY <2>1, <2>2 DEF Noticed
<1>5. ASSUME NEW m \in Messages, Remove(m)
      PROVE  Noticed'
  <2>1. line' # <<>> => line # <<>> /\ line[1].in <= line'[1].in
    BY <1>5, RemovedListed DEF Remove, Types
  <2>2. /\ line # <<>> => line[1].in \in Int
        /\ line' # <<>> => line'[1].in \in Int
    BY TailListed, EntryOfListed DEF Types
  <2>3. ASSUME NEW w \in Workers, Alert(w), line' # <<>>
        PROVE  Alert(w)'
    <3>1. pc' = pc /\ timer' = timer /\ permit' = permit /\ woken' = woken /\ timer[w] \in Nat
      BY <1>5 DEF Remove, notifyVars, Types
    <3>2. timer[w] <= line[1].in => timer[w] <= line'[1].in
      BY <2>1, <2>2, <2>3, <3>1
    <3> QED
      BY <2>3, <3>1, <3>2 DEF Alert
  <2> QED
    BY <1>5, <2>1, <2>3 DEF Remove, Noticed
<1>6. CASE FlushNow
  BY <1>6 DEF FlushNow, Noticed
<1>7. ASSUME NEW w \in Workers, LoopTop(w)
      PROVE  Noticed'
  <2>1. CASE stopping
    BY <1>7, <2>1 DEF LoopTop, Noticed
  <2>2. CASE ~stopping
    BY <1>1, <1>7, <2>2 DEF LoopTop, Goes
  <2> QED
    BY <2>1, <2>2
<1>8. ASSUME NEW w \in Workers, TakeDue(w) \/ NothingDue(w) \/ Wake(w) \/ Finish(w) \/ AnnounceRetry(w)
      PROVE  Noticed'
  BY <1>1, <1>8 DEF TakeDue, NothingDue, Wake, Finish, AnnounceRetry, Goes
<1>9. ASSUME NEW w \in Workers, NEW d \in Delays, Requeue(w, d)
      PROVE  Noticed'
  BY <1>1, <1>9 DEF Requeue, Goes
\* A fresh timer ends no later than the first message becomes due.
<1>10. ASSUME NEW w \in Workers, Measure(w)
       PROVE  Noticed'
  <2> DEFINE delay == IF line = <<>> THEN MaxIdle ELSE Lesser(Greater(line[1].in, 0), MaxIdle)
  <2>1. /\ pc' = [pc EXCEPT ![w] = IF delay = 0 THEN "top" ELSE "pause"]
        /\ timer' = [timer EXCEPT ![w] = delay]
        /\ line' = line /\ stopping' = stopping
    BY <1>10 DEF Measure, Goes
  <2>2. line # <<>> => line[1].in \in Int
    BY TailListed, EntryOfListed DEF Types
  <2>3. CASE delay = 0
    BY <1>1, <2>1, <2>3
  <2>4. CASE delay # 0
    <3>1. line # <<>> => delay <= line[1].in
      BY <2>2, <2>4 DEF Lesser, Greater, WakeupAssumption
    <3> HIDE DEF delay
    <3>2. pc'[w] = "pause" /\ timer'[w] = delay /\ \A v \in Workers : v # w => pc'[v] = pc[v]
      BY <2>1, <2>4 DEF Types
    <3>3. line' # <<>> => Alert(w)'
      BY <2>1, <3>1, <3>2 DEF Alert
    <3>4. ~stopping' => \A v \in Workers : pc'[v] # "stopped"
      BY <2>1, <3>2 DEF Noticed
    <3> QED
      BY <3>3, <3>4 DEF Noticed
  <2> QED
    BY <2>3, <2>4
\* The permit is used up only by a worker that looks again.
<1>11. ASSUME NEW w \in Workers, Sleep(w)
       PROVE  Noticed'
  <2>1. CASE permit
    BY <1>1, <1>11, <2>1 DEF Sleep, Goes
  <2>2. CASE ~permit
    <3>1. /\ pc[w] = "pause" /\ pc' = [pc EXCEPT ![w] = "asleep"] /\ timer' = timer /\ woken' = woken
          /\ line' = line /\ stopping' = stopping /\ posting' = posting /\ flushing' = flushing
      BY <1>11, <2>2 DEF Sleep, Goes
    <3>2. pc'[w] = "asleep" /\ \A v \in Workers : v # w => pc'[v] = pc[v]
      BY <3>1 DEF Types
    <3>3. \A v \in Workers : Alert(v) => Alert(v)'
      BY <2>2, <3>1, <3>2 DEF Alert
    <3>4. ~stopping' => \A v \in Workers : pc'[v] # "stopped"
      BY <3>1, <3>2 DEF Noticed
    <3> QED
      BY <3>1, <3>3, <3>4 DEF Noticed
  <2> QED
    BY <2>1, <2>2
<1>12. CASE Shutdown
  BY <1>12 DEF Shutdown, Noticed
\* Time passes for the timer and for the message alike.
<1>13. CASE Tick
  <2>1. ASSUME NEW w \in Workers, Alert(w), line' # <<>>
        PROVE  Alert(w)'
    <3>1. /\ pc' = pc /\ permit' = permit /\ woken' = woken
          /\ pc[w] \in {"sending", "stopped"} \/ Asleep(w)
      BY <1>13 DEF Tick, notifyVars
    <3>2. CASE pc[w] \in {"sending", "stopped"}
      BY <2>1, <3>1, <3>2 DEF Alert
    <3>3. CASE Asleep(w)
      <4>1. timer'[w] = timer[w] - 1 /\ timer[w] \in Nat /\ timer[w] > 0
        BY <1>13, <3>3 DEF Tick, Types, Asleep
      <4>2. line' = [i \in DOMAIN line |-> [line[i] EXCEPT !.in = Greater(@ - 1, Late)]]
        BY <1>13 DEF Tick
      <4>3. 1 \in DOMAIN line /\ line[1] = [id |-> line[1].id, in |-> line[1].in] /\ line[1].in \in Int
        <5>1. 1 \in DOMAIN line'
          BY <2>1, TailListed DEF Types
        <5>2. 1 \in DOMAIN line
          BY <4>2, <5>1
        <5> QED
          BY <5>2, EntryOfListed DEF Types
      <4>4. line'[1].in = Greater(line[1].in - 1, Late)
        <5> DEFINE d == Greater(line[1].in - 1, Late)
        <5>1. line'[1] = [line[1] EXCEPT !.in = d]
          BY <4>2, <4>3
        <5> HIDE DEF d
        <5>2. line'[1].in = d
          BY <4>3, <5>1
        <5> QED
          BY <5>2 DEF d
      <4>5. timer[w] <= line[1].in
        BY <2>1, <3>3 DEF Alert, Asleep
      <4>6. timer'[w] <= line'[1].in
        BY <4>1, <4>3, <4>4, <4>5 DEF Greater, Late, WakeupAssumption
      <4> QED
        BY <3>1, <3>3, <4>6 DEF Alert, Asleep
    <3> QED
      BY <3>1, <3>2, <3>3
  <2>2. /\ pc' = pc /\ stopping' = stopping /\ posting' = posting /\ flushing' = flushing
        /\ line' # <<>> => line # <<>>
    BY <1>13 DEF Tick
  <2> QED
    BY <2>1, <2>2 DEF Noticed
<1>14. CASE UNCHANGED vars
  BY <1>14 DEF Noticed, Alert, vars, notifyVars
<1>15. \/ \E m \in Messages :
            (\E d \in Delays \cup {0} : Enqueue(m, d)) \/ Remove(m) \/ Announce(m)
       \/ FlushNow \/ AnnounceFlush \/ Shutdown \/ Tick
       \/ \E w \in Workers : \/ LoopTop(w) \/ NothingDue(w) \/ Finish(w) \/ TakeDue(w) \/ Measure(w)
                             \/ Sleep(w) \/ Wake(w) \/ (\E d \in Delays : Requeue(w, d)) \/ AnnounceRetry(w)
       \/ UNCHANGED vars
  BY Zenon DEF Next, Step
<1> QED
  BY <1>2, <1>3, <1>4, <1>5, <1>6, <1>7, <1>8, <1>9, <1>10, <1>11, <1>12, <1>13, <1>14, <1>15

-----------------------------------------------------------------------------
(* A worker heeds what happens in time.                                    *)

\* A worker is past the top of its loop only while the process is not stopping; from
\* there a wait ends within the cap of what it may miss: of the time the process has
\* been stopping, and of the time a message has been due.
Heeded ==
  /\ ~stopping => since = 0
  /\ \A w \in Workers :
       /\ pc[w] \in {"look", "measure", "pause"} => since = 0
       /\ pc[w] \in {"pause", "asleep"} =>
            /\ since + timer[w] <= MaxIdle
            /\ \A i \in DOMAIN line : line[i].in >= timer[w] - MaxIdle

LEMMA HeededMeansHeedsInTime == Types /\ Heeded => HeedsInTime
<1> SUFFICES ASSUME Types, Heeded, NEW w \in Workers, Asleep(w)
             PROVE  since < MaxIdle /\ \A i \in DOMAIN line : line[i].in > -MaxIdle
  BY DEF HeedsInTime
<1> USE WakeupAssumption
<1>1. /\ timer[w] \in Nat /\ timer[w] > 0 /\ since \in Nat /\ MaxIdle \in Nat
      /\ since + timer[w] <= MaxIdle
      /\ \A i \in DOMAIN line : line[i].in >= timer[w] - MaxIdle
  BY DEF Types, Heeded, Asleep, WakeupAssumption
<1>2. \A i \in DOMAIN line : line[i].in \in Int
  BY EntryOfListed DEF Types
<1> QED
  BY <1>1, <1>2

LEMMA InitHeeded == Init => Heeded
BY DEF Init, Heeded

\* But for a tick, no step makes a message due earlier than it was, or than now.
LEMMA LineNotEarlier ==
  ASSUME Types, Jobs, [Next]_vars, ~Tick
  PROVE  \A i \in DOMAIN line' :
           line'[i].in >= 0 \/ \E j \in DOMAIN line : line'[i].in = line[j].in
<1> USE WakeupAssumption
<1> DEFINE Goal == \A i \in DOMAIN line' :
                     line'[i].in >= 0 \/ \E j \in DOMAIN line : line'[i].in = line[j].in
<1>1. ASSUME NEW m \in Messages, NEW d \in Delays \cup {0}, ~Holds(line, m), line' = With(m, d)
      PROVE  Goal
  <2>1. d \in Int /\ d >= 0
    BY DEF WakeupAssumption
  <2>2. \A i \in DOMAIN line' : line'[i] = [id |-> m, in |-> d] \/ \E j \in DOMAIN line : line'[i] = line[j]
    BY <1>1, <2>1, WithListed DEF Types
  <2>3. \A i \in DOMAIN line' : line'[i].in = d \/ \E j \in DOMAIN line : line'[i].in = line[j].in
    BY <2>2
  <2> QED
    BY <2>1, <2>3
<1>2. ASSUME NEW m \in Messages, NEW d \in Delays \cup {0}, Enqueue(m, d)
      PROVE  Goal
  BY <1>1, <1>2 DEF Enqueue, Waiting, Holds
<1>3. ASSUME NEW w \in Workers, NEW d \in Delays, Requeue(w, d)
      PROVE  Goal
  BY <1>1, <1>3 DEF Requeue, Jobs
<1>4. ASSUME NEW m \in Messages, Remove(m)
      PROVE  Goal
  <2>1. \A i \in DOMAIN line' : \E j \in DOMAIN line : line'[i] = line[j]
    BY <1>4, RemovedListed DEF Remove, Types
  <2> QED
    BY <2>1
<1>5. ASSUME NEW w \in Workers, TakeDue(w)
      PROVE  Goal
  <2>1. \A i \in DOMAIN line' : \E j \in DOMAIN line : line'[i] = line[j]
    BY <1>5, TailListed DEF TakeDue, Due, Types
  <2> QED
    BY <2>1
<1>6. CASE FlushNow
  <2>1. line' = [i \in DOMAIN line |-> [line[i] EXCEPT !.in = Lesser(@, 0)]]
    BY <1>6 DEF FlushNow
  <2>2. ASSUME NEW i \in DOMAIN line
        PROVE  line'[i].in = Lesser(line[i].in, 0)
    <3> DEFINE d == Lesser(line[i].in, 0)
    <3>1. line[i] = [id |-> line[i].id, in |-> line[i].in] /\ line'[i] = [line[i] EXCEPT !.in = d]
      BY <2>1, EntryOfListed DEF Types
    <3> HIDE DEF d
    <3>2. line'[i].in = d
      BY <3>1
    <3> QED
      BY <3>2 DEF d
  <2>3. DOMAIN line' = DOMAIN line
    BY <2>1
  <2> QED
    BY <2>2, <2>3 DEF Lesser
<1>7. CASE line' = line
  BY <1>7
<1>8. \/ \E m \in Messages : (\E d \in Delays \cup {0} : Enqueue(m, d)) \/ Remove(m)
      \/ FlushNow
      \/ \E w \in Workers : TakeDue(w) \/ \E d \in Delays : Requeue(w, d)
      \/ line' = line
  BY DEF Next, Step, vars, Announce, AnnounceFlush, LoopTop, NothingDue, Measure, Sleep, Wake, Finish,
         AnnounceRetry, Shutdown
<1> QED
  BY <1>2, <1>3, <1>4, <1>5, <1>6, <1>7, <1>8

LEMMA HeededStep ==
  ASSUME Types, Types', Jobs, Heeded, [Next]_vars
  PROVE  Heeded'
<1> USE WakeupAssumption
\* What a wait may miss does not shrink while no time passes.
<1>1. ASSUME ~Tick, NEW w \in Workers, timer'[w] = timer[w], timer[w] <= MaxIdle,
             \A i \in DOMAIN line : line[i].in >= timer[w] - MaxIdle
      PROVE  \A i \in DOMAIN line' : line'[i].in >= timer'[w] - MaxIdle
  <2>1. timer[w] \in Nat /\ MaxIdle \in Nat
    BY DEF Types, WakeupAssumption
  <2>2. \A i \in DOMAIN line' : line'[i].in >= 0 \/ \E j \in DOMAIN line : line'[i].in = line[j].in
    BY <1>1, LineNotEarlier
  <2>3. \A i \in DOMAIN line' : line'[i].in \in Int
    BY EntryOfListed DEF Types
  <2> QED
    BY <1>1, <2>1, <2>2, <2>3
\* Without a tick, a worker that keeps its place, or leaves for a place where it does
\* not wait, keeps to its bounds.
<1>2. ASSUME ~Tick, since' = since, ~stopping' => ~stopping,
             \A w \in Workers :
               \/ pc'[w] = pc[w] /\ timer'[w] = timer[w]
               \/ pc'[w] \in {"top", "sending", "requeued", "stopped"}
               \/ pc'[w] \in {"look", "measure"} /\ since = 0
      PROVE  Heeded'
  <2>1. ASSUME NEW w \in Workers, pc'[w] \in {"pause", "asleep"}
        PROVE  /\ since' + timer'[w] <= MaxIdle
               /\ \A i \in DOMAIN line' : line'[i].in >= timer'[w] - MaxIdle
    <3>1. pc'[w] = pc[w] /\ timer'[w] = timer[w]
      BY <1>2, <2>1
    <3>2. since + timer[w] <= MaxIdle /\ \A i \in DOMAIN line : line[i].in >= timer[w] - MaxIdle
      BY <2>1, <3>1 DEF Heeded
    <3>3. timer[w] <= MaxIdle
      BY <3>2 DEF Types, WakeupAssumption
    <3> QED
      BY <1>1, <1>2, <3>1, <3>2, <3>3
  <2>2. ASSUME NEW w \in Workers, pc'[w] \in {"look", "measure", "pause"}
        PROVE  since' = 0
    BY <1>2, <2>2 DEF Heeded
  <2>3. ~stopping' => since' = 0
    BY <1>2 DEF Heeded
  <2> QED
    BY <2>1, <2>2, <2>3 DEF Heeded
<1>3. ASSUME NEW w \in Workers, LoopTop(w), ~Tick
      PROVE  Heeded'
  <2>1. /\ pc' = [pc EXCEPT ![w] = IF stopping THEN "stopped" ELSE "look"]
        /\ timer' = timer /\ since' = since /\ stopping' = stopping
    BY <1>3 DEF LoopTop, Goes
  <2>2. ~stopping => since = 0
    BY DEF Heeded
  <2>3. pc'[w] = (IF stopping THEN "stopped" ELSE "look") /\ \A v \in Workers : v # w => pc'[v] = pc[v]
    BY <2>1 DEF Types
  <2> QED
    BY <1>2, <1>3, <2>1, <2>2, <2>3
<1>4. ASSUME NEW w \in Workers, NothingDue(w), ~Tick
      PROVE  Heeded'
  <2>1. /\ pc' = [pc EXCEPT ![w] = "measure"] /\ since = 0
        /\ timer' = timer /\ since' = since /\ stopping' = stopping
    BY <1>4 DEF NothingDue, Goes, Heeded
  <2>2. pc'[w] = "measure" /\ \A v \in Workers : v # w => pc'[v] = pc[v]
    BY <2>1 DEF Types
  <2> QED
    BY <1>2, <1>4, <2>1, <2>2
<1>5. ASSUME NEW w \in Workers, ~Tick,
             \/ TakeDue(w) \/ Wake(w) \/ Finish(w) \/ (\E d \in Delays : Requeue(w, d)) \/ AnnounceRetry(w)
      PROVE  Heeded'
  <2>1. /\ pc' = [pc EXCEPT ![w] = "sending"] \/ pc' = [pc EXCEPT ![w] = "top"]
           \/ pc' = [pc EXCEPT ![w] = "requeued"]
        /\ timer' = timer \/ timer' = [timer EXCEPT ![w] = 0]
        /\ since' = since /\ stopping' = stopping
    BY <1>5 DEF TakeDue, Wake, Finish, Requeue, AnnounceRetry, Goes
  <2>2. /\ pc'[w] \in {"top", "sending", "requeued"}
        /\ \A v \in Workers : v # w => pc'[v] = pc[v] /\ timer'[v] = timer[v]
    BY <2>1 DEF Types
  <2> QED
    BY <1>2, <1>5, <2>1, <2>2
\* The wait begins within the cap, and with nothing due.
<1>6. ASSUME NEW w \in Workers, Measure(w), ~Tick
      PROVE  Heeded'
  <2> DEFINE delay == IF line = <<>> THEN MaxIdle ELSE Lesser(Greater(line[1].in, 0), MaxIdle)
  <2>1. /\ pc[w] = "measure"
        /\ pc' = [pc EXCEPT ![w] = IF delay = 0 THEN "top" ELSE "pause"]
        /\ timer' = [timer EXCEPT ![w] = delay]
        /\ line' = line /\ stopping' = stopping /\ since' = since
    BY <1>6 DEF Measure, Goes
  <2>2. \A i \in DOMAIN line : line[i].in \in Int /\ 1 \in DOMAIN line /\ line[1].in <= line[i].in
    <3>1. \A i \in DOMAIN line : line[i].in \in Int
      BY EntryOfListed DEF Types
    <3>2. \A i \in DOMAIN line : i = 1 \/ (1 < i /\ 1 \in DOMAIN line)
      BY LenProperties DEF Types, Listed
    <3> QED
      BY <3>1, <3>2 DEF Types, Listed, Ordered
  <2>3. \A i \in DOMAIN line : line # <<>>
    OBVIOUS
  <2>4. /\ delay \in Nat /\ delay <= MaxIdle
        /\ delay # 0 => \A i \in DOMAIN line : line[i].in >= 0
    <3>1. line # <<>> => line[1].in \in Int
      BY TailListed, EntryOfListed DEF Types
    <3>2. delay \in Nat /\ delay <= MaxIdle /\ (delay # 0 /\ line # <<>> => line[1].in >= 0)
      BY <3>1 DEF Lesser, Greater, WakeupAssumption
    <3> HIDE DEF delay
    <3> QED
      BY <2>2, <2>3, <3>2
  <2> HIDE DEF delay
  <2>5. /\ since = 0
        /\ pc'[w] = (IF delay = 0 THEN "top" ELSE "pause") /\ timer'[w] = delay
        /\ \A v \in Workers : v # w => pc'[v] = pc[v] /\ timer'[v] = timer[v]
    BY <2>1 DEF Types, Heeded
  <2>6. \A i \in DOMAIN line : line[i].in \in Int
    BY <2>2
  <2>7. delay # 0 => since' + timer'[w] <= MaxIdle /\ \A i \in DOMAIN line' : line'[i].in >= timer'[w] - MaxIdle
    BY <2>1, <2>4, <2>5, <2>6 DEF WakeupAssumption
  <2> QED
    BY <2>1, <2>5, <2>7 DEF Heeded
<1>7. ASSUME NEW w \in Workers, Sleep(w), ~Tick
      PROVE  Heeded'
  <2>1. CASE permit
    <3>1. /\ pc' = [pc EXCEPT ![w] = "top"] /\ timer' = [timer EXCEPT ![w] = 0]
          /\ since' = since /\ stopping' = stopping
      BY <1>7, <2>1 DEF Sleep, Goes
    <3>2. pc'[w] = "top" /\ \A v \in Workers : v # w => pc'[v] = pc[v] /\ timer'[v] = timer[v]
      BY <3>1 DEF Types
    <3> QED
      BY <1>2, <1>7, <3>1, <3>2
  <2>2. CASE ~permit
    <3>1. /\ pc' = [pc EXCEPT ![w] = "asleep"] /\ timer' = timer /\ pc[w] = "pause"
          /\ since' = since /\ stopping' = stopping /\ line' = line
      BY <1>7, <2>2 DEF Sleep, Goes
    <3>2. pc'[w] = "asleep" /\ \A v \in Workers : v # w => pc'[v] = pc[v]
      BY <3>1 DEF Types
    <3> QED
      BY <3>1, <3>2 DEF Heeded
  <2> QED
    BY <2>1, <2>2
<1>8. CASE pc' = pc /\ timer' = timer /\ since' = since /\ (~stopping' => ~stopping) /\ ~Tick
  BY <1>2, <1>8
\* A tick finds every waiter with time left, and takes one from that and from the line.
<1>9. CASE Tick
  <2>1. /\ pc' = pc /\ stopping' = stopping
        /\ since' = IF stopping THEN Lesser(since + 1, MaxIdle + 1) ELSE 0
        /\ line' = [i \in DOMAIN line |-> [line[i] EXCEPT !.in = Greater(@ - 1, Late)]]
        /\ \A w \in Workers : pc[w] \in {"sending", "stopped"} \/ Asleep(w)
        /\ timer' = [w \in Workers |-> IF Asleep(w) THEN timer[w] - 1 ELSE timer[w]]
    BY <1>9 DEF Tick
  <2>2. since' \in Nat /\ since' <= since + 1
    BY <2>1 DEF Types, Lesser, WakeupAssumption
  <2>3. ASSUME NEW i \in DOMAIN line
        PROVE  line'[i].in = Greater(line[i].in - 1, Late)
    <3> DEFINE d == Greater(line[i].in - 1, Late)
    <3>1. line[i] = [id |-> line[i].id, in |-> line[i].in] /\ line'[i] = [line[i] EXCEPT !.in = d]
      BY <2>1, EntryOfListed DEF Types
    <3> HIDE DEF d
    <3>2. line'[i].in = d
      BY <3>1
    <3> QED
      BY <3>2 DEF d
  <2>4. DOMAIN line' = DOMAIN line /\ \A i \in DOMAIN line : line[i].in \in Int
    BY <2>1, EntryOfListed DEF Types
  <2>5. ASSUME NEW w \in Workers, pc'[w] \in {"pause", "asleep"}
        PROVE  /\ since' + timer'[w] <= MaxIdle
               /\ \A i \in DOMAIN line' : line'[i].in >= timer'[w] - MaxIdle
    <3>1. Asleep(w)
      BY <2>1, <2>5
    <3>2. timer[w] \in Nat /\ timer[w] > 0 /\ timer'[w] = timer[w] - 1 /\ since \in Nat /\ MaxIdle \in Nat
      BY <2>1, <3>1 DEF Types, Asleep, WakeupAssumption
    <3>3. since + timer[w] <= MaxIdle /\ \A i \in DOMAIN line : line[i].in >= timer[w] - MaxIdle
      BY <3>1 DEF Heeded, Asleep
    <3>4. since' + timer'[w] <= MaxIdle
      BY <2>2, <3>2, <3>3
    <3>5. ASSUME NEW i \in DOMAIN line
          PROVE  line'[i].in >= timer'[w] - MaxIdle
      BY <2>3, <2>4, <3>2, <3>3 DEF Greater, Late
    <3> QED
      BY <2>4, <3>4, <3>5
  <2>6. \A w \in Workers : pc'[w] \notin {"look", "measure", "pause"}
    BY <2>1 DEF Asleep
  <2>7. ~stopping' => since' = 0
    BY <2>1
  <2> QED
    BY <2>5, <2>6, <2>7 DEF Heeded
<1>10. \/ Tick
       \/ pc' = pc /\ timer' = timer /\ since' = since /\ (~stopping' => ~stopping)
       \/ \E w \in Workers : \/ LoopTop(w) \/ TakeDue(w) \/ NothingDue(w) \/ Measure(w) \/ Sleep(w) \/ Wake(w)
                             \/ Finish(w) \/ (\E d \in Delays : Requeue(w, d)) \/ AnnounceRetry(w)
  <2> DEFINE Quiet == pc' = pc /\ timer' = timer /\ since' = since /\ (~stopping' => ~stopping)
  <2>1. ASSUME NEW m \in Messages, NEW d \in Delays \cup {0}, Enqueue(m, d) PROVE Quiet
    BY <2>1 DEF Enqueue
  <2>2. ASSUME NEW m \in Messages, Announce(m) \/ Remove(m) PROVE Quiet
    BY <2>2 DEF Announce, Remove
  <2>3. FlushNow \/ AnnounceFlush \/ Shutdown \/ UNCHANGED vars => Quiet
    BY DEF FlushNow, AnnounceFlush, Shutdown, vars
  <2> HIDE DEF Quiet
  <2>4. \/ Tick \/ Quiet
        \/ \E w \in Workers : \/ LoopTop(w) \/ TakeDue(w) \/ NothingDue(w) \/ Measure(w) \/ Sleep(w) \/ Wake(w)
                              \/ Finish(w) \/ (\E d \in Delays : Requeue(w, d)) \/ AnnounceRetry(w)
    BY <2>1, <2>2, <2>3 DEF Next, Step
  <2> QED
    BY <2>4 DEF Quiet
<1> QED
  BY <1>3, <1>4, <1>5, <1>6, <1>7, <1>8, <1>9, <1>10

-----------------------------------------------------------------------------
(* The theorems.                                                           *)

WakeupInv == Types /\ Jobs /\ Noticed /\ Heeded

LEMMA WakeupInvariant == Spec => []WakeupInv
<1>1. Init => WakeupInv
  BY InitTypes, InitNoticed, InitHeeded DEF WakeupInv
<1>2. WakeupInv /\ [Next]_vars => WakeupInv'
  BY TypesStep, JobsStep, NoticedStep, HeededStep DEF WakeupInv
<1> QED
  BY <1>1, <1>2, PTL DEF Spec

\* The scheduled map stays ordered by due time, and holds no message twice, through
\* insertion, removal, flush and retry (queue.rs's Inner).
THEOREM WakeupTypes == Spec => []TypeOK
<1>1. WakeupInv => TypeOK
  BY TypesAreTypeOK DEF WakeupInv
<1> QED
  BY <1>1, WakeupInvariant, PTL

\* However many workers wait, take each other's notifications or wait on an outdated
\* delay, mail that is due and announced finds one of them awake.
THEOREM DueMailIsNoticed == Spec => []DueIsNoticed
<1>1. WakeupInv => DueIsNoticed
  BY NoticedMeansDueIsNoticed DEF WakeupInv
<1> QED
  BY <1>1, WakeupInvariant, PTL

\* No worker sleeps on when mail has been due, or the process stopping, for the cap of
\* a wait.
THEOREM WorkersHeedInTime == Spec => []HeedsInTime
<1>1. WakeupInv => HeedsInTime
  BY HeededMeansHeedsInTime DEF WakeupInv
<1> QED
  BY <1>1, WakeupInvariant, PTL
=============================================================================
