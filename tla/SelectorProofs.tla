--------------------------- MODULE SelectorProofs ---------------------------
(***************************************************************************)
(* For any pool, weights, details, rules and routing: mail leaves through  *)
(* a relay it may use, smooth weighted round robin bounds what each relay  *)
(* owes or is owed, and sticky routing keeps the configured split.         *)
(***************************************************************************)
EXTENDS Selector, FiniteSetTheorems, WellFoundedInduction, TLAPS

-----------------------------------------------------------------------------
(* Induction on the positions of the pool.                                 *)

\* A set of naturals that is not all of them leaves out a first one.
LEMMA Naturals ==
  ASSUME NEW T \in SUBSET Nat, 0 \in T, \A n \in T : n + 1 \in T
  PROVE  T = Nat
  <1> DEFINE Smaller == OpToRel(<, Nat)
             Out == Nat \ T
  <1> SUFFICES ASSUME Out # {} PROVE FALSE
    OBVIOUS
  <1>1. IsWellFoundedOn(Smaller, Nat) BY NatLessThanWellFounded
  <1>2. \A m, n \in Nat : m < n => <<m, n>> \in Smaller BY DEF OpToRel
  <1> HIDE DEF Smaller
  <1>3. PICK n \in Out : \A m \in Out : ~(<<m, n>> \in Smaller) BY <1>1, WFMin
  <1>4. n # 0 /\ n \in Nat OBVIOUS
  <1>5. n - 1 \in Nat /\ n - 1 < n BY <1>4
  <1>6. n - 1 \in T BY <1>2, <1>3, <1>5
  <1> QED BY <1>3, <1>5, <1>6

LEMMA PoolSize == NumRelays \in Nat \ {0} /\ Relays = 1 .. NumRelays
  BY SelectorAssumption DEF Relays

LEMMA Positions ==
  ASSUME NEW T, 0 \in T, \A r \in Relays : r - 1 \in T => r \in T
  PROVE  0 .. NumRelays \subseteq T
  <1> DEFINE S == {n \in Nat : n <= NumRelays => n \in T}
  <1>1. 0 \in S /\ S \in SUBSET Nat OBVIOUS
  <1>2. ASSUME NEW n \in S PROVE n + 1 \in S
    <2> SUFFICES ASSUME n + 1 <= NumRelays PROVE n + 1 \in T
      OBVIOUS
    <2>1. n + 1 \in Relays /\ (n + 1) - 1 = n /\ n <= NumRelays BY PoolSize
    <2> QED BY <2>1
  <1> HIDE DEF S
  <1>3. S = Nat BY <1>1, <1>2, Naturals
  <1> QED BY <1>3, PoolSize DEF S

-----------------------------------------------------------------------------
(* Running totals.                                                         *)

Quantities == [Relays -> Int]

IsUpTo(u, w, n) == u = [r \in 0 .. n |-> IF r = 0 THEN 0 ELSE u[r - 1] + w[r]]

LEMMA UpToExists ==
  ASSUME NEW w \in Quantities
  PROVE  \E u : IsUpTo(u, w, NumRelays)
  <1> DEFINE T == {n \in 0 .. NumRelays : \E u : IsUpTo(u, w, n)}
  <1>1. 0 \in T
    <2> DEFINE u == [r \in 0 .. 0 |-> 0]
    <2>1. u = [r \in 0 .. 0 |-> IF r = 0 THEN 0 ELSE u[r - 1] + w[r]] OBVIOUS
    <2> HIDE DEF u
    <2> QED BY <2>1, PoolSize DEF IsUpTo
  <1>2. ASSUME NEW n \in Relays, n - 1 \in T PROVE n \in T
    <2>1. PICK u : IsUpTo(u, w, n - 1) BY <1>2
    <2>2. n \in Nat /\ n > 0 /\ n \in 0 .. NumRelays BY PoolSize
    <2> DEFINE v == [r \in 0 .. n |-> IF r = n THEN u[n - 1] + w[n] ELSE u[r]]
    <2>3. ASSUME NEW r \in 0 .. n
          PROVE  v[r] = IF r = 0 THEN 0 ELSE v[r - 1] + w[r]
      <3>1. CASE r = 0 BY <2>1, <2>2, <3>1 DEF IsUpTo
      <3>2. CASE r = n /\ r # 0
        <4>1. n - 1 \in 0 .. n /\ n - 1 # n BY <2>2
        <4> QED BY <3>2, <4>1
      <3>3. CASE r # n /\ r # 0
        <4>1. r \in 0 .. n - 1 /\ r - 1 \in 0 .. n /\ r - 1 # n BY <2>2, <3>3
        <4> QED BY <2>1, <3>3, <4>1 DEF IsUpTo
      <3> QED BY <3>1, <3>2, <3>3
    <2>4. v = [r \in 0 .. n |-> IF r = 0 THEN 0 ELSE v[r - 1] + w[r]] BY <2>3
    <2> HIDE DEF v
    <2>5. \E x : IsUpTo(x, w, n) BY <2>4 DEF IsUpTo
    <2> QED BY <2>2, <2>5
  <1> HIDE DEF T
  <1>3. 0 .. NumRelays \subseteq T BY <1>1, <1>2, Positions
  <1>4. NumRelays \in T BY <1>3, PoolSize
  <1> QED BY <1>4 DEF T

\* What defines the running total, and that it is a number.
LEMMA UpToIs ==
  ASSUME NEW w \in Quantities
  PROVE  /\ UpTo(w)[0] = 0
         /\ \A r \in Relays : UpTo(w)[r] = UpTo(w)[r - 1] + w[r]
         /\ \A r \in 0 .. NumRelays : UpTo(w)[r] \in Int
  <1>1. \E u : IsUpTo(u, w, NumRelays) BY UpToExists
  <1>2. IsUpTo(UpTo(w), w, NumRelays) BY <1>1, Zenon DEF IsUpTo, UpTo
  <1>3. \A r \in 0 .. NumRelays : UpTo(w)[r] = IF r = 0 THEN 0 ELSE UpTo(w)[r - 1] + w[r]
    BY <1>2 DEF IsUpTo
  <1>4. UpTo(w)[0] = 0 BY <1>3, PoolSize
  <1>5. \A r \in Relays : r \in 0 .. NumRelays /\ r # 0 BY PoolSize
  <1>6. \A r \in Relays : UpTo(w)[r] = UpTo(w)[r - 1] + w[r] BY <1>3, <1>5
  <1> DEFINE T == {r \in 0 .. NumRelays : UpTo(w)[r] \in Int}
  <1>7. 0 \in T BY <1>4, PoolSize
  <1>8. \A r \in Relays : r - 1 \in T => r \in T BY <1>5, <1>6 DEF Quantities
  <1>9. 0 .. NumRelays \subseteq T BY <1>7, <1>8, Positions
  <1> QED BY <1>4, <1>6, <1>9

LEMMA TotalIs ==
  ASSUME NEW w \in Quantities
  PROVE  Total(w) \in Int
  BY UpToIs, PoolSize DEF Total

LEMMA TotalAdds ==
  ASSUME NEW w \in Quantities, NEW v \in Quantities, NEW x \in Quantities,
         \A r \in Relays : x[r] = w[r] + v[r]
  PROVE  Total(x) = Total(w) + Total(v)
  <1> DEFINE T == {r \in 0 .. NumRelays : UpTo(x)[r] = UpTo(w)[r] + UpTo(v)[r]}
  <1>0. \A r \in Relays : r \in 0 .. NumRelays /\ r - 1 \in 0 .. NumRelays BY PoolSize
  <1>1. 0 \in T BY UpToIs, PoolSize
  <1>2. ASSUME NEW r \in Relays, r - 1 \in T PROVE r \in T
    <2>1. UpTo(x)[r] = UpTo(x)[r - 1] + (w[r] + v[r]) BY UpToIs
    <2>2. UpTo(w)[r] = UpTo(w)[r - 1] + w[r] /\ UpTo(v)[r] = UpTo(v)[r - 1] + v[r] BY UpToIs
    <2>3. /\ UpTo(w)[r - 1] \in Int /\ UpTo(v)[r - 1] \in Int
          /\ w[r] \in Int /\ v[r] \in Int
      BY <1>0, UpToIs DEF Quantities
    <2>4. UpTo(x)[r - 1] = UpTo(w)[r - 1] + UpTo(v)[r - 1] BY <1>2
    <2> QED BY <1>0, <2>1, <2>2, <2>3, <2>4
  <1>3. 0 .. NumRelays \subseteq T BY <1>1, <1>2, Positions
  <1> QED BY <1>3, PoolSize DEF Total

LEMMA TotalGrows ==
  ASSUME NEW w \in Quantities, NEW v \in Quantities, \A r \in Relays : w[r] <= v[r]
  PROVE  Total(w) <= Total(v)
  <1> DEFINE T == {r \in 0 .. NumRelays : UpTo(w)[r] <= UpTo(v)[r]}
  <1>0. \A r \in Relays : r \in 0 .. NumRelays /\ r - 1 \in 0 .. NumRelays BY PoolSize
  <1>1. 0 \in T BY UpToIs, PoolSize
  <1>2. ASSUME NEW r \in Relays, r - 1 \in T PROVE r \in T
    <2>2. UpTo(w)[r] = UpTo(w)[r - 1] + w[r] /\ UpTo(v)[r] = UpTo(v)[r - 1] + v[r] BY UpToIs
    <2>3. /\ UpTo(w)[r - 1] \in Int /\ UpTo(v)[r - 1] \in Int
          /\ w[r] \in Int /\ v[r] \in Int /\ w[r] <= v[r]
      BY <1>0, UpToIs DEF Quantities
    <2>4. UpTo(w)[r - 1] <= UpTo(v)[r - 1] BY <1>2
    <2> QED BY <1>0, <2>2, <2>3, <2>4
  <1>3. 0 .. NumRelays \subseteq T BY <1>1, <1>2, Positions
  <1> QED BY <1>3, PoolSize DEF Total

LEMMA TotalScales ==
  ASSUME NEW w \in Quantities, NEW k \in Int, NEW x \in Quantities,
         \A r \in Relays : x[r] = k * w[r]
  PROVE  Total(x) = k * Total(w)
  <1> DEFINE T == {r \in 0 .. NumRelays : UpTo(x)[r] = k * UpTo(w)[r]}
  <1>0. \A r \in Relays : r \in 0 .. NumRelays /\ r - 1 \in 0 .. NumRelays BY PoolSize
  <1>1. 0 \in T BY UpToIs, PoolSize
  <1>a. \A i, j, l \in Int : l * (i + j) = l * i + l * j OBVIOUS
  <1>2. ASSUME NEW r \in Relays, r - 1 \in T PROVE r \in T
    <2>1. UpTo(x)[r] = UpTo(x)[r - 1] + k * w[r] BY UpToIs
    <2>2. UpTo(w)[r] = UpTo(w)[r - 1] + w[r] BY UpToIs
    <2>3. UpTo(w)[r - 1] \in Int /\ w[r] \in Int BY <1>0, UpToIs DEF Quantities
    <2>4. UpTo(x)[r - 1] = k * UpTo(w)[r - 1] BY <1>2
    <2>5. k * (UpTo(w)[r - 1] + w[r]) = k * UpTo(w)[r - 1] + k * w[r] BY <1>a, <2>3
    <2> QED BY <1>0, <2>1, <2>2, <2>4, <2>5
  <1>3. 0 .. NumRelays \subseteq T BY <1>1, <1>2, Positions
  <1> QED BY <1>3, PoolSize DEF Total

LEMMA TotalOfOne ==
  ASSUME NEW w \in Quantities, NEW b \in Relays, \A r \in Relays \ {b} : w[r] = 0
  PROVE  Total(w) = w[b]
  <1> DEFINE T == {r \in 0 .. NumRelays : UpTo(w)[r] = IF r < b THEN 0 ELSE w[b]}
  <1>0. /\ \A r \in Relays : r \in 0 .. NumRelays /\ r - 1 \in 0 .. NumRelays /\ r \in Int
        /\ w[b] \in Int /\ b \in Nat /\ 0 < b /\ b <= NumRelays
    BY PoolSize DEF Quantities
  <1>1. 0 \in T BY <1>0, UpToIs, PoolSize
  <1>2. ASSUME NEW r \in Relays, r - 1 \in T PROVE r \in T
    <2>1. UpTo(w)[r] = UpTo(w)[r - 1] + w[r] BY UpToIs
    <2>2. UpTo(w)[r - 1] = IF r - 1 < b THEN 0 ELSE w[b] BY <1>2
    <2>3. CASE r = b BY <1>0, <2>1, <2>2, <2>3
    <2>4. CASE r # b BY <1>0, <2>1, <2>2, <2>4
    <2> QED BY <2>3, <2>4
  <1>3. 0 .. NumRelays \subseteq T BY <1>1, <1>2, Positions
  <1> QED BY <1>0, <1>3, PoolSize DEF Total

-----------------------------------------------------------------------------
(* The picks.                                                              *)

\* The first of the least exists.
LEMMA LeastIsOne ==
  ASSUME NEW cands \in SUBSET Relays, cands # {}, NEW rank, \A c \in cands : rank[c] \in Int
  PROVE  /\ Least(cands, rank) \in cands
         /\ \A c \in cands : rank[Least(cands, rank)] <= rank[c]
  <1> DEFINE Best(n) == \E r \in cands : r <= n /\ \A c \in cands :
                          c <= n => rank[r] < rank[c] \/ (rank[r] = rank[c] /\ r <= c)
             T == {n \in 0 .. NumRelays : (\A c \in cands : c > n) \/ Best(n)}
  <1>0. \A r \in Relays : r \in Nat /\ r > 0 /\ r <= NumRelays /\ r \in 0 .. NumRelays BY PoolSize
  <1>1. 0 \in T BY <1>0, PoolSize
  <1>2. ASSUME NEW n \in Relays, n - 1 \in T PROVE n \in T
    <2>1. \A c \in cands : c <= n /\ c # n => c <= n - 1 BY <1>0
    <2>2. CASE n \notin cands
      <3>1. CASE \A c \in cands : c > n - 1 BY <1>0, <2>2, <3>1
      <3>2. CASE Best(n - 1)
        <4>1. PICK r \in cands : r <= n - 1 /\ \A c \in cands :
                c <= n - 1 => rank[r] < rank[c] \/ (rank[r] = rank[c] /\ r <= c)
          BY <3>2
        <4>2. r <= n BY <1>0, <4>1
        <4>3. Best(n) BY <2>1, <2>2, <4>1, <4>2
        <4> QED BY <1>0, <4>3
      <3> QED BY <1>2, <3>1, <3>2
    <2>3. CASE n \in cands
      <3>1. CASE \A c \in cands : c > n - 1
        <4>1. \A c \in cands : c <= n => c = n BY <1>0, <3>1
        <4>2. n <= n BY <1>0
        <4>3. Best(n) BY <2>3, <4>1, <4>2
        <4> QED BY <1>0, <4>3
      <3>2. CASE Best(n - 1)
        <4>1. PICK r \in cands : r <= n - 1 /\ \A c \in cands :
                c <= n - 1 => rank[r] < rank[c] \/ (rank[r] = rank[c] /\ r <= c)
          BY <3>2
        <4>2. r <= n /\ n <= n BY <1>0, <4>1
        <4>3. CASE rank[n] < rank[r]
          <5>1. \A c \in cands : c <= n => rank[n] < rank[c] \/ (rank[n] = rank[c] /\ n <= c)
            <6> SUFFICES ASSUME NEW c \in cands, c <= n, c # n PROVE rank[n] < rank[c]
              BY <4>2
            <6>1. rank[r] < rank[c] \/ rank[r] = rank[c] BY <2>1, <4>1
            <6>2. rank[r] \in Int /\ rank[c] \in Int /\ rank[n] \in Int BY <2>3
            <6> QED BY <4>3, <6>1, <6>2
          <5>2. Best(n) BY <2>3, <4>2, <5>1
          <5> QED BY <1>0, <5>2
        <4>4. CASE ~(rank[n] < rank[r])
          <5>1. rank[r] < rank[n] \/ (rank[r] = rank[n] /\ r <= n) BY <2>3, <4>2, <4>4
          <5>2. \A c \in cands : c <= n => rank[r] < rank[c] \/ (rank[r] = rank[c] /\ r <= c)
            BY <2>1, <4>1, <5>1
          <5>3. Best(n) BY <4>2, <5>2
          <5> QED BY <1>0, <5>3
        <4> QED BY <4>3, <4>4
      <3> QED BY <1>2, <3>1, <3>2
    <2> QED BY <2>2, <2>3
  <1> HIDE DEF T
  <1>3. 0 .. NumRelays \subseteq T BY <1>1, <1>2, Positions
  <1>4. NumRelays \in T BY <1>3, PoolSize
  <1>5. Best(NumRelays)
    <2>3. PICK c \in cands : TRUE OBVIOUS
    <2>4. c \in Nat /\ c <= NumRelays /\ NumRelays \in Nat BY <1>0, PoolSize
    <2>1. ~(c > NumRelays) BY <2>4
    <2>2. (\A d \in cands : d > NumRelays) \/ Best(NumRelays) BY <1>4 DEF T
    <2> HIDE DEF Best
    <2> QED BY <2>1, <2>2
  <1>6. \E r \in cands : \A c \in cands : rank[r] < rank[c] \/ (rank[r] = rank[c] /\ r <= c)
    BY <1>0, <1>5
  <1>7. /\ Least(cands, rank) \in cands
        /\ \A c \in cands : \/ rank[Least(cands, rank)] < rank[c]
                            \/ rank[Least(cands, rank)] = rank[c] /\ Least(cands, rank) <= c
    BY <1>6, Zenon DEF Least
  <1> QED BY <1>7

LEMMA AtIndexIsOne ==
  ASSUME NEW cands \in SUBSET Relays, NEW k \in Nat, k < Cardinality(cands)
  PROVE  AtIndex(cands, k) \in cands
  <1> DEFINE Before(n) == {c \in cands : c <= n}
             T == {n \in 0 .. NumRelays : Cardinality(Before(n)) <= k}
  <1>0. /\ \A r \in Relays : r \in Nat /\ r > 0 /\ r <= NumRelays /\ r \in 0 .. NumRelays
        /\ 0 \in 0 .. NumRelays /\ NumRelays \in 0 .. NumRelays
    BY PoolSize
  <1>f. \A n \in 0 .. NumRelays : IsFiniteSet(Before(n)) /\ Cardinality(Before(n)) \in Nat
    <2> TAKE n \in 0 .. NumRelays
    <2>1. IsFiniteSet(Relays) BY FS_Interval, PoolSize
    <2>2. Before(n) \in SUBSET Relays OBVIOUS
    <2> QED BY <2>1, <2>2, FS_Subset, FS_CardinalityType
  <1> SUFFICES ASSUME \A r \in cands : Cardinality({c \in cands : c < r}) # k PROVE FALSE
    BY Zenon DEF AtIndex
  <1>1. 0 \in T
    <2>1. Before(0) = {} BY <1>0
    <2> QED BY <1>0, <2>1, FS_EmptySet
  <1>2. ASSUME NEW n \in Relays, n - 1 \in T PROVE n \in T
    <2>1. n - 1 \in 0 .. NumRelays /\ Cardinality(Before(n - 1)) <= k BY <1>2
    <2>2. CASE n \notin cands
      <3>1. Before(n) = Before(n - 1) BY <1>0, <2>2
      <3> QED BY <1>0, <2>1, <3>1
    <2>3. CASE n \in cands
      <3>1. Before(n) = Before(n - 1) \cup {n} /\ n \notin Before(n - 1) BY <1>0, <2>3
      <3>2. Before(n - 1) = {c \in cands : c < n} BY <1>0
      <3>3. Cardinality(Before(n - 1)) # k BY <2>3, <3>2
      <3> HIDE DEF Before
      <3>4. Cardinality(Before(n)) = Cardinality(Before(n - 1)) + 1 BY <1>f, <2>1, <3>1, FS_AddElement
      <3>5. Cardinality(Before(n)) <= k BY <1>f, <2>1, <3>3, <3>4
      <3> QED BY <1>0, <3>5
    <2> QED BY <2>2, <2>3
  <1>3. 0 .. NumRelays \subseteq T
    <2> HIDE DEF T
    <2> QED BY <1>1, <1>2, Positions
  <1>4. Before(NumRelays) = cands BY <1>0
  <1> QED BY <1>0, <1>3, <1>4, <1>f

LEMMA SharesTyped ==
  ASSUME NEW S
  PROVE  /\ SharesIn(S) \in Quantities
         /\ \A r \in Relays : Share(r) \in Nat /\ Share(r) >= 1
         /\ \A r \in Relays : SharesIn(S)[r] = IF r \in S THEN Share(r) ELSE 0
  BY SelectorAssumption DEF SharesIn, Share, Quantities

\* The candidates' weights laid end to end do not overlap.
LEMMA SharesOrdered ==
  ASSUME NEW S, NEW i \in 0 .. NumRelays, NEW j \in 0 .. NumRelays, i <= j
  PROVE  UpTo(SharesIn(S))[i] <= UpTo(SharesIn(S))[j]
  <1> DEFINE u == UpTo(SharesIn(S))
             T == {n \in 0 .. NumRelays : i <= n => u[i] <= u[n]}
  <1>0. /\ \A r \in Relays : u[r] = u[r - 1] + SharesIn(S)[r] /\ SharesIn(S)[r] \in Nat
        /\ \A r \in 0 .. NumRelays : u[r] \in Int
    BY UpToIs, SharesTyped
  <1>z. \A r \in Relays : r \in Nat /\ r \in 0 .. NumRelays /\ r - 1 \in 0 .. NumRelays BY PoolSize
  <1> HIDE DEF u
  <1>1. 0 \in T BY <1>0, PoolSize
  <1>2. ASSUME NEW r \in Relays, r - 1 \in T PROVE r \in T
    <2>1. CASE i <= r - 1 BY <1>0, <1>2, <1>z, <2>1
    <2>2. CASE i = r BY <1>0, <1>z, <2>2
    <2>3. CASE i > r BY <1>0, <1>z, <2>3
    <2> QED BY <1>z, <2>1, <2>2, <2>3
  <1>3. 0 .. NumRelays \subseteq T
    <2> HIDE DEF T
    <2> QED BY <1>1, <1>2, Positions
  <1> QED BY <1>3 DEF u

\* Where a target falls there is one candidate.
LEMMA OneAtTarget ==
  ASSUME NEW cands \in SUBSET Relays, NEW t \in Nat, t < SharesOf(cands)
  PROVE  \E r \in cands : UpTo(SharesIn(cands))[r - 1] <= t /\ t < UpTo(SharesIn(cands))[r]
  <1> DEFINE u == UpTo(SharesIn(cands))
             T == {n \in 0 .. NumRelays : u[n] <= t}
  <1>0. /\ \A r \in Relays : u[r] = u[r - 1] + SharesIn(cands)[r]
        /\ \A r \in 0 .. NumRelays : u[r] \in Int
        /\ u[0] = 0 /\ t < u[NumRelays]
    BY UpToIs, SharesTyped DEF SharesOf, Total
  <1>z. \A r \in Relays : r \in 0 .. NumRelays /\ r - 1 \in 0 .. NumRelays BY PoolSize
  <1> SUFFICES ASSUME ~\E r \in cands : u[r - 1] <= t /\ t < u[r] PROVE FALSE
    OBVIOUS
  <1> HIDE DEF u
  <1>1. 0 \in T BY <1>0, PoolSize
  <1>2. ASSUME NEW r \in Relays, r - 1 \in T PROVE r \in T
    <2>1. CASE r \in cands BY <1>0, <1>2, <1>z, <2>1
    <2>2. CASE r \notin cands
      <3>1. SharesIn(cands)[r] = 0 BY <2>2, SharesTyped
      <3> QED BY <1>0, <1>2, <1>z, <3>1
    <2> QED BY <2>1, <2>2
  <1>3. 0 .. NumRelays \subseteq T
    <2> HIDE DEF T
    <2> QED BY <1>1, <1>2, Positions
  <1>4. u[NumRelays] <= t /\ u[NumRelays] \in Int BY <1>0, <1>3, PoolSize
  <1> QED BY <1>0, <1>4

LEMMA SharesPositive ==
  ASSUME NEW cands \in SUBSET Relays, cands # {}
  PROVE  SharesOf(cands) \in Nat /\ SharesOf(cands) > 0
  <1>1. PICK r \in cands : TRUE OBVIOUS
  <1> DEFINE u == UpTo(SharesIn(cands))
  <1>2. /\ u[0] = 0 /\ u[NumRelays] = SharesOf(cands) /\ u[r] = u[r - 1] + Share(r)
        /\ u[r - 1] \in Int /\ u[NumRelays] \in Int /\ u[r] \in Int /\ Share(r) >= 1 /\ Share(r) \in Nat
    <2>1. r \in 0 .. NumRelays /\ r - 1 \in 0 .. NumRelays /\ NumRelays \in 0 .. NumRelays BY PoolSize
    <2> QED BY <2>1, UpToIs, SharesTyped DEF SharesOf, Total
  <1>3. u[0] <= u[r - 1] /\ u[r] <= u[NumRelays] BY SharesOrdered, PoolSize
  <1> HIDE DEF u
  <1> QED BY <1>2, <1>3

\* A hash picks the one candidate in whose range it falls.
LEMMA PickIsOne ==
  ASSUME NEW cands \in SUBSET Relays, cands # {}, NEW hash \in Nat
  PROVE  /\ WeightedPickByHash(cands, hash) \in cands
         /\ \A r \in cands : WeightedPickByHash(cands, hash) = r <=>
              /\ UpTo(SharesIn(cands))[r - 1] <= hash % SharesOf(cands)
              /\ hash % SharesOf(cands) < UpTo(SharesIn(cands))[r]
  <1> DEFINE u == UpTo(SharesIn(cands))
             t == hash % SharesOf(cands)
             Falls(r) == u[r - 1] <= t /\ t < u[r]
  <1>1. t \in Nat /\ t < SharesOf(cands)
    <2>1. \A h, n \in Nat : n > 0 => h % n \in Nat /\ h % n < n OBVIOUS
    <2> QED BY <2>1, SharesPositive
  <1> HIDE DEF t
  <1>2. \E r \in cands : Falls(r) BY <1>1, OneAtTarget
  <1>3. ASSUME NEW r \in cands, NEW q \in cands, Falls(r), Falls(q), r < q PROVE FALSE
    <2>1. r \in 0 .. NumRelays /\ q - 1 \in 0 .. NumRelays /\ r <= q - 1 BY <1>3, PoolSize
    <2>2. u[r] <= u[q - 1] /\ u[r] \in Int /\ u[q - 1] \in Int BY <2>1, SharesOrdered, SharesTyped, UpToIs
    <2> HIDE DEF u
    <2> QED BY <1>1, <1>3, <2>2
  <1>4. \A r, q \in cands : Falls(r) /\ Falls(q) => r = q
    <2>1. \A r, q \in cands : r \in Nat /\ q \in Nat BY PoolSize
    <2>2. \A m, n \in Nat : m < n \/ n < m \/ m = n OBVIOUS
    <2> HIDE DEF Falls
    <2> QED BY <1>3, <2>1, <2>2
  <1>5. WeightedPickByHash(cands, hash) = CHOOSE r \in cands : Falls(r)
    BY DEF WeightedPickByHash, t
  <1> HIDE DEF Falls
  <1>6. (CHOOSE r \in cands : Falls(r)) \in cands /\ Falls(CHOOSE r \in cands : Falls(r))
    BY <1>2, Zenon
  <1>7. \A r \in cands : WeightedPickByHash(cands, hash) = r <=> Falls(r)
    BY <1>4, <1>5, <1>6
  <1> QED BY <1>5, <1>6, <1>7 DEF Falls, t

-----------------------------------------------------------------------------
(* The types, and the routing.                                             *)

Types ==
  /\ routing \in Routings /\ cursor \in Nat /\ smooth \in Quantities
  /\ last.first \subseteq Relays /\ last.second \subseteq Relays

LEMMA CandidatesOpen ==
  ASSUME NEW req, NEW first \in SUBSET Relays, NEW second \in SUBSET Relays
  PROVE  Candidates(req, first, second) \subseteq Relays
  BY DEF Candidates, OrElse, InGeneralPool

\* The relays that may carry the message of a reading.
Usable(req, first, second) ==
  IF BoundTo[req] # {} THEN BoundTo[req] \cap first
  ELSE OrElse(InGeneralPool \cap first, second)

LEMMA CandidatesUsable ==
  ASSUME NEW req, NEW first, NEW second
  PROVE  /\ Candidates(req, first, second) \subseteq Usable(req, first, second)
         /\ Candidates(req, first, second) = {} => Usable(req, first, second) = {}
  BY DEF Candidates, Usable, OrElse

\* The relay that pays is a candidate none of which has been raised higher.
LEMMA ForemostIsMost ==
  ASSUME Types, NEW cands \in SUBSET Relays, cands # {}
  PROVE  /\ Raised(cands) \in Quantities
         /\ Foremost(cands) \in cands
         /\ \A c \in cands : Raised(cands)[c] <= Raised(cands)[Foremost(cands)]
  <1> DEFINE up == Raised(cands)
             rank == [r \in cands |-> -up[r]]
  <1>1. up \in Quantities BY SharesTyped DEF Raised, Types, Quantities
  <1>2. Foremost(cands) = Least(cands, rank) BY DEF Foremost
  <1> HIDE DEF up
  <1>3. \A c \in cands : up[c] \in Int /\ rank[c] = -up[c] BY <1>1 DEF Quantities
  <1>4. \A c \in cands : rank[c] \in Int BY <1>3
  <1> HIDE DEF rank
  <1>5. Foremost(cands) \in cands /\ \A c \in cands : rank[Foremost(cands)] <= rank[c]
    BY <1>2, <1>4, LeastIsOne
  <1>6. ASSUME NEW c \in cands PROVE up[c] <= up[Foremost(cands)]
    <2>1. rank[Foremost(cands)] <= rank[c] BY <1>5
    <2> QED BY <1>3, <1>5, <2>1
  <1> QED BY <1>1, <1>5, <1>6 DEF up

\* What a strategy picks is a candidate.
LEMMA StrategyPicks ==
  ASSUME Types, NEW cands \in SUBSET Relays, cands # {}, NEW load \in Loads
  PROVE  ByStrategy(cands, load) \in cands
  <1>1. routing.strategy \in {"round_robin", "weighted", "least_used", "failover"}
    BY SelectorAssumption DEF Types
  <1>2. AtIndex(cands, cursor % Cardinality(cands)) \in cands
    <2>1. IsFiniteSet(Relays) BY FS_Interval, PoolSize
    <2>2. IsFiniteSet(cands) BY <2>1, FS_Subset
    <2>3. Cardinality(cands) \in Nat /\ Cardinality(cands) # 0 BY <2>2, FS_CardinalityType, FS_EmptySet
    <2>4. \A m, n \in Nat : n # 0 => m % n \in Nat /\ m % n < n OBVIOUS
    <2> QED BY <2>3, <2>4, AtIndexIsOne DEF Types
  <1>3. Foremost(cands) \in cands BY ForemostIsMost
  <1>4. Least(cands, load) \in cands
    <2>1. \A c \in cands : load[c] \in Int BY DEF Loads
    <2> QED BY <2>1, LeastIsOne
  <1>5. Least(cands, Priority) \in cands
    <2>1. \A c \in cands : Priority[c] \in Int BY SelectorAssumption
    <2> QED BY <2>1, LeastIsOne
  <1> QED BY <1>1, <1>2, <1>3, <1>4, <1>5 DEF ByStrategy

LEMMA TypesInit == Init => Types
  BY DEF Init, Types, Quantities

\* A step of Next is a selection for a reading of the relays.
LEMMA Selects ==
  ASSUME Next
  PROVE  \E req \in Requests, first \in SUBSET Relays, second \in SUBSET Relays :
           Select([req |-> req, first |-> first, second |-> second], Candidates(req, first, second))
  <1>1. PICK req \in Requests, first \in SUBSET Relays : \E second \in SecondReadings(req, first) :
          Select([req |-> req, first |-> first, second |-> second], Candidates(req, first, second))
    BY DEF Next
  <1>2. SecondReadings(req, first) \subseteq SUBSET Relays BY DEF SecondReadings
  <1> QED BY <1>1, <1>2

\* What the stages do to the routing state.
LEMMA SelectMoves ==
  ASSUME Types, NEW req \in Requests, NEW first \in SUBSET Relays, NEW second \in SUBSET Relays,
         NEW cands, cands = Candidates(req, first, second),
         Select([req |-> req, first |-> first, second |-> second], cands)
  PROVE  /\ routing' = routing /\ cursor' \in Nat
         /\ smooth' = smooth \/ (cands # {} /\ SmoothWeightedPick(cands))
         /\ last'.req = req /\ last'.first = first /\ last'.second = second
         /\ last'.relay \in cands \/ (last'.relay = 0 /\ NoRoute(req, cands))
  <1>p. PICK reading : reading = [req |-> req, first |-> first, second |-> second]
    OBVIOUS
  <1>r. reading.req = req /\ reading.first = first /\ reading.second = second BY <1>p
  <1>c. cands \subseteq Relays BY CandidatesOpen
  <1>0. ASSUME NEW r, Chose(reading, r)
        PROVE  last'.req = req /\ last'.first = first /\ last'.second = second /\ last'.relay = r
    BY <1>0, <1>r DEF Chose
  <1>1. CASE Refuse(reading, cands)
    BY <1>0, <1>1, <1>r DEF Refuse, Types
  <1>2. CASE OnlyOne(reading, cands)
    BY <1>0, <1>2, <1>r DEF OnlyOne, Types
  <1>3. CASE Override(reading, cands)
    <2>1. PICK i \in Restricted(req, cands) : Chose(reading, Named(req)[i])
      BY <1>3, <1>r DEF Override
    <2>2. Named(req)[i] \in cands BY DEF Restricted
    <2> QED BY <1>0, <1>3, <2>1, <2>2 DEF Override, Types
  <1>4. CASE Sticky(reading, cands)
    <2>1. cands # {} /\ StickyKey(req) # <<>> BY <1>4, <1>r DEF Sticky, Open, NoRoute, Sticks
    <2>2. Hash[StickyKey(req)] \in Nat
      <3>1. StickyKey(req) \in {<<>>, req.sender, req.domain} BY SelectorAssumption DEF StickyKey, Types
      <3> QED BY <2>1, <3>1, SelectorAssumption
    <2>3. WeightedPickByHash(cands, Hash[StickyKey(req)]) \in cands BY <1>c, <2>1, <2>2, PickIsOne
    <2>4. Chose(reading, WeightedPickByHash(cands, Hash[StickyKey(req)])) BY <1>4, <1>r DEF Sticky
    <2>5. UNCHANGED <<routing, cursor, smooth>> BY <1>4 DEF Sticky
    <2> QED BY <1>0, <2>3, <2>4, <2>5 DEF Types
  <1>5. CASE \E load \in Loads : Strategy(reading, cands, load)
    <2>1. PICK load \in Loads : Strategy(reading, cands, load) BY <1>5
    <2>2. cands # {} BY <2>1, <1>r DEF Strategy, Open, NoRoute
    <2>3. ByStrategy(cands, load) \in cands BY <1>c, <2>2, StrategyPicks
    <2>4. Chose(reading, ByStrategy(cands, load)) BY <2>1 DEF Strategy
    <2>5. cursor' \in Nat
      <3>1. \A m \in Nat, n \in Nat \ {0} : (m + 1) % n \in Nat OBVIOUS
      <3> QED BY <2>1, <3>1, SelectorAssumption DEF Strategy, Types
    <2>6. routing' = routing /\ (smooth' = smooth \/ SmoothWeightedPick(cands)) BY <2>1 DEF Strategy
    <2> QED BY <1>0, <2>2, <2>3, <2>4, <2>5, <2>6
  <1> QED BY <1>1, <1>2, <1>3, <1>4, <1>5, <1>p DEF Select

LEMMA PickTypes ==
  ASSUME Types, NEW cands \in SUBSET Relays, cands # {}, SmoothWeightedPick(cands)
  PROVE  smooth' \in Quantities
  <1>b. PICK b, up, n : b = Foremost(cands) /\ up = Raised(cands) /\ n = SharesOf(cands)
    OBVIOUS
  <1>1. up \in Quantities /\ b \in Relays BY <1>b, ForemostIsMost
  <1>2. n \in Int BY <1>b, SharesTyped, TotalIs DEF SharesOf
  <1>3. smooth' = [up EXCEPT ![b] = @ - n] BY <1>b DEF SmoothWeightedPick
  <1> QED BY <1>1, <1>2, <1>3 DEF Quantities

LEMMA TypesInductive == Types /\ [Next]_vars => Types'
  <1> SUFFICES ASSUME Types, [Next]_vars PROVE Types'
    OBVIOUS
  <1>1. CASE Next
    <2>1. PICK req \in Requests, first \in SUBSET Relays, second \in SUBSET Relays :
            Select([req |-> req, first |-> first, second |-> second], Candidates(req, first, second))
      BY <1>1, Selects
    <2>c. PICK cands : cands = Candidates(req, first, second) OBVIOUS
    <2>2. /\ routing' = routing /\ cursor' \in Nat
          /\ smooth' = smooth \/ (cands # {} /\ SmoothWeightedPick(cands))
          /\ last'.first = first /\ last'.second = second
      BY <2>1, <2>c, SelectMoves
    <2>3. smooth' \in Quantities BY <2>2, <2>c, CandidatesOpen, PickTypes DEF Types
    <2> QED BY <2>2, <2>3 DEF Types
  <1>2. CASE UNCHANGED vars BY <1>2 DEF vars, Types
  <1> QED BY <1>1, <1>2

\* The relay chosen is one the message may use, whichever stage chose it, and general
\* mail leaves the general pool only when none of the pool is open; a message is
\* refused with a relay open to it only by an override without fallback (select,
\* relay/selector.rs).
THEOREM MailIsRoutedWell == Spec => []RoutedWell
  <1>1. Init => RoutedWell
    BY DEF Init, RoutedWell, OrElse
  <1>2. Types /\ RoutedWell /\ [Next]_vars => RoutedWell'
    <2> SUFFICES ASSUME Types, RoutedWell, [Next]_vars PROVE RoutedWell'
      OBVIOUS
    <2>1. CASE Next
      <3>1. PICK req \in Requests, first \in SUBSET Relays, second \in SUBSET Relays :
              /\ Select([req |-> req, first |-> first, second |-> second], Candidates(req, first, second))
        BY <2>1, Selects
      <3>c. PICK cands : cands = Candidates(req, first, second) OBVIOUS
      <3>2. /\ routing' = routing
            /\ last'.req = req /\ last'.first = first /\ last'.second = second
            /\ last'.relay \in cands \/ (last'.relay = 0 /\ NoRoute(req, cands))
        BY <3>1, <3>c, SelectMoves
      <3>3. 0 \notin cands BY <3>c, CandidatesOpen, PoolSize
      <3>4. last'.relay # 0 => last'.relay \in Usable(req, first, second)
        BY <3>2, <3>c, CandidatesUsable
      <3>5. last'.relay = 0 /\ Usable(req, first, second) # {} => Overridden(req) /\ ~routing.fallback
        BY <3>2, <3>3, <3>c, CandidatesUsable DEF NoRoute
      <3>6. last'.relay # 0 /\ BoundTo[req] = {} /\ last'.relay \notin InGeneralPool
              => InGeneralPool \cap first = {}
        BY <3>4 DEF Usable, OrElse
      <3> QED BY <3>2, <3>4, <3>5, <3>6 DEF RoutedWell, Usable
    <2>2. CASE UNCHANGED vars BY <2>2 DEF vars, RoutedWell
    <2> QED BY <2>1, <2>2
  <1> QED BY <1>1, <1>2, TypesInit, TypesInductive, PTL DEF Spec

-----------------------------------------------------------------------------
(* Sticky routing.                                                         *)

LEMMA PicksOfOne ==
  ASSUME NEW cands \in SUBSET Relays, NEW r \in cands
  PROVE  Cardinality({h \in 0 .. SharesOf(cands) - 1 : WeightedPickByHash(cands, h) = r}) = Share(r)
  <1> DEFINE u == UpTo(SharesIn(cands))
             all == SharesOf(cands)
  <1>1. all \in Nat /\ all > 0 BY SharesPositive
  <1>2. /\ u[0] = 0 /\ u[NumRelays] = all /\ u[r] = u[r - 1] + Share(r)
        /\ u[r - 1] \in Int /\ u[r] \in Int /\ Share(r) \in Nat /\ Share(r) >= 1
    <2>1. r \in 0 .. NumRelays /\ r - 1 \in 0 .. NumRelays /\ NumRelays \in 0 .. NumRelays BY PoolSize
    <2> QED BY <2>1, UpToIs, SharesTyped DEF SharesOf, Total
  <1>3. u[0] <= u[r - 1] /\ u[r] <= u[NumRelays] BY SharesOrdered, PoolSize
  <1>4. \A h \in 0 .. all - 1 : WeightedPickByHash(cands, h) = r <=> u[r - 1] <= h /\ h < u[r]
    <2> TAKE h \in 0 .. all - 1
    <2>1. h \in Nat /\ h < all BY <1>1
    <2>2. \A m, n \in Nat : m < n => m % n = m OBVIOUS
    <2>3. h % all = h BY <1>1, <2>1, <2>2
    <2>4. WeightedPickByHash(cands, h) = r <=> u[r - 1] <= h % all /\ h % all < u[r]
      BY <2>1, PickIsOne
    <2> QED BY <2>3, <2>4
  <1> HIDE DEF u, all
  <1>5. {h \in 0 .. all - 1 : WeightedPickByHash(cands, h) = r} = u[r - 1] .. (u[r] - 1)
    <2>1. \A h : h \in u[r - 1] .. (u[r] - 1) <=> h \in 0 .. all - 1 /\ u[r - 1] <= h /\ h < u[r]
      BY <1>1, <1>2, <1>3
    <2> QED BY <1>4, <2>1
  <1>6. Cardinality(u[r - 1] .. (u[r] - 1)) = Share(r)
    <2>1. u[r - 1] \in Int /\ u[r] - 1 \in Int /\ ~(u[r - 1] > u[r] - 1) BY <1>2
    <2>2. (u[r] - 1) - u[r - 1] + 1 = Share(r) BY <1>2
    <2> QED BY <2>1, <2>2, FS_Interval
  <1> QED BY <1>5, <1>6 DEF all

\* Of the values a hash can take modulo the candidates' weights, each candidate gets
\* as many as its weight, a weight of zero counting as one, whatever relays are open
\* (weighted_pick_by_hash, relay/selector.rs).
THEOREM StickyKeepsTheSplit == Spec => []StickyShare
  <1>1. Types => StickyShare
    BY PicksOfOne, CandidatesOpen DEF Types, StickyShare
  <1> QED BY <1>1, TypesInit, TypesInductive, PTL DEF Spec

-----------------------------------------------------------------------------
(* Debts: sums over sets of relays.                                        *)

Part(w, S) == [r \in Relays |-> IF r \in S THEN w[r] ELSE 0]
SumOver(w, S) == Total(Part(w, S))
Ones == [r \in Relays |-> 1]
Size(S) == SumOver(Ones, S)

LEMMA SumTyped ==
  ASSUME NEW w \in Quantities, NEW S
  PROVE  /\ Part(w, S) \in Quantities /\ SumOver(w, S) \in Int
         /\ Ones \in Quantities /\ Size(S) \in Int
         /\ \A r \in Relays : Part(w, S)[r] = IF r \in S THEN w[r] ELSE 0
  <1>1. Part(w, S) \in Quantities /\ Ones \in Quantities /\ Part(Ones, S) \in Quantities
    BY DEF Part, Quantities, Ones
  <1>2. SumOver(w, S) \in Int /\ Size(S) \in Int BY <1>1, TotalIs DEF SumOver, Size
  <1> QED BY <1>1, <1>2 DEF Part

LEMMA SumSplits ==
  ASSUME NEW w \in Quantities, NEW A, NEW B, A \cap B = {}
  PROVE  SumOver(w, A \cup B) = SumOver(w, A) + SumOver(w, B)
  <1>1. \A S : Part(w, S) \in Quantities BY SumTyped
  <1>2. \A r \in Relays : Part(w, A \cup B)[r] = Part(w, A)[r] + Part(w, B)[r]
    BY DEF Part, Quantities
  <1> QED BY <1>1, <1>2, TotalAdds DEF SumOver

LEMMA SizeSplits ==
  ASSUME NEW A, NEW B, A \cap B = {}
  PROVE  Size(A \cup B) = Size(A) + Size(B)
  <1>1. Ones \in Quantities BY DEF Ones, Quantities
  <1> QED BY <1>1, SumSplits DEF Size

LEMMA SumOfOne ==
  ASSUME NEW w \in Quantities, NEW b \in Relays
  PROVE  SumOver(w, {b}) = w[b] /\ Size({b}) = 1
  <1>1. \A v \in Quantities : SumOver(v, {b}) = v[b]
    <2> TAKE v \in Quantities
    <2>1. Part(v, {b}) \in Quantities BY SumTyped
    <2>2. Part(v, {b})[b] = v[b] /\ \A r \in Relays \ {b} : Part(v, {b})[r] = 0 BY DEF Part
    <2> QED BY <2>1, <2>2, TotalOfOne DEF SumOver
  <1>2. Ones \in Quantities /\ Ones[b] = 1 BY DEF Ones, Quantities
  <1> QED BY <1>1, <1>2 DEF Size

LEMMA SizeOfAll == Size(Relays) = NumRelays
  <1>1. Part(Ones, Relays) = Ones /\ Ones \in Quantities BY DEF Part, Ones, Quantities
  <1> DEFINE T == {r \in 0 .. NumRelays : UpTo(Ones)[r] = r}
  <1>2. 0 \in T BY <1>1, UpToIs, PoolSize
  <1>3. ASSUME NEW r \in Relays, r - 1 \in T PROVE r \in T
    <2>1. UpTo(Ones)[r] = UpTo(Ones)[r - 1] + 1 BY <1>1, UpToIs DEF Ones
    <2>2. UpTo(Ones)[r - 1] = r - 1 BY <1>3
    <2>3. r \in 0 .. NumRelays /\ (r - 1) + 1 = r BY PoolSize
    <2> QED BY <2>1, <2>2, <2>3
  <1> HIDE DEF T
  <1>4. 0 .. NumRelays \subseteq T BY <1>2, <1>3, Positions
  <1>5. NumRelays \in T BY <1>4, PoolSize
  <1> QED BY <1>1, <1>5 DEF Size, SumOver, Total, T

LEMMA SumOfAll ==
  ASSUME NEW w \in Quantities
  PROVE  SumOver(w, Relays) = Total(w)
  <1>1. Part(w, Relays) = w BY DEF Part, Quantities
  <1> QED BY <1>1 DEF SumOver

LEMMA SumBounded ==
  ASSUME NEW w \in Quantities, NEW S, NEW k \in Int, \A r \in Relays : r \in S => w[r] <= k
  PROVE  SumOver(w, S) <= Size(S) * k
  <1> DEFINE most == [r \in Relays |-> k * Part(Ones, S)[r]]
  <1>1. Ones \in Quantities BY DEF Ones, Quantities
  <1>2. Part(w, S) \in Quantities /\ Part(Ones, S) \in Quantities /\ Size(S) \in Int BY <1>1, SumTyped
  <1>3. \A r \in Relays : Part(Ones, S)[r] = IF r \in S THEN 1 ELSE 0 BY DEF Part, Ones
  <1>4. \A r \in Relays : most[r] = IF r \in S THEN k ELSE 0
    <2>1. k * 1 = k /\ k * 0 = 0 OBVIOUS
    <2> QED BY <1>3, <2>1
  <1>5. most \in Quantities
    <2>1. \A r \in Relays : most[r] \in Int BY <1>4
    <2> QED BY <2>1 DEF Quantities
  <1>6. \A r \in Relays : most[r] = k * Part(Ones, S)[r] OBVIOUS
  <1>7. \A r \in Relays : Part(w, S)[r] <= most[r] BY <1>4 DEF Part
  <1> HIDE DEF most
  <1>8. Total(Part(w, S)) <= Total(most) BY <1>2, <1>5, <1>7, TotalGrows
  <1>9. Total(most) = k * Size(S) BY <1>2, <1>5, <1>6, TotalScales DEF Size, SumOver
  <1>10. \A i, j \in Int : i * j = j * i OBVIOUS
  <1>11. k * Size(S) = Size(S) * k BY <1>2, <1>10
  <1> QED BY <1>8, <1>9, <1>11 DEF SumOver

LEMMA SizeBounds ==
  ASSUME NEW S
  PROVE  Size(S) \in Int /\ 0 <= Size(S) /\ Size(S) <= NumRelays
  <1>1. Ones \in Quantities BY DEF Ones, Quantities
  <1>2. \A T : Part(Ones, T) \in Quantities /\ Size(T) \in Int BY <1>1, SumTyped
  <1>3. Total(Part(Ones, {})) = 0
    <2>1. 1 \in Relays /\ \A r \in Relays : Part(Ones, {})[r] = 0 BY PoolSize DEF Part
    <2> QED BY <1>2, <2>1, TotalOfOne
  <1>4. /\ \A r \in Relays : Part(Ones, {})[r] <= Part(Ones, S)[r]
        /\ \A r \in Relays : Part(Ones, S)[r] <= Part(Ones, Relays)[r]
    BY DEF Part, Ones
  <1>5. Total(Part(Ones, {})) <= Size(S) /\ Size(S) <= Size(Relays)
    BY <1>2, <1>4, TotalGrows DEF Size, SumOver
  <1> QED BY <1>2, <1>3, <1>5, SizeOfAll

LEMMA LargestIs ==
  /\ LargestShare \in Nat
  /\ \A r \in Relays : Share(r) <= LargestShare
  <1>s. \A r \in Relays : Share(r) \in Nat BY SharesTyped
  <1>p. \A r \in Relays : r \in Nat /\ r > 0 /\ r <= NumRelays /\ r \in 0 .. NumRelays /\ r - 1 \in 0 .. NumRelays
    BY PoolSize
  <1> DEFINE Most(n) == \E b \in Relays : \A r \in Relays : r <= n => Share(r) <= Share(b)
             T == {n \in 0 .. NumRelays : Most(n)}
  <1>1. 0 \in T
    <2>1. \A r \in Relays : ~(r <= 0) BY <1>p
    <2>2. 1 \in Relays /\ 0 \in 0 .. NumRelays BY PoolSize
    <2> QED BY <2>1, <2>2
  <1>2. ASSUME NEW n \in Relays, n - 1 \in T PROVE n \in T
    <2>1. PICK b \in Relays : \A r \in Relays : r <= n - 1 => Share(r) <= Share(b) BY <1>2
    <2>2. \A r \in Relays : r <= n => r <= n - 1 \/ r = n BY <1>p
    <2>3. CASE Share(n) <= Share(b)
      <3>1. Most(n) BY <2>1, <2>2, <2>3
      <3> QED BY <1>p, <3>1
    <2>4. CASE ~(Share(n) <= Share(b))
      <3>1. \A r \in Relays : r <= n => Share(r) <= Share(n) BY <1>s, <2>1, <2>2, <2>4
      <3> QED BY <1>p, <3>1
    <2> QED BY <2>3, <2>4
  <1>3. 0 .. NumRelays \subseteq T
    <2> HIDE DEF T
    <2> QED BY <1>1, <1>2, Positions
  <1>4. Most(NumRelays)
    <2>1. NumRelays \in 0 .. NumRelays BY PoolSize
    <2>2. NumRelays \in T BY <1>3, <2>1
    <2> QED BY <2>2
  <1>5. PICK b \in Relays : \A r \in Relays : Share(r) <= Share(b) BY <1>p, <1>4
  <1>6. \E n \in {Share(r) : r \in Relays} : \A r \in Relays : Share(r) <= n BY <1>5
  <1>7. /\ LargestShare \in {Share(r) : r \in Relays}
        /\ \A r \in Relays : Share(r) <= LargestShare
    BY <1>6, Zenon DEF LargestShare
  <1> QED BY <1>s, <1>7

\* No set of relays is owed more than each of them the largest share from each other
\* relay: the inductive form of DebtBounded.
Limit(S) == LargestShare * (Size(S) * (NumRelays - Size(S)))
DebtsSpread ==
  /\ Total(smooth) = 0
  /\ \A S \in SUBSET Relays : SumOver(smooth, S) <= Limit(S)

LEMMA SqueezeSum ==
  ASSUME NEW q \in Int, NEW s \in Int, NEW sa \in Int, NEW wa \in Int,
         NEW aq \in Int, NEW ad \in Int, NEW x \in Int, NEW sb \in Int, NEW aw \in Int,
         NEW ak \in Int, NEW z \in Int, NEW aak \in Int,
         x + sb <= (aq + ad) - ak, sa + wa <= sb + aw, aw <= ak, z <= aak, s - sa <= (q - ad) - aak
  PROVE  (x + s) + (z + wa) <= aq + q
  <1>1. x + sb + (s - sa) <= (aq + q) - (ak + aak) OBVIOUS
  <1>2. x + s + wa <= (aq + q) - (ak + aak) + aw BY <1>1
  <1>3. x + s + wa <= (aq + q) - aak BY <1>2
  <1> QED BY <1>3

\* The arithmetic of a pick that some of the set took part in and another won: of n
\* relays the set has m, and a took part; they were owed s and the winner b.
LEMMA Squeeze ==
  ASSUME NEW n \in Int, NEW m \in Int, NEW a \in Nat, NEW k \in Nat,
         NEW s \in Int, NEW sa \in Int, NEW sb \in Int, NEW wa \in Int, NEW wb \in Int,
         s + sb <= k * ((m + 1) * (n - (m + 1))),
         s - sa <= k * ((m - a) * (n - (m - a))),
         sa + wa <= a * (sb + wb),
         wa <= a * k, wb <= k
  PROVE  s + wa <= k * (m * (n - m))
  <1> DEFINE q == k * (m * (n - m))
             d == k * (n - 2 * m)
  <1>1. k * ((m + 1) * (n - (m + 1))) = q + d - k OBVIOUS
  <1>2. k * ((m - a) * (n - (m - a))) = (q - a * d) - a * (a * k) OBVIOUS
  <1>3. q \in Int /\ d \in Int OBVIOUS
  <1> HIDE DEF q, d
  <1>4. \A x, y \in Int : x <= y => a * x <= a * y OBVIOUS
  <1>5. \A x, y \in Int : a * (x + y) = a * x + a * y OBVIOUS
  <1>6. \A x, y \in Int : a * (x - y) = a * x - a * y OBVIOUS
  <1>7. \A x \in Int : a * x \in Int OBVIOUS
  <1>8. a * s + a * sb <= (a * q + a * d) - a * k
    <2>1. a * (s + sb) <= a * ((q + d) - k) BY <1>1, <1>3, <1>4
    <2>2. a * ((q + d) - k) = (a * q + a * d) - a * k BY <1>3, <1>5, <1>6
    <2>3. a * (s + sb) = a * s + a * sb BY <1>5
    <2> QED BY ONLY <2>1, <2>2, <2>3, Zenon
  <1>9. sa + wa <= a * sb + a * wb BY <1>5
  <1>10. a * wb <= a * k /\ a * wa <= a * (a * k) BY <1>4, <1>7
  <1>11. s - sa <= (q - a * d) - a * (a * k) BY <1>2
  <1>12. (a * s + s) + (a * wa + wa) <= a * q + q
    <2> DEFINE aq == a * q
               ad == a * d
               ax == a * s
               ab == a * sb
               aw == a * wb
               ak == a * k
               awa == a * wa
               aak == a * (a * k)
    <2>1. aq \in Int /\ ad \in Int /\ ax \in Int /\ ab \in Int /\ aw \in Int /\ ak \in Int
          /\ awa \in Int /\ aak \in Int
      BY <1>3, <1>7
    <2>2. /\ ax + ab <= (aq + ad) - ak /\ sa + wa <= ab + aw /\ aw <= ak /\ awa <= aak
          /\ s - sa <= (q - ad) - aak
      BY <1>8, <1>9, <1>10, <1>11
    <2> HIDE DEF aq, ad, ax, ab, aw, ak, awa, aak
    <2>3. (ax + s) + (awa + wa) <= aq + q BY <1>3, <2>1, <2>2, SqueezeSum
    <2> QED BY <2>3 DEF aq, ax, awa
  <1>13. a * (s + wa) + (s + wa) <= a * q + q
    <2>1. a * (s + wa) = a * s + a * wa BY <1>5
    <2> QED BY <1>3, <1>7, <1>12, <2>1
  <1>14. ASSUME ~(s + wa <= q) PROVE FALSE
    <2>1. q <= s + wa /\ q < s + wa BY <1>3, <1>14
    <2>2. a * q <= a * (s + wa) BY <1>3, <1>4, <2>1
    <2>3. a * q \in Int /\ a * (s + wa) \in Int BY <1>3, <1>7
    <2> QED BY <1>3, <1>13, <2>1, <2>2, <2>3
  <1> QED BY <1>14 DEF q

LEMMA SumAdds ==
  ASSUME NEW w \in Quantities, NEW v \in Quantities, NEW x \in Quantities, NEW S,
         \A r \in Relays : x[r] = w[r] + v[r]
  PROVE  SumOver(x, S) = SumOver(w, S) + SumOver(v, S)
  <1>1. Part(w, S) \in Quantities /\ Part(v, S) \in Quantities /\ Part(x, S) \in Quantities
    BY SumTyped
  <1>2. \A r \in Relays : Part(x, S)[r] = Part(w, S)[r] + Part(v, S)[r] BY DEF Part
  <1> QED BY <1>1, <1>2, TotalAdds DEF SumOver

\* What a pick does to what a set of relays is owed.
LEMMA PickPays ==
  ASSUME Types, NEW cands \in SUBSET Relays, cands # {}, SmoothWeightedPick(cands), NEW S
  PROVE  SumOver(smooth', S) = SumOver(smooth, S) + SumOver(SharesIn(cands), S)
                                 - (IF Foremost(cands) \in S THEN SharesOf(cands) ELSE 0)
  <1>b. PICK b, up, n : b = Foremost(cands) /\ up = Raised(cands) /\ n = SharesOf(cands)
    OBVIOUS
  <1>1. up \in Quantities /\ b \in Relays BY <1>b, ForemostIsMost
  <1>2. n \in Int BY <1>b, SharesTyped, TotalIs DEF SharesOf
  <1>3. smooth' = [up EXCEPT ![b] = @ - n] BY <1>b DEF SmoothWeightedPick
  <1>4. smooth' \in Quantities /\ smooth \in Quantities /\ SharesIn(cands) \in Quantities
    BY PickTypes, SharesTyped DEF Types
  <1> DEFINE paid == [r \in Relays |-> IF r = b THEN n ELSE 0]
  <1>5. paid \in Quantities BY <1>2 DEF Quantities
  <1>6. \A r \in Relays : up[r] = smooth'[r] + paid[r] BY <1>1, <1>2, <1>3 DEF Quantities
  <1>7. \A r \in Relays : up[r] = smooth[r] + SharesIn(cands)[r] BY <1>b DEF Raised
  <1>8. SumOver(paid, S) = IF b \in S THEN n ELSE 0
    <2>1. Part(paid, S) \in Quantities BY <1>5, SumTyped
    <2>2. \A r \in Relays \ {b} : Part(paid, S)[r] = 0 BY DEF Part
    <2>3. Part(paid, S)[b] = IF b \in S THEN n ELSE 0 BY <1>1 DEF Part
    <2> HIDE DEF paid
    <2> QED BY <1>1, <2>1, <2>2, <2>3, TotalOfOne DEF SumOver
  <1> HIDE DEF paid
  <1>9. SumOver(up, S) = SumOver(smooth', S) + SumOver(paid, S) BY <1>1, <1>4, <1>5, <1>6, SumAdds
  <1>10. SumOver(up, S) = SumOver(smooth, S) + SumOver(SharesIn(cands), S) BY <1>1, <1>4, <1>7, SumAdds
  <1>11. SumOver(smooth', S) \in Int /\ SumOver(smooth, S) \in Int /\ SumOver(SharesIn(cands), S) \in Int
    BY <1>4, SumTyped
  <1> QED BY <1>b, <1>2, <1>8, <1>9, <1>10, <1>11

LEMMA DebtsInit == Init => DebtsSpread
  <1> SUFFICES ASSUME Init PROVE DebtsSpread
    OBVIOUS
  <1>1. smooth \in Quantities /\ \A r \in Relays : smooth[r] = 0 BY DEF Init, Quantities
  <1>2. \A S : SumOver(smooth, S) = 0
    <2> TAKE S
    <2>1. Part(smooth, S) \in Quantities BY <1>1, SumTyped
    <2>2. 1 \in Relays /\ \A r \in Relays : Part(smooth, S)[r] = 0 BY <1>1, PoolSize DEF Part
    <2> QED BY <2>1, <2>2, TotalOfOne DEF SumOver
  <1>3. Total(smooth) = 0 BY <1>1, <1>2, SumOfAll
  <1>4. ASSUME NEW S \in SUBSET Relays PROVE 0 <= Limit(S)
    <2>1. Size(S) \in Int /\ 0 <= Size(S) /\ Size(S) <= NumRelays BY SizeBounds
    <2>2. \A k \in Nat, m, n \in Int : 0 <= m /\ m <= n => 0 <= k * (m * (n - m))
      <3> SUFFICES ASSUME NEW k \in Nat, NEW m \in Int, NEW n \in Int, 0 <= m, m <= n
                   PROVE  0 <= k * (m * (n - m))
        OBVIOUS
      <3>1. m \in Nat /\ n - m \in Nat OBVIOUS
      <3>2. \A i, j \in Nat : i * j \in Nat OBVIOUS
      <3>3. m * (n - m) \in Nat BY <3>1, <3>2
      <3>4. k * (m * (n - m)) \in Nat BY <3>2, <3>3
      <3> QED BY <3>4
    <2> QED BY <2>1, <2>2, LargestIs, PoolSize DEF Limit
  <1> QED BY <1>2, <1>3, <1>4 DEF DebtsSpread

LEMMA DebtsPick ==
  ASSUME Types, DebtsSpread, NEW cands \in SUBSET Relays, cands # {}, SmoothWeightedPick(cands)
  PROVE  DebtsSpread'
  <1> DEFINE w == SharesIn(cands)
             b == Foremost(cands)
             k == LargestShare
  <1>1. /\ b \in cands /\ b \in Relays /\ w \in Quantities /\ smooth \in Quantities /\ smooth' \in Quantities
        /\ \A c \in cands : smooth[c] + w[c] <= smooth[b] + w[b]
    <2>1. \A c \in cands : Raised(cands)[c] = smooth[c] + w[c] BY DEF Raised
    <2> QED BY <2>1, ForemostIsMost, SharesTyped, PickTypes DEF Types
  <1>2. SharesOf(cands) = SumOver(w, Relays) BY <1>1, SumOfAll DEF SharesOf
  <1>3. \A r \in Relays : w[r] \in Int /\ 0 <= w[r] /\ w[r] <= k /\ (r \notin cands => w[r] = 0)
    BY SharesTyped, LargestIs
  <1>4. k \in Nat BY LargestIs
  <1>n. NumRelays \in Nat BY PoolSize
  <1> HIDE DEF w, b, k
  <1>5. Total(smooth') = 0
    <2>1. SumOver(smooth', Relays) = SumOver(smooth, Relays) + SumOver(w, Relays) - SumOver(w, Relays)
      BY <1>1, <1>2, PickPays DEF w, b
    <2>2. SumOver(smooth, Relays) = 0 BY <1>1, SumOfAll DEF DebtsSpread
    <2>3. SumOver(w, Relays) \in Int BY <1>1, SumTyped
    <2> QED BY <1>1, <2>1, <2>2, <2>3, SumOfAll
  <1>6. ASSUME NEW S \in SUBSET Relays PROVE SumOver(smooth', S) <= Limit(S)
    <2>0. SumOver(smooth, S) <= Limit(S) BY DEF DebtsSpread
    <2>t. SumOver(smooth, S) \in Int /\ SumOver(w, S) \in Int /\ SumOver(w, Relays) \in Int /\ Size(S) \in Int
      BY <1>1, SumTyped
    <2>l. Limit(S) \in Int
      <3>1. \A i, j \in Int : i * j \in Int OBVIOUS
      <3>2. Size(S) * (NumRelays - Size(S)) \in Int BY <1>n, <2>t, <3>1
      <3> QED BY <1>4, <3>1, <3>2 DEF Limit, k
    <2>1. CASE b \in S
      <3>1. SumOver(smooth', S) = SumOver(smooth, S) + SumOver(w, S) - SumOver(w, Relays)
        BY <1>2, <2>1, PickPays DEF w, b
      <3>2. SumOver(w, S) <= SumOver(w, Relays)
        <4>1. Part(w, S) \in Quantities /\ Part(w, Relays) \in Quantities BY <1>1, SumTyped
        <4>2. \A r \in Relays : Part(w, S)[r] <= Part(w, Relays)[r] BY <1>3 DEF Part
        <4> QED BY <4>1, <4>2, TotalGrows DEF SumOver
      <3> QED BY <2>0, <2>t, <2>l, <3>1, <3>2
    <2>2. CASE b \notin S
      <3> DEFINE A == S \cap cands
                 n == NumRelays
                 m == Size(S)
                 a == Size(A)
                 s == SumOver(smooth, S)
                 sa == SumOver(smooth, A)
                 wa == SumOver(w, A)
                 sb == smooth[b]
                 wb == w[b]
      <3>1. /\ m \in Int /\ s \in Int /\ sa \in Int /\ wa \in Int /\ sb \in Int /\ wb \in Int
            /\ a \in Nat /\ n \in Int
        <4>1. a \in Int /\ 0 <= a BY SizeBounds
        <4> QED BY <1>1, <1>n, <4>1, SumTyped DEF Quantities
      <3>2. SumOver(smooth', S) = s + wa
        <4>1. Part(w, S) = Part(w, A) BY <1>3 DEF Part
        <4>2. SumOver(w, S) = wa BY <4>1 DEF SumOver
        <4>3. SumOver(smooth', S) = s + SumOver(w, S) - 0 BY <2>2, PickPays DEF w, b
        <4> QED BY <3>1, <4>2, <4>3
      <3>3. s + sb <= k * ((m + 1) * (n - (m + 1)))
        <4>1. SumOver(smooth, S \cup {b}) = s + sb /\ Size(S \cup {b}) = m + 1
          <5>1. S \cap {b} = {} BY <2>2
          <5>2. SumOver(smooth, S \cup {b}) = SumOver(smooth, S) + SumOver(smooth, {b})
            BY <1>1, <5>1, SumSplits
          <5>3. Size(S \cup {b}) = Size(S) + Size({b}) BY <5>1, SizeSplits
          <5>4. SumOver(smooth, {b}) = smooth[b] /\ Size({b}) = 1 BY <1>1, SumOfOne
          <5> QED BY <5>2, <5>3, <5>4
        <4>2. SumOver(smooth, S \cup {b}) <= Limit(S \cup {b}) BY <1>1 DEF DebtsSpread
        <4> QED BY <4>1, <4>2 DEF Limit, k
      <3>4. s - sa <= k * ((m - a) * (n - (m - a)))
        <4>1. A \cup (S \ A) = S /\ A \cap (S \ A) = {} /\ (S \ A) \in SUBSET Relays OBVIOUS
        <4>2. s = sa + SumOver(smooth, S \ A) /\ m = a + Size(S \ A)
          BY <1>1, <4>1, SumSplits, SizeSplits
        <4>3. SumOver(smooth, S \ A) \in Int /\ Size(S \ A) \in Int BY <1>1, SumTyped
        <4>4. SumOver(smooth, S \ A) = s - sa /\ Size(S \ A) = m - a BY <3>1, <4>2, <4>3
        <4>5. SumOver(smooth, S \ A) <= Limit(S \ A) BY <4>1 DEF DebtsSpread
        <4> QED BY <4>4, <4>5 DEF Limit, k
      <3>5. sa + wa <= a * (sb + wb)
        <4>p. PICK up : up = [r \in Relays |-> smooth[r] + w[r]] OBVIOUS
        <4>1. up \in Quantities /\ \A r \in Relays : up[r] = smooth[r] + w[r]
          BY <1>1, <4>p DEF Quantities
        <4>2. SumOver(up, A) = sa + wa BY <1>1, <4>1, SumAdds
        <4>3. \A r \in Relays : r \in A => up[r] <= sb + wb BY <1>1, <4>1
        <4> QED BY <3>1, <4>1, <4>2, <4>3, SumBounded
      <3>6. wa <= a * k
        BY <1>1, <1>3, <1>4, SumBounded
      <3>7. wb <= k BY <1>1, <1>3
      <3> HIDE DEF n, m, a, s, sa, wa, sb, wb
      <3>8. s + wa <= k * (m * (n - m)) BY <1>4, <3>1, <3>3, <3>4, <3>5, <3>6, <3>7, Squeeze
      <3> QED BY <3>2, <3>8 DEF Limit, k, m, n
    <2> QED BY <2>1, <2>2
  <1> QED BY <1>5, <1>6 DEF DebtsSpread, Limit

LEMMA DebtsInductive == Types /\ DebtsSpread /\ [Next]_vars => DebtsSpread'
  <1> SUFFICES ASSUME Types, DebtsSpread, [Next]_vars PROVE DebtsSpread'
    OBVIOUS
  <1>1. CASE smooth' = smooth BY <1>1 DEF DebtsSpread
  <1>2. CASE Next
    <2>1. PICK req \in Requests, first \in SUBSET Relays, second \in SUBSET Relays :
            Select([req |-> req, first |-> first, second |-> second], Candidates(req, first, second))
      BY <1>2, Selects
    <2>c. PICK cands : cands = Candidates(req, first, second) OBVIOUS
    <2>2. smooth' = smooth \/ (cands # {} /\ SmoothWeightedPick(cands)) BY <2>1, <2>c, SelectMoves
    <2>3. cands \in SUBSET Relays BY <2>c, CandidatesOpen
    <2> QED BY <1>1, <2>2, <2>3, DebtsPick
  <1>3. CASE UNCHANGED vars BY <1>1, <1>3 DEF vars
  <1> QED BY <1>2, <1>3

\* However the candidates change from message to message, the debts of smooth weighted
\* round robin cancel and none exceeds the largest weight once for each other relay
\* (smooth_weighted_pick, relay/pool.rs).
THEOREM DebtsStayBounded == Spec => []DebtBounded
  <1>1. Types /\ DebtsSpread => DebtBounded
    <2> SUFFICES ASSUME Types, DebtsSpread, NEW r \in Relays
                 PROVE  smooth[r] \in -((NumRelays - 1) * LargestShare) .. (NumRelays - 1) * LargestShare
      BY DEF DebtBounded, DebtsSpread, MostOwed
    <2> DEFINE k == LargestShare
               n == NumRelays
               others == Relays \ {r}
    <2>1. smooth \in Quantities /\ smooth[r] \in Int /\ n \in Nat /\ k \in Nat
      BY PoolSize, LargestIs DEF Types, Quantities
    <2>2. SumOver(smooth, {r}) = smooth[r] /\ Size({r}) = 1 BY <2>1, SumOfOne
    <2>3. SumOver(smooth, others) = -smooth[r] /\ Size(others) = n - 1
      <3>1. {r} \cup others = Relays /\ {r} \cap others = {} OBVIOUS
      <3>2. SumOver(smooth, Relays) = smooth[r] + SumOver(smooth, others)
        BY <2>1, <2>2, <3>1, SumSplits
      <3>3. n = 1 + Size(others) BY <2>2, <3>1, SizeSplits, SizeOfAll
      <3>4. SumOver(smooth, others) \in Int /\ Size(others) \in Int BY <2>1, SumTyped
      <3>5. SumOver(smooth, Relays) = 0 BY <2>1, SumOfAll DEF DebtsSpread
      <3> QED BY <2>1, <3>2, <3>3, <3>4, <3>5
    <2>4. SumOver(smooth, {r}) <= Limit({r}) /\ SumOver(smooth, others) <= Limit(others)
      BY DEF DebtsSpread
    <2>5. smooth[r] <= k * (1 * (n - 1)) /\ -smooth[r] <= k * ((n - 1) * (n - (n - 1)))
      BY <2>2, <2>3, <2>4 DEF Limit
    <2>6. k * (1 * (n - 1)) = (n - 1) * k /\ k * ((n - 1) * (n - (n - 1))) = (n - 1) * k
      <3>1. \A i, j \in Int : i * j = j * i OBVIOUS
      <3>2. \A i \in Int : 1 * i = i /\ i * 1 = i OBVIOUS
      <3>3. n - (n - 1) = 1 /\ n - 1 \in Int BY <2>1
      <3> QED BY <2>1, <3>1, <3>2, <3>3
    <2>7. (n - 1) * k \in Int
      <3>1. \A i, j \in Int : i * j \in Int OBVIOUS
      <3> QED BY <2>1, <3>1
    <2> HIDE DEF n, k
    <2>8. \A x, y \in Int : x <= y /\ -x <= y => x \in -y .. y OBVIOUS
    <2>9. smooth[r] \in -((n - 1) * k) .. (n - 1) * k BY <2>1, <2>5, <2>6, <2>7, <2>8
    <2> QED BY <2>9 DEF n, k
  <1> QED BY <1>1, TypesInit, TypesInductive, DebtsInit, DebtsInductive, PTL DEF Spec

EqualWeights == \A q, r \in Relays : Share(q) = Share(r)
WithinATurn == \A r \in Relays : smooth[r] < SharesOf(Relays) /\ -smooth[r] < SharesOf(Relays)

LEMMA EqualDebts ==
  ASSUME Types, DebtBounded, EqualWeights
  PROVE  WithinATurn
  <1> DEFINE k == LargestShare
             n == NumRelays
  <1>1. SharesOf(Relays) = k * n
    <2>1. SharesIn(Relays) \in Quantities /\ Ones \in Quantities BY SharesTyped DEF Ones, Quantities
    <2>2. k \in Nat /\ \A r \in Relays : Share(r) = k
      <3>1. k \in {Share(r) : r \in Relays}
        <4>1. 1 \in Relays BY PoolSize
        <4>2. \E x \in {Share(r) : r \in Relays} : \A r \in Relays : Share(r) <= x
          <5>1. \A r \in Relays : Share(r) <= Share(1) BY <4>1, SharesTyped DEF EqualWeights
          <5> QED BY <4>1, <5>1
        <4> QED BY <4>2, Zenon DEF LargestShare
      <3> QED BY <3>1, SharesTyped DEF EqualWeights
    <2>3. \A r \in Relays : SharesIn(Relays)[r] = k * Ones[r]
      <3>1. k * 1 = k BY <2>2
      <3> QED BY <2>2, <3>1, SharesTyped DEF Ones
    <2>4. Total(Ones) = n BY <2>1, SumOfAll, SizeOfAll DEF Size
    <2> QED BY <2>1, <2>2, <2>3, <2>4, TotalScales DEF SharesOf
  <1>2. k >= 1 /\ k \in Nat /\ n \in Nat
    <2>1. 1 \in Relays BY PoolSize
    <2> QED BY <2>1, LargestIs, SharesTyped, PoolSize
  <1>3. ASSUME NEW r \in Relays
        PROVE  smooth[r] < SharesOf(Relays) /\ -smooth[r] < SharesOf(Relays)
    <2>1. smooth[r] \in Int BY DEF Types, Quantities
    <2>2. smooth[r] \in -((n - 1) * k) .. (n - 1) * k BY DEF DebtBounded, MostOwed
    <2>3. \A i, j \in Int : (i - 1) * j = i * j - j /\ i * j = j * i /\ i * j \in Int OBVIOUS
    <2>4. (n - 1) * k = k * n - k /\ k * n \in Int BY <1>2, <2>3
    <2> HIDE DEF k, n
    <2>5. smooth[r] <= k * n - k /\ -(k * n - k) <= smooth[r] BY <1>2, <2>1, <2>2, <2>4
    <2>6. \A x, y, z \in Int : z >= 1 /\ x <= y - z /\ -(y - z) <= x => x < y /\ -x < y OBVIOUS
    <2>7. smooth[r] < k * n /\ -smooth[r] < k * n BY <1>2, <2>1, <2>4, <2>5, <2>6
    <2> QED BY <1>1, <2>7
  <1> QED BY <1>3 DEF WithinATurn

\* Where all weights are equal, no relay is ever a whole turn of the pool ahead or behind
\* (smooth_weighted_pick, relay/pool.rs).
THEOREM EqualWeightsWithinATurn == Spec => [](EqualWeights => WithinATurn)
  <1>1. Types /\ DebtBounded => (EqualWeights => WithinATurn)
    BY EqualDebts
  <1> QED BY <1>1, DebtsStayBounded, TypesInit, TypesInductive, PTL DEF Spec

-----------------------------------------------------------------------------
(* Turns: how long a relay may be passed over, by a history of the picks.  *)

\* Of the messages whose relay the weights chose, those each relay was a candidate
\* for since the last that went to it.
VARIABLE overlooked

ByWeights(req, cands) ==
  routing.strategy = "weighted" /\ Open(req, cands) /\ ~Sticks(req, cands)

\* The history of one selection, from what it noted in last.
Overlook ==
  LET cands == Candidates(last'.req, last'.first, last'.second)
  IN  overlooked' = IF ByWeights(last'.req, cands)
                    THEN [r \in Relays |-> IF r = last'.relay THEN 0
                            ELSE IF r \in cands THEN overlooked[r] + 1 ELSE overlooked[r]]
                    ELSE overlooked

SpecWithTurns ==
  /\ Init /\ overlooked = [r \in Relays |-> 0]
  /\ [][Next /\ Overlook]_<<vars, overlooked>>

\* A relay is overlooked, by its weight a time, no more than it is owed above the
\* least it can be owed.
Turns ==
  /\ overlooked \in [Relays -> Nat]
  /\ \A r \in Relays : overlooked[r] * Share(r) <= smooth[r] + MostOwed

\* Each candidate the weights pass over is owed its weight more.
LEMMA PassedOver ==
  ASSUME Types, NEW cands \in SUBSET Relays, cands # {}, SmoothWeightedPick(cands)
  PROVE  /\ \A r \in cands \ {Foremost(cands)} : smooth'[r] = smooth[r] + Share(r)
         /\ \A r \in Relays \ cands : smooth'[r] = smooth[r]
  <1>b. PICK b, up, n : b = Foremost(cands) /\ up = Raised(cands) /\ n = SharesOf(cands)
    OBVIOUS
  <1>1. up \in Quantities /\ b \in cands BY <1>b, ForemostIsMost
  <1>2. smooth' = [up EXCEPT ![b] = @ - n] BY <1>b DEF SmoothWeightedPick
  <1>3. \A r \in Relays \ {b} : smooth'[r] = up[r] BY <1>1, <1>2 DEF Quantities
  <1>4. \A r \in Relays : up[r] = smooth[r] + SharesIn(cands)[r] BY <1>b DEF Raised
  <1>5. \A r \in Relays : smooth[r] \in Int BY DEF Types, Quantities
  <1>6. ASSUME NEW r \in cands \ {b} PROVE smooth'[r] = smooth[r] + Share(r)
    <2>1. SharesIn(cands)[r] = Share(r) BY SharesTyped
    <2> QED BY <1>3, <1>4, <2>1
  <1>7. ASSUME NEW r \in Relays \ cands PROVE smooth'[r] = smooth[r]
    <2>1. SharesIn(cands)[r] = 0 BY SharesTyped
    <2> QED BY <1>1, <1>3, <1>4, <1>5, <2>1
  <1> QED BY <1>b, <1>6, <1>7

\* What the weights decide, and what a choice by other means leaves alone.
LEMMA SelectWeighs ==
  ASSUME Types, NEW req \in Requests, NEW first \in SUBSET Relays, NEW second \in SUBSET Relays,
         NEW cands, cands = Candidates(req, first, second),
         Select([req |-> req, first |-> first, second |-> second], cands)
  PROVE  IF ByWeights(req, cands)
         THEN cands # {} /\ last'.relay = Foremost(cands) /\ SmoothWeightedPick(cands)
         ELSE smooth' = smooth
  <1>p. PICK reading : reading = [req |-> req, first |-> first, second |-> second]
    OBVIOUS
  <1>r. reading.req = req BY <1>p
  <1>1. CASE Refuse(reading, cands) BY <1>1, <1>r DEF Refuse, ByWeights, Open
  <1>2. CASE OnlyOne(reading, cands) BY <1>2, <1>r DEF OnlyOne, ByWeights, Open
  <1>3. CASE Override(reading, cands) BY <1>3, <1>r DEF Override, ByWeights, Open
  <1>4. CASE Sticky(reading, cands) BY <1>4, <1>r DEF Sticky, ByWeights
  <1>5. CASE \E load \in Loads : Strategy(reading, cands, load)
    <2>1. PICK load \in Loads : Strategy(reading, cands, load) BY <1>5
    <2>2. cands # {} BY <2>1, <1>r DEF Strategy, Open, NoRoute
    <2>3. CASE routing.strategy = "weighted"
      <3>1. last'.relay = ByStrategy(cands, load) BY <2>1 DEF Strategy, Chose
      <3>2. ByStrategy(cands, load) = Foremost(cands) BY <2>3 DEF ByStrategy
      <3>3. SmoothWeightedPick(cands) BY <2>1, <2>3 DEF Strategy
      <3>4. ByWeights(req, cands) BY <1>r, <2>1, <2>3 DEF Strategy, ByWeights
      <3> QED BY <2>2, <3>1, <3>2, <3>3, <3>4
    <2>4. CASE routing.strategy # "weighted"
      <3>1. smooth' = smooth BY <2>1, <2>4 DEF Strategy
      <3> QED BY <2>4, <3>1 DEF ByWeights
    <2> QED BY <2>3, <2>4
  <1> QED BY <1>1, <1>2, <1>3, <1>4, <1>5, <1>p DEF Select

LEMMA MostOwedIs == MostOwed \in Nat
  <1>1. LargestShare \in Nat /\ NumRelays - 1 \in Nat BY LargestIs, PoolSize
  <1>2. \A m, n \in Nat : m * n \in Nat OBVIOUS
  <1> QED BY <1>1, <1>2 DEF MostOwed

LEMMA TurnsStep ==
  ASSUME Types, Types', DebtBounded', Turns, [Next /\ Overlook]_<<vars, overlooked>>
  PROVE  Turns'
  <1>t. /\ \A r \in Relays : smooth[r] \in Int /\ smooth'[r] \in Int /\ overlooked[r] \in Nat
        /\ \A r \in Relays : Share(r) \in Nat
        /\ MostOwed \in Nat
    BY SharesTyped, MostOwedIs DEF Types, Quantities, Turns
  <1>1. CASE UNCHANGED <<vars, overlooked>>
    BY <1>1 DEF vars, Turns
  <1>2. CASE Next /\ Overlook
    <2>1. PICK req \in Requests, first \in SUBSET Relays, second \in SUBSET Relays :
            Select([req |-> req, first |-> first, second |-> second], Candidates(req, first, second))
      BY <1>2, Selects
    <2>c. PICK cands : cands = Candidates(req, first, second) OBVIOUS
    <2>2. routing' = routing /\ last'.req = req /\ last'.first = first /\ last'.second = second
      BY <2>1, <2>c, SelectMoves
    <2>3. IF ByWeights(req, cands)
          THEN cands # {} /\ last'.relay = Foremost(cands) /\ SmoothWeightedPick(cands)
          ELSE smooth' = smooth
      BY <2>1, <2>c, SelectWeighs
    <2>4. cands \in SUBSET Relays BY <2>c, CandidatesOpen
    <2>5. CASE ~ByWeights(req, cands)
      <3>1. overlooked' = overlooked BY <1>2, <2>2, <2>5, <2>c DEF Overlook
      <3>2. smooth' = smooth BY <2>3, <2>5
      <3> QED BY <3>1, <3>2 DEF Turns
    <2>6. CASE ByWeights(req, cands)
      <3>1. /\ cands # {} /\ last'.relay = Foremost(cands) /\ SmoothWeightedPick(cands)
            /\ Foremost(cands) \in cands
        BY <2>3, <2>4, <2>6, ForemostIsMost
      <3>2. overlooked' = [r \in Relays |-> IF r = Foremost(cands) THEN 0
                            ELSE IF r \in cands THEN overlooked[r] + 1 ELSE overlooked[r]]
        BY <1>2, <2>2, <2>6, <2>c, <3>1 DEF Overlook
      <3>3. overlooked' \in [Relays -> Nat] BY <1>t, <3>2
      <3>4. ASSUME NEW r \in Relays PROVE overlooked'[r] * Share(r) <= smooth'[r] + MostOwed
        <4>0. overlooked[r] * Share(r) <= smooth[r] + MostOwed BY DEF Turns
        <4>1. CASE r = Foremost(cands)
          <5>1. overlooked'[r] = 0 BY <3>2, <4>1
          <5>2. smooth'[r] \in -MostOwed .. MostOwed BY DEF DebtBounded
          <5>3. \A n \in Nat : 0 * n = 0 OBVIOUS
          <5>4. overlooked'[r] * Share(r) = 0 BY <1>t, <5>1, <5>3
          <5> QED BY <1>t, <5>2, <5>4
        <4>2. CASE r # Foremost(cands) /\ r \in cands
          <5>1. overlooked'[r] = overlooked[r] + 1 BY <3>2, <4>2
          <5>2. smooth'[r] = smooth[r] + Share(r) BY <2>4, <3>1, <4>2, PassedOver
          <5>3. \A k, s \in Nat : (k + 1) * s = k * s + s /\ k * s \in Nat OBVIOUS
          <5>4. overlooked'[r] * Share(r) = overlooked[r] * Share(r) + Share(r)
            BY <1>t, <5>1, <5>3
          <5>5. overlooked[r] * Share(r) \in Nat BY <1>t, <5>3
          <5> QED BY <1>t, <4>0, <5>2, <5>4, <5>5
        <4>3. CASE r \notin cands
          <5>1. overlooked'[r] = overlooked[r] /\ smooth'[r] = smooth[r]
            BY <2>4, <3>1, <3>2, <4>3, PassedOver
          <5> QED BY <4>0, <5>1
        <4> QED BY <4>1, <4>2, <4>3
      <3> QED BY <3>3, <3>4 DEF Turns, MostOwed, LargestShare, Share
    <2> QED BY <2>5, <2>6
  <1> QED BY <1>1, <1>2

\* No relay is passed over for ever, however the candidates change: those of its
\* messages in a row that go to others, each counted by its weight, come to no more
\* than twice the bound on its debt (smooth_weighted_pick, relay/pool.rs).
THEOREM EveryCandidateHasATurn ==
  SpecWithTurns => [](\A r \in Relays : overlooked[r] * Share(r) <= 2 * MostOwed)
  <1>1. SpecWithTurns => Spec
    <2>1. [Next /\ Overlook]_<<vars, overlooked>> => [Next]_vars BY DEF vars
    <2> QED BY <2>1, PTL DEF SpecWithTurns, Spec
  <1>2. SpecWithTurns => []DebtBounded BY <1>1, DebtsStayBounded, PTL
  <1>3. SpecWithTurns => []Types BY <1>1, TypesInit, TypesInductive, PTL DEF Spec
  <1>4. Init /\ overlooked = [r \in Relays |-> 0] => Turns
    <2> SUFFICES ASSUME Init, overlooked = [r \in Relays |-> 0], NEW r \in Relays
                 PROVE  overlooked[r] * Share(r) <= smooth[r] + MostOwed
      BY DEF Turns
    <2>1. Share(r) \in Nat /\ MostOwed \in Nat BY SharesTyped, MostOwedIs
    <2>2. \A n \in Nat : 0 * n = 0 OBVIOUS
    <2> QED BY <2>1, <2>2 DEF Init
  <1>5. SpecWithTurns => []Turns
    BY <1>2, <1>3, <1>4, TurnsStep, PTL DEF SpecWithTurns
  <1>6. Types /\ DebtBounded /\ Turns => \A r \in Relays : overlooked[r] * Share(r) <= 2 * MostOwed
    <2> SUFFICES ASSUME Types, DebtBounded, Turns, NEW r \in Relays
                 PROVE  overlooked[r] * Share(r) <= 2 * MostOwed
      OBVIOUS
    <2>1. smooth[r] \in Int /\ overlooked[r] \in Nat /\ Share(r) \in Nat /\ MostOwed \in Nat
      BY SharesTyped, MostOwedIs DEF Types, Quantities, Turns
    <2>2. \A m, n \in Nat : m * n \in Nat OBVIOUS
    <2>3. overlooked[r] * Share(r) \in Nat BY <2>1, <2>2
    <2>4. overlooked[r] * Share(r) <= smooth[r] + MostOwed BY DEF Turns
    <2>5. smooth[r] \in -MostOwed .. MostOwed BY DEF DebtBounded
    <2> QED BY <2>1, <2>3, <2>4, <2>5
  <1> QED BY <1>2, <1>3, <1>5, <1>6, PTL
=============================================================================
