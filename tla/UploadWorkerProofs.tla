------------------------- MODULE UploadWorkerProofs -------------------------
(***************************************************************************)
(* Six of the worker's promises, for any files and any rows damaged in any *)
(* way, and any tracks, trims and waypoints: the detector sees a track the *)
(* same whatever its heading, no wide turn is missed, maneuvers and legs   *)
(* do not overlap, no source of wind is lost, no position is stored a day  *)
(* early and damage costs the rows it hits.                                *)
(***************************************************************************)
EXTENDS UploadWorker, FiniteSetTheorems, FunctionTheorems, SequenceTheorems, TLAPS
-----------------------------------------------------------------------------
(* Finite sets have extremes.                                              *)

\* A finite strict order has a maximal element.
LEMMA Maximal ==
    ASSUME NEW S, IsFiniteSet(S), S # {}, NEW R,
           \A x \in S : <<x, x>> \notin R,
           \A x, y, z \in S : <<x, y>> \in R /\ <<y, z>> \in R => <<x, z>> \in R
    PROVE  \E x \in S : \A y \in S : <<x, y>> \notin R
<1> DEFINE Good(T) == \E x \in T : \A y \in T : <<x, y>> \notin R
           F == FiniteSubsetsOf(S)
           Bad == {T \in F : T # {} /\ ~Good(T)}
<1>1. SUFFICES ASSUME ~Good(S) PROVE FALSE
  OBVIOUS
<1>2. S \in Bad
  BY <1>1 DEF FiniteSubsetsOf
<1>3. IsWellFoundedOn(StrictSubsetOrdering(S), F)
  BY FS_StrictSubsetOrderingWellFounded
<1>4. \E T \in Bad : \A U \in Bad : <<U, T>> \notin StrictSubsetOrdering(S)
  <2>1. Bad \subseteq F /\ Bad # {}
    BY <1>2
  <2> HIDE DEF F, Bad
  <2> QED BY <1>3, <2>1, WFMin
<1>5. PICK T \in Bad : \A U \in Bad : <<U, T>> \notin StrictSubsetOrdering(S)
  BY <1>4
<1>6. PICK x \in T : TRUE
  BY <1>5
<1> DEFINE U == T \ {x}
<1>7. U \in F /\ <<U, T>> \in StrictSubsetOrdering(S)
  BY <1>5, <1>6, FS_RemoveElement DEF FiniteSubsetsOf, StrictSubsetOrdering
<1>8. U # {} => Good(U)
  <2> HIDE DEF U, Good
  <2> QED BY <1>5, <1>7
<1>9. T \subseteq S
  BY <1>5 DEF FiniteSubsetsOf
<1>10. PICK y \in T : <<x, y>> \in R
  BY <1>5, <1>6
<1>11. y \in U
  BY <1>6, <1>9, <1>10
<1>12. PICK m \in U : \A z \in U : <<m, z>> \notin R
  BY <1>8, <1>11
<1>13. PICK z \in T : <<m, z>> \in R
  BY <1>5, <1>12
<1>14. z = x
  BY <1>12, <1>13
<1> QED BY <1>6, <1>9, <1>10, <1>11, <1>12, <1>13, <1>14

LEMMA Extremes ==
    ASSUME NEW S \in SUBSET Int, IsFiniteSet(S), S # {}
    PROVE  /\ \E x \in S : \A y \in S : x <= y
           /\ \E x \in S : \A y \in S : y <= x
<1> DEFINE Up == {p \in S \X S : p[1] < p[2]}
           Down == {p \in S \X S : p[2] < p[1]}
<1>1. \E x \in S : \A y \in S : <<x, y>> \notin Up
  <2>1. \A x \in S : <<x, x>> \notin Up
    OBVIOUS
  <2>2. \A x, y, z \in S : <<x, y>> \in Up /\ <<y, z>> \in Up => <<x, z>> \in Up
    OBVIOUS
  <2> HIDE DEF Up
  <2> QED BY <2>1, <2>2, Maximal
<1>2. \E x \in S : \A y \in S : <<x, y>> \notin Down
  <2>1. \A x \in S : <<x, x>> \notin Down
    OBVIOUS
  <2>2. \A x, y, z \in S : <<x, y>> \in Down /\ <<y, z>> \in Down => <<x, z>> \in Down
    OBVIOUS
  <2> HIDE DEF Down
  <2> QED BY <2>1, <2>2, Maximal
<1>3. \E x \in S : \A y \in S : x <= y
  <2> PICK x \in S : \A y \in S : <<x, y>> \notin Down
    BY <1>2
  <2>1. \A y \in S : ~(y < x)
    OBVIOUS
  <2>2. x \in Int /\ \A y \in S : y \in Int
    OBVIOUS
  <2> HIDE DEF Down
  <2> QED BY <2>1, <2>2
<1>4. \E x \in S : \A y \in S : y <= x
  <2> PICK x \in S : \A y \in S : <<x, y>> \notin Up
    BY <1>1
  <2>1. \A y \in S : ~(x < y)
    OBVIOUS
  <2>2. x \in Int /\ \A y \in S : y \in Int
    OBVIOUS
  <2> HIDE DEF Up
  <2> QED BY <2>1, <2>2
<1> QED BY <1>3, <1>4

LEMMA LeastIs ==
    ASSUME NEW S \in SUBSET Int, IsFiniteSet(S), S # {}
    PROVE  Least(S) \in S /\ \A y \in S : Least(S) <= y
BY Extremes DEF Least

LEMMA GreatestIs ==
    ASSUME NEW S \in SUBSET Int, IsFiniteSet(S), S # {}
    PROVE  Greatest(S) \in S /\ \A y \in S : y <= Greatest(S)
BY Extremes DEF Greatest

LEMMA MinIs ==
    ASSUME NEW S \in SUBSET Int, IsFiniteSet(S), S # {}
    PROVE  Min(S) \in S /\ \A y \in S : Min(S) <= y
BY Extremes DEF Min

LEMMA MaxIs ==
    ASSUME NEW S \in SUBSET Int, IsFiniteSet(S), S # {}
    PROVE  Max(S) \in S /\ \A y \in S : y <= Max(S)
BY Extremes DEF Max

LEMMA Bounded ==
    ASSUME NEW a \in Int, NEW b \in Int, NEW S \in SUBSET (a..b), S # {}
    PROVE  /\ IsFiniteSet(S) /\ S \in SUBSET Int
           /\ Least(S) \in S /\ \A y \in S : Least(S) <= y
           /\ Greatest(S) \in S /\ \A y \in S : y <= Greatest(S)
<1>1. IsFiniteSet(S)
  BY FS_Interval, FS_Subset
<1>2. S \in SUBSET Int
  OBVIOUS
<1> QED BY <1>1, <1>2, LeastIs, GreatestIs


-----------------------------------------------------------------------------
(* The pivot of a turn is a sample of the track.                           *)

LEMMA AbsIs == \A x \in Int : Abs(x) \in Nat
BY DEF Abs

LEMMA DiffIs == \A a, b \in Int : Diff(a, b) \in -180..179
BY DEF Diff

LEMMA SamplesIs ==
    ASSUME NEW trk, TrackShape(trk)
    PROVE  /\ Len(trk.at) \in Nat /\ Samples(trk) = 1..Len(trk.at)
           /\ \A i \in Samples(trk) : trk.at[i] \in Int /\ trk.heading[i] \in Int
BY DEF TrackShape, Samples

LEMMA TurnedIs ==
    ASSUME NEW trk, TrackShape(trk), NEW i \in Samples(trk), NEW k \in Samples(trk)
    PROVE  Turned(trk, i, k) \in Int /\ NetTurn(trk, i, k) \in Nat
<1>1. trk.heading[i] \in Int /\ trk.heading[k] \in Int
  BY SamplesIs
<1>2. Turned(trk, i, k) \in Int
  BY <1>1, DiffIs DEF Turned
<1> QED BY <1>2, AbsIs DEF NetTurn

LEMMA AheadIs ==
    ASSUME NEW trk, TrackShape(trk), NEW i \in Ahead(trk)
    PROVE  i \in Samples(trk) /\ i + Step \in Samples(trk)
BY SamplesIs DEF Ahead, Step

\* The terms of Slower.
TurnAt(trk, s) == IF s \in Ahead(trk) /\ trk.at[s + Step] > trk.at[s]
                  THEN Abs(Turned(trk, s, s + Step)) ELSE 0
SpanAt(trk, s) == IF TurnAt(trk, s) = 0 THEN 1 ELSE trk.at[s + Step] - trk.at[s]

LEMMA SlowerIs ==
    ASSUME NEW trk, NEW i, NEW k
    PROVE  Slower(trk, i, k) <=> TurnAt(trk, i) * SpanAt(trk, k) < TurnAt(trk, k) * SpanAt(trk, i)
BY DEF Slower, TurnAt, SpanAt

LEMMA RateIs ==
    ASSUME NEW trk, TrackShape(trk), NEW s
    PROVE  TurnAt(trk, s) \in Nat /\ SpanAt(trk, s) \in Nat /\ SpanAt(trk, s) > 0
<1>1. CASE s \in Ahead(trk) /\ trk.at[s + Step] > trk.at[s]
  <2>1. trk.at[s + Step] \in Int /\ trk.at[s] \in Int /\ Turned(trk, s, s + Step) \in Int
    BY <1>1, AheadIs, SamplesIs, TurnedIs
  <2>2. TurnAt(trk, s) \in Nat
    BY <1>1, <2>1, AbsIs DEF TurnAt
  <2> QED BY <1>1, <2>1, <2>2 DEF SpanAt
<1>2. CASE ~(s \in Ahead(trk) /\ trk.at[s + Step] > trk.at[s])
  BY <1>2 DEF TurnAt, SpanAt
<1> QED BY <1>1, <1>2

LEMMA CrossLess ==
    ASSUME NEW a \in Nat, NEW b \in Nat, NEW c \in Nat, NEW d \in Nat, NEW e \in Nat, NEW f \in Nat,
           b > 0, d > 0, f > 0, a * d < c * b, c * f < e * d
    PROVE  a * f < e * b
<1>1. a * d * f < c * b * f
  OBVIOUS
<1>2. c * f * b < e * d * b
  OBVIOUS
<1>3. (a * f) * d < (e * b) * d
  BY <1>1, <1>2
<1>4. ~(a * f < e * b) => (e * b) * d <= (a * f) * d
  OBVIOUS
<1> QED BY <1>3, <1>4

LEMMA PeakExists ==
    ASSUME NEW trk, TrackShape(trk), NEW i \in Int, NEW j \in Int, i <= j
    PROVE  \E p \in i..j : \A k \in i..j : ~Slower(trk, p, k)
<1> DEFINE S == i..j
           R == {q \in S \X S : Slower(trk, q[1], q[2])}
<1>1. IsFiniteSet(S) /\ i \in S
  BY FS_Interval
<1>2. \A x \in S : <<x, x>> \notin R
  <2> SUFFICES ASSUME NEW x \in S PROVE ~Slower(trk, x, x)
    OBVIOUS
  <2>1. TurnAt(trk, x) * SpanAt(trk, x) \in Nat
    BY RateIs
  <2> QED BY <2>1, SlowerIs
<1>3. \A x, y, z \in S : <<x, y>> \in R /\ <<y, z>> \in R => <<x, z>> \in R
  <2> SUFFICES ASSUME NEW x \in S, NEW y \in S, NEW z \in S, Slower(trk, x, y), Slower(trk, y, z)
               PROVE  Slower(trk, x, z)
    OBVIOUS
  <2> QED BY RateIs, SlowerIs, CrossLess
<1>4. \E x \in S : \A y \in S : <<x, y>> \notin R
  <2> HIDE DEF S, R
  <2> QED BY <1>1, <1>2, <1>3, Maximal
<1> QED BY <1>4

LEMMA RunIs ==
    ASSUME NEW n \in Nat, NEW M \in SUBSET (1..n), NEW r \in RunsOf(M)
    PROVE  r[1] \in 1..n /\ r[2] \in 1..n /\ r[1] <= r[2]
<1>1. PICK i \in M : r = <<i, CHOOSE j \in M : j >= i /\ j + 1 \notin M /\ i..j \subseteq M>>
  BY DEF RunsOf
<1> DEFINE K == {k \in i..(n + 1) : k \notin M}
<1>2. K \in SUBSET Int /\ IsFiniteSet(K) /\ n + 1 \in K
  <2>1. IsFiniteSet(i..(n + 1)) /\ K \in SUBSET (i..(n + 1)) /\ n + 1 \in K
        /\ K \in SUBSET Int
    BY FS_Interval
  <2> HIDE DEF K
  <2> QED BY <2>1, FS_Subset
<1>3. Least(K) \in K /\ \A y \in K : Least(K) <= y
  <2> HIDE DEF K
  <2> QED BY <1>2, LeastIs
<1> DEFINE j == Least(K) - 1
<1>4. j \in Int /\ j >= i /\ j + 1 \notin M /\ j <= n
  <2> HIDE DEF j
  <2>1. j = Least(K) - 1
    BY DEF j
  <2>2. Least(K) # i
    BY <1>3
  <2> QED BY <1>3, <2>1, <2>2
<1>5. i..j \subseteq M
  <2> SUFFICES ASSUME NEW x \in i..j, x \notin M PROVE FALSE
    OBVIOUS
  <2>1. x \in K
    BY <1>4
  <2> QED BY <1>3, <2>1
<1>6. j \in M
  BY <1>4, <1>5
<1> HIDE DEF j
<1>7. \E k \in M : k >= i /\ k + 1 \notin M /\ i..k \subseteq M
  BY <1>4, <1>5, <1>6
<1> QED BY <1>1, <1>7

LEMMA PivotIsSample ==
    ASSUME NEW trk, TrackShape(trk)
    PROVE  TurnPivots(trk) \subseteq Samples(trk) /\ CandidatePivots(trk) \subseteq Samples(trk)
<1> DEFINE n == Len(trk.at)
           M == CloseGaps(Turning(trk), n)
           peak(r) == {p \in r[1]..r[2] : \A k \in r[1]..r[2] : ~Slower(trk, p, k)}
<1>1. n \in Nat /\ M \subseteq 1..n
  <2>1. n \in Nat /\ Turning(trk) \subseteq 1..n
    BY SamplesIs, AheadIs DEF Turning
  <2> QED BY <2>1 DEF CloseGaps
<1>2. ASSUME NEW r \in RunsOf(M) PROVE Least(peak(r)) \in 1..n
  <2>1. r[1] \in 1..n /\ r[2] \in 1..n /\ r[1] <= r[2]
    <3> HIDE DEF n, M
    <3> QED BY <1>1, RunIs
  <2>2. peak(r) # {}
    <3>1. r[1] \in Int /\ r[2] \in Int
      BY <2>1
    <3>2. \E p \in r[1]..r[2] : \A k \in r[1]..r[2] : ~Slower(trk, p, k)
      BY <2>1, <3>1, PeakExists
    <3> QED BY <3>2
  <2>3. peak(r) \in SUBSET (1..n) /\ IsFiniteSet(peak(r))
    <3>1. peak(r) \in SUBSET (1..n)
      BY <1>1, <2>1
    <3>2. IsFiniteSet(1..n)
      BY <1>1, FS_Interval
    <3> HIDE DEF peak
    <3> QED BY <3>1, <3>2, FS_Subset
  <2> HIDE DEF peak
  <2>4. Least(peak(r)) \in peak(r)
    BY <1>1, <2>2, <2>3, LeastIs
  <2> QED BY <2>3, <2>4
<1>3. TurnPivots(trk) \subseteq 1..n
  <2> SUFFICES ASSUME NEW p \in TurnPivots(trk) PROVE p \in 1..n
    OBVIOUS
  <2>1. PICK r \in RunsOf(M) : p = Least(peak(r))
    BY DEF TurnPivots
  <2> QED BY <1>2, <2>1
<1> QED BY <1>3, SamplesIs DEF CandidatePivots

\* The bounds of a turn are samples around its pivot.
LEMMA StartIs ==
    ASSUME NEW trk, TrackShape(trk), NEW p \in Samples(trk)
    PROVE  StartOf(trk, p) \in Samples(trk) /\ StartOf(trk, p) <= p
<1> DEFINE floor == AtLeast(Step + 1, p - Scan)
           calm == {k \in (floor + 1)..p : Abs(Turned(trk, k - Step, k)) < 10}
<1>1. p \in Int /\ p >= 1 /\ p <= Len(trk.at) /\ Len(trk.at) \in Nat
  BY SamplesIs
<1>2. floor \in Int /\ floor >= 1
  BY <1>1 DEF AtLeast, Step, Scan
<1>3. CASE calm = {}
  <2>1. AtMost(p, floor) \in 1..p
    <3> HIDE DEF floor
    <3> QED BY <1>1, <1>2 DEF AtMost
  <2> QED BY <1>1, <1>3, <2>1, SamplesIs DEF StartOf
<1>4. CASE calm # {}
  <2>1. calm \subseteq 1..p
    <3> HIDE DEF floor
    <3> QED BY <1>1, <1>2
  <2>2. Greatest(calm) \in 1..p
    <3> HIDE DEF calm
    <3>1. calm \in SUBSET (1..p) /\ calm # {} /\ 1 \in Int /\ p \in Int
      BY <1>1, <1>4, <2>1
    <3>2. Greatest(calm) \in calm
      BY ONLY <3>1, Bounded
    <3> QED BY <2>1, <3>2
  <2> QED BY <1>1, <1>4, <2>2, SamplesIs DEF StartOf
<1> QED BY <1>3, <1>4

LEMMA EndIs ==
    ASSUME NEW trk, TrackShape(trk), NEW p \in Samples(trk)
    PROVE  EndOf(trk, p) \in Samples(trk) /\ p <= EndOf(trk, p)
<1> DEFINE n == Len(trk.at)
           ceiling == AtMost(n - Step + 1, p + Scan)
           settled == {k \in p..(ceiling - 1) : Abs(Turned(trk, k, k + Step)) < 5}
<1>1. p \in Int /\ p >= 1 /\ p <= n /\ n \in Nat
  BY SamplesIs
<1>2. ceiling \in Int /\ ceiling <= n
  <2> HIDE DEF n
  <2> QED BY <1>1 DEF AtMost, Step, Scan
<1>3. CASE settled = {}
  <2>1. AtLeast(p, ceiling) \in p..n
    <3> HIDE DEF ceiling, n
    <3> QED BY <1>1, <1>2 DEF AtLeast
  <2> QED BY <1>1, <1>3, <2>1, SamplesIs DEF EndOf
<1>4. CASE settled # {}
  <2>1. settled \subseteq p..n
    <3> HIDE DEF ceiling, n
    <3> QED BY <1>1, <1>2
  <2>2. Least(settled) \in p..n
    <3> HIDE DEF settled, n
    <3>1. settled \in SUBSET (p..n) /\ settled # {} /\ p \in Int /\ n \in Int
      BY <1>1, <1>4, <2>1
    <3>2. Least(settled) \in settled
      BY ONLY <3>1, Bounded
    <3> QED BY <2>1, <3>2
  <2> QED BY <1>1, <1>4, <2>2, SamplesIs DEF EndOf
<1> QED BY <1>3, <1>4

LEMMA InOrder ==
    ASSUME NEW trk, TrackShape(trk), NEW i \in Samples(trk), NEW k \in Samples(trk), i <= k
    PROVE  trk.at[i] <= trk.at[k]
<1>1. trk.at[i] \in Int /\ trk.at[k] \in Int /\ i \in Int /\ k \in Int
  BY SamplesIs
<1>2. i < k => trk.at[i] < trk.at[k]
  BY DEF TrackShape
<1> QED BY <1>1, <1>2

LEMMA CandidateIs ==
    ASSUME NEW trk, TrackShape(trk), NEW p \in Samples(trk)
    PROVE  LET c == Candidate(trk, p)
           IN /\ c.start = trk.at[StartOf(trk, p)] /\ c.end = trk.at[EndOf(trk, p)]
              /\ c.start <= c.end
<1>1. trk.at[StartOf(trk, p)] <= trk.at[EndOf(trk, p)]
  <2>1. StartOf(trk, p) \in Int /\ EndOf(trk, p) \in Int /\ p \in Int
    BY StartIs, EndIs, SamplesIs
  <2>2. StartOf(trk, p) <= EndOf(trk, p)
    BY <2>1, StartIs, EndIs
  <2> QED BY <2>2, StartIs, EndIs, InOrder
<1> QED BY <1>1 DEF Candidate, Describe

-----------------------------------------------------------------------------
(* Nothing depends on where north is.                                      *)

LEMMA DiffTurns ==
    ASSUME NEW a \in Int, NEW b \in Int, NEW x \in Int
    PROVE  Diff((a + x) % 360, (b + x) % 360) = Diff(a, b)
<1> DEFINE p == (a + x) \div 360
           q == (b + x) \div 360
<1>1. /\ p \in Int /\ q \in Int
      /\ (a + x) % 360 = a + x - 360 * p /\ (b + x) % 360 = b + x - 360 * q
  OBVIOUS
<1> HIDE DEF p, q
<1>2. Diff((a + x) % 360, (b + x) % 360) = ((a - b + 180 + 360 * (q - p)) % 360) - 180
  BY <1>1 DEF Diff
<1> QED BY <1>1, <1>2 DEF Diff

LEMMA RotatedIs ==
    ASSUME NEW trk, TrackShape(trk), NEW angle \in Int
    PROVE  LET t == Rotated(trk, angle)
           IN /\ TrackShape(t) /\ t.at = trk.at /\ t.slow = trk.slow
              /\ Samples(t) = Samples(trk) /\ Ahead(t) = Ahead(trk)
              /\ \A i, k \in Samples(trk) : Turned(t, i, k) = Turned(trk, i, k)
<1> DEFINE t == Rotated(trk, angle)
           n == Len(trk.at)
           h == [i \in Samples(trk) |-> (trk.heading[i] + angle) % 360]
<1>1. n \in Nat /\ Samples(trk) = 1..n /\ \A i \in 1..n : trk.heading[i] \in Int
  BY SamplesIs
<1>2. h \in Seq(Int) /\ Len(h) = n
  <2> HIDE DEF n
  <2>1. h = [i \in 1..n |-> (trk.heading[i] + angle) % 360]
    BY <1>1
  <2> HIDE DEF h
  <2> QED BY <1>1, <2>1
<1>3. t \in [at : Seq(Int), heading : Seq(Int), slow : SUBSET Int]
      /\ t.at = trk.at /\ t.slow = trk.slow /\ t.heading = h
  <2> HIDE DEF h, n
  <2>1. t = [trk EXCEPT !.heading = h]
    BY DEF Rotated, h
  <2> HIDE DEF t
  <2> QED BY <1>2, <2>1 DEF TrackShape
<1>4. ASSUME NEW i \in Samples(trk), NEW k \in Samples(trk)
      PROVE  Turned(t, i, k) = Turned(trk, i, k)
  <2>1. h[i] = (trk.heading[i] + angle) % 360 /\ h[k] = (trk.heading[k] + angle) % 360
    OBVIOUS
  <2> HIDE DEF h, t, n
  <2>2. Diff(h[k], h[i]) = Diff(trk.heading[k], trk.heading[i])
    BY <1>1, <2>1, DiffTurns
  <2> QED BY <1>3, <2>2 DEF Turned
<1> HIDE DEF t, h, n
<1>5. TrackShape(t) /\ Samples(t) = Samples(trk) /\ Ahead(t) = Ahead(trk)
  BY <1>2, <1>3 DEF TrackShape, Samples, Ahead, n
<1> QED BY <1>3, <1>4, <1>5 DEF t

\* Two tracks of the same instants and turns have the same candidates.
SameTurns(t, trk) ==
    /\ TrackShape(t) /\ TrackShape(trk) /\ t.at = trk.at /\ t.slow = trk.slow
    /\ \A i, k \in Samples(trk) : Turned(t, i, k) = Turned(trk, i, k)

LEMMA SameFrame ==
    ASSUME NEW t, NEW trk, SameTurns(t, trk)
    PROVE  /\ Samples(t) = Samples(trk) /\ Ahead(t) = Ahead(trk)
           /\ \A i \in Ahead(trk) : Turned(t, i, i + Step) = Turned(trk, i, i + Step)
<1>1. Samples(t) = Samples(trk) /\ Ahead(t) = Ahead(trk)
  BY DEF SameTurns, Samples, Ahead
<1> QED BY <1>1, AheadIs DEF SameTurns

LEMMA SameTurning ==
    ASSUME NEW t, NEW trk, SameTurns(t, trk)
    PROVE  Turning(t) = Turning(trk)
BY SameFrame DEF Turning, SameTurns

LEMMA SameSlower ==
    ASSUME NEW t, NEW trk, SameTurns(t, trk), NEW i, NEW k
    PROVE  Slower(t, i, k) <=> Slower(trk, i, k)
<1>1. \A s : TurnAt(t, s) = TurnAt(trk, s)
  BY SameFrame DEF TurnAt, SameTurns
<1>2. \A s : SpanAt(t, s) = SpanAt(trk, s)
  BY <1>1 DEF SpanAt, SameTurns
<1> QED BY <1>1, <1>2, SlowerIs

LEMMA SamePivots ==
    ASSUME NEW t, NEW trk, SameTurns(t, trk)
    PROVE  TurnPivots(t) = TurnPivots(trk)
<1> DEFINE n == Len(trk.at)
           M == CloseGaps(Turning(trk), n)
           runs(x) == {r \in RunsOf(M) : NetTurn(x, r[1], r[2]) >= MinTurn}
           peak(x, r) == {p \in r[1]..r[2] : \A k \in r[1]..r[2] : ~Slower(x, p, k)}
<1>1. n \in Nat /\ M \in SUBSET (1..n) /\ Samples(trk) = 1..n
  <2>1. n \in Nat /\ Turning(trk) \subseteq 1..n
    BY SamplesIs, AheadIs DEF Turning, SameTurns
  <2> QED BY <2>1, SamplesIs DEF CloseGaps, SameTurns
<1>2. \A r \in RunsOf(M) : r[1] \in Samples(trk) /\ r[2] \in Samples(trk)
  <2> HIDE DEF n, M
  <2> QED BY <1>1, RunIs
<1>3. runs(t) = runs(trk)
  BY <1>2 DEF NetTurn, SameTurns
<1>4. \A r : peak(t, r) = peak(trk, r)
  BY SameSlower
<1>5. TurnPivots(trk) = {Least(peak(trk, r)) : r \in runs(trk)}
  BY DEF TurnPivots
<1>6. TurnPivots(t) = {Least(peak(t, r)) : r \in runs(t)}
  BY SameTurning DEF TurnPivots, SameTurns
<1> QED BY <1>3, <1>4, <1>5, <1>6

LEMMA SameBounds ==
    ASSUME NEW t, NEW trk, SameTurns(t, trk), NEW p \in Samples(trk)
    PROVE  StartOf(t, p) = StartOf(trk, p) /\ EndOf(t, p) = EndOf(trk, p)
<1> DEFINE n == Len(trk.at)
           floor == AtLeast(Step + 1, p - Scan)
           ceiling == AtMost(n - Step + 1, p + Scan)
           calm(x) == {k \in (floor + 1)..p : Abs(Turned(x, k - Step, k)) < 10}
           settled(x) == {k \in p..(ceiling - 1) : Abs(Turned(x, k, k + Step)) < 5}
<1>1. p \in Int /\ p >= 1 /\ p <= n /\ n \in Nat /\ Samples(trk) = 1..n
  BY SamplesIs DEF SameTurns
<1>2. floor \in Int /\ floor >= 6 /\ ceiling \in Int /\ ceiling <= n - 4
  <2> HIDE DEF n
  <2> QED BY <1>1 DEF AtLeast, AtMost, Step, Scan
<1>3. calm(t) = calm(trk)
  <2> SUFFICES ASSUME NEW k \in (floor + 1)..p PROVE Turned(t, k - Step, k) = Turned(trk, k - Step, k)
    OBVIOUS
  <2>1. k \in 1..n /\ k - Step \in 1..n
    <3> HIDE DEF n, floor
    <3> QED BY <1>1, <1>2 DEF Step
  <2> QED BY <1>1, <2>1 DEF SameTurns
<1>4. settled(t) = settled(trk)
  <2> SUFFICES ASSUME NEW k \in p..(ceiling - 1) PROVE Turned(t, k, k + Step) = Turned(trk, k, k + Step)
    OBVIOUS
  <2>1. k \in 1..n /\ k + Step \in 1..n
    <3> HIDE DEF n, ceiling
    <3> QED BY <1>1, <1>2 DEF Step
  <2> QED BY <1>1, <2>1 DEF SameTurns
<1>5. StartOf(t, p) = StartOf(trk, p)
  BY <1>3 DEF StartOf
<1>6. EndOf(t, p) = EndOf(trk, p)
  <2>1. Len(t.at) = n
    BY DEF SameTurns
  <2> QED BY <1>4, <2>1 DEF EndOf
<1> QED BY <1>5, <1>6

LEMMA IndexIs ==
    ASSUME NEW trk, TrackShape(trk), NEW i \in Samples(trk)
    PROVE  IndexAt(trk, trk.at[i]) = i
<1> DEFINE n == Len(trk.at)
           S == {k \in Samples(trk) : trk.at[k] >= trk.at[i]} \cup {n + 1}
<1>1. n \in Nat /\ Samples(trk) = 1..n /\ \A k \in 1..n : trk.at[k] \in Int
  BY SamplesIs
<1>2. i \in S /\ S \subseteq 1..(n + 1) /\ i \in Int
  BY <1>1
<1>3. Least(S) \in S /\ Least(S) <= i
  <2>1. S \in SUBSET (1..(n + 1)) /\ S # {} /\ 1 \in Int /\ n + 1 \in Int
    BY <1>1, <1>2
  <2> HIDE DEF S
  <2>2. Least(S) \in S /\ \A y \in S : Least(S) <= y
    BY ONLY <2>1, Bounded
  <2> QED BY <1>2, <2>2
<1>4. \A k \in S : i <= k
  <2> SUFFICES ASSUME NEW k \in 1..n, trk.at[k] >= trk.at[i] PROVE i <= k
    BY <1>1
  <2>1. k < i => trk.at[k] < trk.at[i]
    BY <1>1 DEF TrackShape
  <2>2. k \in Int /\ i \in Int /\ trk.at[k] \in Int /\ trk.at[i] \in Int
    BY <1>1, <1>2
  <2> QED BY <2>1, <2>2
<1>5. Least(S) = i
  <2>1. Least(S) \in Int
    <3> HIDE DEF S, n
    <3>1. \A k \in 1..(n + 1) : k \in Int
      BY <1>1
    <3> QED BY <1>2, <1>3, <3>1
  <2>2. i <= Least(S)
    BY <1>3, <1>4
  <2> HIDE DEF S
  <2> QED BY <1>2, <1>3, <2>1, <2>2
<1> QED BY <1>5 DEF IndexAt

\* So nothing depends on the heading the track is turned to.
LEMMA SameCandidates ==
    ASSUME NEW t, NEW trk, SameTurns(t, trk)
    PROVE  /\ CandidatePivots(t) = CandidatePivots(trk)
           /\ \A p \in Samples(trk) :
                 LET c == Candidate(trk, p)
                     d == Candidate(t, p)
                 IN c.start = d.start /\ c.end = d.end /\ c.change = d.change
<1>1. CandidatePivots(t) = CandidatePivots(trk)
  <2>1. TurnPivots(trk) \subseteq Samples(trk)
    BY PivotIsSample DEF SameTurns
  <2>2. TurnPivots(t) = TurnPivots(trk) /\ t.at = trk.at /\ t.slow = trk.slow
        /\ \A p \in TurnPivots(trk) : StartOf(t, p) = StartOf(trk, p) /\ EndOf(t, p) = EndOf(trk, p)
    BY <2>1, SamePivots, SameBounds DEF SameTurns
  <2> DEFINE good(x, p) == /\ x.at[EndOf(x, p)] - x.at[StartOf(x, p)] <= MaxDuration
                           /\ StartOf(x, p) \notin x.slow
  <2>3. \A p \in TurnPivots(trk) : good(t, p) <=> good(trk, p)
    BY <2>2
  <2>4. \A x : CandidatePivots(x) = IF Len(x.at) < MinSamples THEN {}
                                    ELSE {p \in TurnPivots(x) : good(x, p)}
    BY DEF CandidatePivots
  <2> HIDE DEF good
  <2> QED BY <2>2, <2>3, <2>4
<1>2. ASSUME NEW p \in Samples(trk)
      PROVE  LET c == Candidate(trk, p)
                 d == Candidate(t, p)
             IN c.start = d.start /\ c.end = d.end /\ c.change = d.change
  <2> DEFINE i == StartOf(trk, p)
             k == EndOf(trk, p)
             n == Len(trk.at)
  <2>1. i \in Samples(trk) /\ k \in Samples(trk) /\ TrackShape(trk) /\ TrackShape(t)
        /\ t.at = trk.at /\ Samples(t) = Samples(trk)
    BY StartIs, EndIs, SameFrame DEF SameTurns
  <2>2. StartOf(t, p) = i /\ EndOf(t, p) = k
    BY SameBounds
  <2>3. AtMost(n, k) = k
    BY <2>1, SamplesIs DEF AtMost
  <2>4. Candidate(trk, p).start = trk.at[i] /\ Candidate(trk, p).end = trk.at[k]
        /\ Candidate(trk, p).change = Turned(trk, i, k)
    <3> HIDE DEF i, k
    <3>1. Candidate(trk, p) = Describe(trk, trk.at[i], trk.at[k])
      BY DEF Candidate, i, k
    <3> QED BY <2>1, <2>3, <3>1, IndexIs DEF Describe
  <2>5. Candidate(t, p).start = trk.at[i] /\ Candidate(t, p).end = trk.at[k]
        /\ Candidate(t, p).change = Turned(t, i, k)
    <3> HIDE DEF i, k
    <3>1. Candidate(t, p) = Describe(t, trk.at[i], trk.at[k])
      BY <2>1, <2>2 DEF Candidate
    <3> QED BY <2>1, <2>3, <3>1, IndexIs DEF Describe
  <2> QED BY <2>1, <2>4, <2>5 DEF SameTurns
<1> QED BY <1>1, <1>2

-----------------------------------------------------------------------------
(* What an analysis has loaded.                                            *)

Analysing == job # None /\ job.manual = None /\ result \in {"detecting", "posted"}

\* The samples lie within the trim bounds; the candidates are being decided on.
Inside(at) == /\ job.lo # None => at >= job.lo
              /\ job.hi # None => at <= job.hi
LoadInv ==
    /\ job \in Maybe(Jobs)
    /\ result = "none" => maneuvers = {} /\ lastEnd = None /\ legs = {}
    /\ job = None => result = "none"
    /\ result = "detecting" => Analysing /\ legs = {}
    /\ Analysing =>
          /\ TrackShape(track) /\ track.at # <<>>
          /\ \A i \in Samples(track) : Inside(track.at[i])
          /\ pivots = CandidatePivots(track) /\ todo \subseteq pivots

\* A sequence is cut between two of its samples.
LEMMA SliceIs ==
    ASSUME NEW trk, TrackShape(trk), NEW lo \in Maybe(Int), NEW hi \in Maybe(Int)
    PROVE  LET s == Slice(trk, lo, hi)
           IN /\ TrackShape(s)
              /\ \A i \in Samples(s) : /\ s.at[i] \in {trk.at[k] : k \in Samples(trk)}
                                       /\ lo # None => s.at[i] >= lo
                                       /\ hi # None => s.at[i] <= hi
<1> DEFINE n == Len(trk.at)
           keep == {i \in Samples(trk) : /\ lo # None => trk.at[i] >= lo
                                         /\ hi # None => trk.at[i] <= hi}
           a == Least(keep)
           b == Greatest(keep)
           s == Slice(trk, lo, hi)
<1>1. n \in Nat /\ Samples(trk) = 1..n /\ \A k \in 1..n : trk.at[k] \in Int /\ trk.heading[k] \in Int
  BY SamplesIs
<1>2. CASE keep = {}
  <2>1. s = [at |-> <<>>, heading |-> <<>>, slow |-> {}]
    BY <1>2 DEF Slice
  <2>2. Samples(s) = {}
    BY <2>1 DEF Samples
  <2> QED BY <2>1, <2>2 DEF TrackShape
<1>3. CASE keep # {}
  <2>1. a \in keep /\ b \in keep /\ \A y \in keep : a <= y /\ y <= b
    <3>1. keep \in SUBSET (1..n) /\ keep # {} /\ 1 \in Int /\ n \in Int
      BY <1>1, <1>3
    <3> HIDE DEF keep
    <3> QED BY ONLY <3>1, Bounded DEF a, b
  <2>2. a \in 1..n /\ b \in 1..n /\ a <= b
    <3> HIDE DEF a, b
    <3> QED BY <1>1, <2>1
  <2> DEFINE at == SubSeq(trk.at, a, b)
             hd == SubSeq(trk.heading, a, b)
             sl == {i \in 1..(b - a + 1) : i + a - 1 \in trk.slow}
  <2>3. s = [at |-> at, heading |-> hd, slow |-> sl]
    BY <1>3 DEF Slice
  <2>4. /\ trk.at \in Seq(Int) /\ trk.heading \in Seq(Int) /\ Len(trk.heading) = n /\ Len(trk.at) = n
    BY DEF TrackShape
  <2>5. /\ at \in Seq(Int) /\ Len(at) = b - a + 1
        /\ \A i \in 1..(b - a + 1) : at[i] = trk.at[a + i - 1]
    <3> HIDE DEF a, b, n
    <3> QED BY <1>1, <2>2, <2>4, SubSeqProperties
  <2>6. hd \in Seq(Int) /\ Len(hd) = b - a + 1
    <3> HIDE DEF a, b, n
    <3> QED BY <1>1, <2>2, <2>4, SubSeqProperties
  <2>7. sl \in SUBSET Int
    <3> HIDE DEF a, b, n
    <3> QED BY <1>1, <2>2
  <2>8. Samples(s) = 1..(b - a + 1) /\ s.at = at
    <3> HIDE DEF at, hd, sl, a, b
    <3> QED BY <2>3, <2>5 DEF Samples
  <2>9. TrackShape(s)
    <3>1. s \in [at : Seq(Int), heading : Seq(Int), slow : SUBSET Int] /\ Len(s.heading) = Len(s.at)
      <4> HIDE DEF at, hd, sl, s, a, b
      <4> QED BY <2>3, <2>5, <2>6, <2>7
    <3>2. ASSUME NEW i \in Samples(s), NEW k \in Samples(s), i < k PROVE s.at[i] < s.at[k]
      <4>1. a + i - 1 \in 1..n /\ a + k - 1 \in 1..n /\ a + i - 1 < a + k - 1
            /\ i \in 1..(b - a + 1) /\ k \in 1..(b - a + 1)
        <5> HIDE DEF a, b, n, s
        <5> QED BY <1>1, <2>2, <2>8, <3>2
      <4> HIDE DEF a, b, n, s, at
      <4> QED BY <1>1, <2>5, <2>8, <4>1 DEF TrackShape
    <3> QED BY <3>1, <3>2 DEF TrackShape
  <2>10. ASSUME NEW i \in Samples(s)
         PROVE  /\ s.at[i] \in {trk.at[k] : k \in Samples(trk)}
                /\ lo # None => s.at[i] >= lo
                /\ hi # None => s.at[i] <= hi
    <3> DEFINE k == a + i - 1
    <3>1. k \in 1..n /\ a <= k /\ k <= b /\ i \in 1..(b - a + 1)
      <4> HIDE DEF a, b, n, s
      <4> QED BY <1>1, <2>2, <2>8
    <3>2. s.at[i] = trk.at[k]
      <4> HIDE DEF a, b, n, s, at
      <4> QED BY <2>5, <2>8, <3>1
    <3>3. trk.at[a] <= trk.at[k] /\ trk.at[k] <= trk.at[b]
      <4> HIDE DEF a, b, n, k
      <4> QED BY <1>1, <2>2, <3>1, InOrder
    <3>4. (lo # None => trk.at[a] >= lo) /\ (hi # None => trk.at[b] <= hi)
      <4> HIDE DEF a, b
      <4> QED BY <2>1
    <3>5. trk.at[a] \in Int /\ trk.at[b] \in Int /\ trk.at[k] \in Int
      <4> HIDE DEF a, b, k
      <4> QED BY <1>1, <2>2, <3>1
    <3> HIDE DEF a, b, k, s
    <3> QED BY <1>1, <3>1, <3>2, <3>3, <3>4, <3>5 DEF Maybe
  <2> QED BY <2>9, <2>10
<1> QED BY <1>2, <1>3

\* Maneuvers are in the order they were found, Spacing apart.
ManeuverInv ==
    Analysing =>
        /\ IsFiniteSet(maneuvers)
        /\ \A x \in maneuvers : /\ x.start \in {track.at[i] : i \in Samples(track)}
                                /\ x.end \in {track.at[i] : i \in Samples(track)}
                                /\ x.start <= x.end
        /\ \A x, y \in maneuvers : x = y \/ Apart(x, y, Spacing)
        /\ IF lastEnd = None THEN maneuvers = {}
           ELSE lastEnd \in Int /\ \A x \in maneuvers : x.end <= lastEnd
        /\ legs \subseteq Stretches(track, maneuvers)

JobInv == LoadInv /\ ManeuverInv

LEMMA JobInit == Init => JobInv
BY FS_EmptySet DEF Init, JobInv, LoadInv, ManeuverInv, Analysing, Maybe

LEMMA JobStays == JobInv /\ UNCHANGED jobVars => JobInv'
<1> SUFFICES ASSUME JobInv, UNCHANGED jobVars PROVE JobInv'
  OBVIOUS
<1>1. /\ job' = job /\ track' = track /\ pivots' = pivots /\ todo' = todo /\ result' = result
      /\ maneuvers' = maneuvers /\ lastEnd' = lastEnd /\ legs' = legs
  BY DEF jobVars
<1> QED BY <1>1 DEF JobInv, LoadInv, ManeuverInv, Analysing, Inside

LEMMA JobLoads == JobInv /\ Load => JobInv'
<1> SUFFICES ASSUME JobInv, Load PROVE JobInv'
  OBVIOUS
<1>1. /\ job \in Jobs /\ job.manual = None /\ result = "none" /\ job' = job
      /\ maneuvers' = {} /\ lastEnd' = None /\ legs' = {}
      /\ track' = Slice(job.track, job.lo, job.hi)
  BY DEF Load, JobInv, LoadInv, Maybe
<1>2. TrackShape(job.track) /\ job.lo \in Maybe(Int) /\ job.hi \in Maybe(Int)
  BY <1>1, JobAssumption
<1> DEFINE s == Slice(job.track, job.lo, job.hi)
<1>3. TrackShape(s) /\ \A i \in Samples(s) : Inside(s.at[i])
  BY <1>2, SliceIs DEF Inside
<1> HIDE DEF s
<1>4. CASE track'.at = <<>>
  <2>1. result' = "no_gps"
    BY <1>4 DEF Load
  <2> QED BY <1>1, <2>1, JobAssumption DEF JobInv, LoadInv, ManeuverInv, Analysing, Maybe
<1>5. CASE track'.at # <<>>
  <2>1. result' = "detecting" /\ pivots' = CandidatePivots(track)' /\ todo' = pivots'
    BY <1>5 DEF Load
  <2>2. Analysing'
    BY <1>1, <2>1, JobAssumption DEF Analysing
  <2>3. track' = s /\ pivots' = CandidatePivots(track')
    BY <1>1, <2>1 DEF s
  <2>4. LoadInv'
    <3>1. /\ TrackShape(track')
          /\ \A i \in Samples(track') : /\ job'.lo # None => track'.at[i] >= job'.lo
                                        /\ job'.hi # None => track'.at[i] <= job'.hi
      BY <1>1, <1>3, <2>3 DEF Inside
    <3>2. job' # None /\ job' \in Maybe(Jobs)
      BY <1>1, JobAssumption DEF Maybe
    <3> QED BY <1>1, <1>5, <2>1, <2>2, <3>1, <3>2 DEF LoadInv, Inside
  <2>5. ManeuverInv'
    BY <1>1, FS_EmptySet DEF ManeuverInv
  <2> QED BY <2>4, <2>5 DEF JobInv
<1> QED BY <1>4, <1>5

LEMMA PivotIs ==
    ASSUME JobInv, result = "detecting", todo # {}
    PROVE  Pivot \in todo /\ Pivot \in Samples(track)
<1>1. TrackShape(track) /\ todo \subseteq Samples(track)
  BY PivotIsSample DEF JobInv, LoadInv
<1>2. todo \in SUBSET (1..Len(track.at)) /\ 1 \in Int /\ Len(track.at) \in Int /\ todo # {}
  BY <1>1, SamplesIs
<1>3. Least(todo) \in todo
  BY ONLY <1>2, Bounded
<1> QED BY <1>1, <1>3 DEF Pivot

LEMMA JobSkips == JobInv /\ Skip => JobInv'
<1> SUFFICES ASSUME JobInv, Skip PROVE JobInv'
  OBVIOUS
<1>1. /\ job' = job /\ track' = track /\ pivots' = pivots /\ todo' \subseteq todo /\ result' = result
      /\ maneuvers' = maneuvers /\ lastEnd' = lastEnd /\ legs' = legs
  BY DEF Skip
<1> QED BY <1>1 DEF JobInv, LoadInv, ManeuverInv, Analysing, Inside

LEMMA JobDecides ==
    ASSUME JobInv, NEW loss, NEW rate, Decide(loss, rate)
    PROVE  JobInv'
<1>1. /\ job' = job /\ track' = track /\ pivots' = pivots /\ todo' \subseteq todo /\ result' = result
      /\ legs' = legs /\ result = "detecting" /\ todo # {} /\ ~TooClose
  BY DEF Decide
<1>2. LoadInv'
  BY <1>1 DEF JobInv, LoadInv, Analysing, Inside
<1>3. Analysing /\ legs = {} /\ TrackShape(track)
  BY <1>1 DEF JobInv, LoadInv
<1>4. CASE UNCHANGED <<maneuvers, lastEnd>>
  BY <1>1, <1>2, <1>4 DEF JobInv, ManeuverInv, Analysing
<1>5. CASE ~UNCHANGED <<maneuvers, lastEnd>>
  <2> DEFINE kind == Classify(Cand, loss, rate, job.axis, wind # "none")
             new == [start |-> Cand.start, end |-> Cand.end, kind |-> kind, change |-> Cand.change]
  <2>1. maneuvers' = maneuvers \cup {new} /\ lastEnd' = Cand.end
    BY <1>5 DEF Decide, EndOfLast
  <2>2. new.start = Cand.start /\ new.end = Cand.end
    OBVIOUS
  <2> HIDE DEF new
  <2>3. /\ Cand.start \in {track.at[i] : i \in Samples(track)}
        /\ Cand.end \in {track.at[i] : i \in Samples(track)}
        /\ Cand.start <= Cand.end /\ Cand.start \in Int /\ Cand.end \in Int
    <3>1. Pivot \in Samples(track)
      BY <1>1, PivotIs
    <3>2. StartOf(track, Pivot) \in Samples(track) /\ EndOf(track, Pivot) \in Samples(track)
      BY <1>3, <3>1, StartIs, EndIs
    <3>3. /\ Cand.start = track.at[StartOf(track, Pivot)] /\ Cand.end = track.at[EndOf(track, Pivot)]
          /\ Cand.start <= Cand.end
      BY <1>3, <3>1, CandidateIs DEF Cand
    <3> HIDE DEF Cand
    <3> QED BY <1>3, <3>2, <3>3, SamplesIs
  <2>4. \A x \in maneuvers : x.start \in Int /\ x.end \in Int
    BY <1>3, SamplesIs DEF JobInv, ManeuverInv
  <2>5. \A x \in maneuvers : x.end + Spacing <= new.start /\ x.end <= new.end
    <3>1. CASE lastEnd = None
      BY <1>3, <3>1 DEF JobInv, ManeuverInv
    <3>2. CASE lastEnd # None
      <4>1. lastEnd \in Int /\ ~(Cand.start < lastEnd + Spacing) /\ \A x \in maneuvers : x.end <= lastEnd
        BY <1>1, <1>3, <3>2 DEF JobInv, ManeuverInv, TooClose
      <4> QED BY <2>2, <2>3, <2>4, <4>1 DEF Spacing
    <3> QED BY <3>1, <3>2
  <2>6. IsFiniteSet(maneuvers')
    BY <1>3, <2>1, FS_AddElement DEF JobInv, ManeuverInv
  <2>7. \A x \in maneuvers' : /\ x.start \in {track.at[i] : i \in Samples(track)}
                              /\ x.end \in {track.at[i] : i \in Samples(track)}
                              /\ x.start <= x.end
    BY <1>3, <2>1, <2>2, <2>3 DEF JobInv, ManeuverInv
  <2>8. \A x, y \in maneuvers' : x = y \/ Apart(x, y, Spacing)
    BY <1>3, <2>1, <2>5 DEF JobInv, ManeuverInv, Apart
  <2>9. lastEnd' # None /\ lastEnd' \in Int /\ \A x \in maneuvers' : x.end <= lastEnd'
    BY <2>1, <2>2, <2>3, <2>5, JobAssumption
  <2>10. ManeuverInv'
    BY <1>1, <1>3, <2>6, <2>7, <2>8, <2>9 DEF ManeuverInv
  <2> QED BY <1>2, <2>10 DEF JobInv
<1> QED BY <1>4, <1>5

LEMMA JobMeasures == JobInv /\ Measure => JobInv'
<1> SUFFICES ASSUME JobInv, Measure PROVE JobInv'
  OBVIOUS
<1>1. /\ job' = job /\ track' = track /\ pivots' = pivots /\ todo' = todo /\ result' = "posted"
      /\ maneuvers' = maneuvers /\ lastEnd' = lastEnd /\ result = "detecting"
      /\ legs' \in SUBSET Stretches(track, maneuvers)
  BY DEF Measure
<1>2. Analysing
  BY <1>1 DEF JobInv, LoadInv
<1>3. LoadInv'
  BY <1>1, <1>2 DEF JobInv, LoadInv, Analysing, Inside
<1>4. ManeuverInv'
  BY <1>1, <1>2 DEF JobInv, ManeuverInv, Analysing
<1> QED BY <1>3, <1>4 DEF JobInv

LEMMA JobEnds == JobInv /\ (MeasureRaises \/ ComputeManual) => JobInv'
<1> SUFFICES ASSUME JobInv, MeasureRaises \/ ComputeManual PROVE JobInv'
  OBVIOUS
<1>1. job' = job /\ job # None /\ (result' = "raised" \/ (result' = "posted" /\ job.manual # None))
  BY DEF MeasureRaises, ComputeManual, JobInv, LoadInv, Analysing
<1> QED BY <1>1 DEF JobInv, LoadInv, ManeuverInv, Analysing

LEMMA JobNext == JobInv /\ [Next]_vars => JobInv'
<1> SUFFICES ASSUME JobInv, [Next]_vars PROVE JobInv'
  OBVIOUS
<1>1. CASE \E f \in bundle : FileMerged(f) \/ FileFails(f)
  BY <1>1, JobStays DEF FileMerged, FileFails
<1>2. CASE \E loss \in Losses, rate \in Rates : Decide(loss, rate)
  BY <1>2, JobDecides
<1>3. CASE UNCHANGED vars
  BY <1>3, JobStays DEF vars
<1> QED BY <1>1, <1>2, <1>3, JobLoads, JobSkips, JobMeasures, JobEnds DEF Next

LEMMA JobAlways == Spec => []JobInv
BY JobInit, JobNext, PTL DEF Spec

\* A track turned by any angle has the same candidates at the same instants,
\* for every track and every trim.
THEOREM AnyHeading == Spec => [](Started => \A angle \in Int : SameTurnedBy(angle))
<1>1. JobInv => (Started => \A angle \in Int : SameTurnedBy(angle))
  <2> SUFFICES ASSUME JobInv, Started, NEW angle \in Int PROVE SameTurnedBy(angle)
    OBVIOUS
  <2>1. TrackShape(track) /\ pivots = CandidatePivots(track)
    BY DEF JobInv, LoadInv, Started
  <2>2. SameTurns(Rotated(track, angle), track)
    BY <2>1, RotatedIs DEF SameTurns
  <2>3. pivots \subseteq Samples(track)
    BY <2>1, PivotIsSample
  <2> QED BY <2>1, <2>2, <2>3, SameCandidates DEF SameTurnedBy
<1> QED BY <1>1, JobAlways, PTL

\* So it has on the headings that the runs try.
THEOREM EveryHeading == Spec => []SameOnEveryHeading
<1>1. (Started => \A angle \in Int : SameTurnedBy(angle)) => SameOnEveryHeading
  BY DEF SameOnEveryHeading
<1> QED BY <1>1, AnyHeading, PTL

-----------------------------------------------------------------------------
(* No wide turn is missed.                                                 *)

\* A sequence of numbers that never falls from one to the next never falls.
LEMMA Monotone ==
    ASSUME NEW lo \in Int, NEW hi \in Int, NEW f,
           \A s \in lo..hi : f[s] \in Int, \A s \in lo..(hi - 1) : f[s] <= f[s + 1]
    PROVE  \A s, t \in lo..hi : s <= t => f[s] <= f[t]
<1> SUFFICES ASSUME NEW s \in lo..hi, NEW u \in lo..hi, s <= u, f[u] < f[s] PROVE FALSE
  OBVIOUS
<1> DEFINE bad == {t \in s..hi : f[t] < f[s]}
<1>1. bad \in SUBSET (s..hi) /\ bad # {} /\ s \in Int
  OBVIOUS
<1>2. PICK t \in bad : \A y \in bad : t <= y
  <2> HIDE DEF bad
  <2> QED BY <1>1, Bounded
<1>3. t \in Int /\ t # s /\ t - 1 \in s..hi /\ t - 1 \in lo..(hi - 1)
  BY <1>2
<1>4. f[t - 1] <= f[t] /\ f[t] < f[s] /\ f[t - 1] \in Int /\ f[t] \in Int
  BY <1>2, <1>3
<1> QED BY <1>2, <1>3, <1>4

\* Angles add up, but for a whole circle.
Sums(x, y, z) == z = x + y \/ z = x + y + 360 \/ z = x + y - 360

LEMMA InRange ==
    ASSUME NEW d \in Int, NEW x \in -180..179, NEW y \in -180..179, NEW z \in -180..179,
           z = x + y + 360 * d
    PROVE  Sums(x, y, z)
<1>1. d = -1 \/ d = 0 \/ d = 1
  OBVIOUS
<1> QED BY <1>1 DEF Sums

\* Added to one side, to one side.
LEMMA SumIs ==
    \A x, y, z \in -180..179 : Sums(x, y, z) =>
        /\ y = 0 => z = x
        /\ x >= 0 /\ y > Rate /\ z > 0 => Abs(z) - Abs(x) = Abs(y) /\ Abs(y) >= 3
        /\ x <= 0 /\ y < -Rate /\ z < 0 => Abs(z) - Abs(x) = Abs(y) /\ Abs(y) >= 3
BY DEF Sums, Abs, Rate

LEMMA BetweenIs ==
    \A x, y, z \in -180..179 :
        Sums(x, y, z) /\ ((x >= 0 /\ z >= 0) \/ (x <= 0 /\ z <= 0))
            => Abs(y) = Abs(Abs(z) - Abs(x))
BY DEF Sums, Abs

LEMMA Composed ==
    ASSUME NEW a \in Int, NEW b \in Int, NEW c \in Int
    PROVE  Sums(Diff(b, a), Diff(c, b), Diff(c, a))
<1> DEFINE x == (c - a + 180) \div 360
           y == (b - a + 180) \div 360
           z == (c - b + 180) \div 360
<1>1. x \in Int /\ y \in Int /\ z \in Int
  OBVIOUS
<1>2. /\ Diff(c, a) = c - a - 360 * x
      /\ Diff(b, a) = b - a - 360 * y
      /\ Diff(c, b) = c - b - 360 * z
  BY DEF Diff
<1>3. Diff(c, a) \in -180..179 /\ Diff(b, a) \in -180..179 /\ Diff(c, b) \in -180..179
  BY DiffIs
<1> HIDE DEF x, y, z
<1>4. Diff(c, a) = Diff(b, a) + Diff(c, b) + 360 * (y + z - x) /\ y + z - x \in Int
  BY <1>1, <1>2
<1> QED BY <1>3, <1>4, InRange

LEMMA TurnsCompose ==
    ASSUME NEW trk, TrackShape(trk),
           NEW i \in Samples(trk), NEW s \in Samples(trk), NEW t \in Samples(trk)
    PROVE  /\ Turned(trk, i, s) \in -180..179
           /\ Turned(trk, i, i) = 0
           /\ Sums(Turned(trk, i, s), Turned(trk, s, t), Turned(trk, i, t))
<1>1. trk.heading[i] \in Int /\ trk.heading[s] \in Int /\ trk.heading[t] \in Int
  BY SamplesIs
<1>2. \A x \in Int : Diff(x, x) = 0
  BY DEF Diff
<1>3. Turned(trk, i, s) \in -180..179 /\ Turned(trk, i, i) = 0
  BY <1>1, <1>2, DiffIs DEF Turned
<1>4. Sums(Turned(trk, i, s), Turned(trk, s, t), Turned(trk, i, t))
  BY <1>1, Composed DEF Turned
<1> QED BY <1>3, <1>4

LEMMA AbsRange == \A x \in -180..179 : Abs(x) \in 0..180 /\ (Abs(x) = x \/ Abs(x) = -x)
BY DEF Abs

\* A steady leg has one heading.
LEMMA SteadyIs ==
    ASSUME NEW trk, TrackShape(trk), NEW lo \in Int, NEW hi \in Int, Steady(trk, lo, hi)
    PROVE  \A s, t \in lo..hi : Turned(trk, s, t) = 0
<1>1. \A s \in lo..hi : s \in Samples(trk)
  BY SamplesIs DEF Steady
<1>2. ASSUME NEW s \in lo..hi, NEW u \in lo..hi, s <= u PROVE Turned(trk, s, u) = 0
  <2> SUFFICES ASSUME Turned(trk, s, u) # 0 PROVE FALSE
    OBVIOUS
  <2> DEFINE bad == {t \in s..hi : Turned(trk, s, t) # 0}
  <2>1. bad \in SUBSET (s..hi) /\ bad # {} /\ s \in Int
    BY <1>2
  <2>2. PICK t \in bad : \A y \in bad : t <= y
    <3> HIDE DEF bad
    <3> QED BY <2>1, Bounded
  <2>3. t \in s..hi /\ Turned(trk, s, t) # 0
    BY <2>2
  <2>4. t # s
    BY <1>1, <2>3, TurnsCompose
  <2>5. t - 1 \in s..hi /\ t - 1 \in lo..(hi - 1) /\ (t - 1) + 1 = t /\ ~(t <= t - 1)
    BY <2>3, <2>4
  <2>6. Turned(trk, s, t - 1) = 0
    BY <2>2, <2>5
  <2>7. Turned(trk, t - 1, t) = 0
    BY <2>5 DEF Steady
  <2>8. Sums(Turned(trk, s, t - 1), Turned(trk, t - 1, t), Turned(trk, s, t))
    <3>1. s \in Samples(trk) /\ t - 1 \in Samples(trk) /\ t \in Samples(trk)
      BY <1>1, <2>3, <2>5
    <3> QED BY <3>1, TurnsCompose
  <2>9. Turned(trk, s, t) \in -180..179
    <3>1. s \in Samples(trk) /\ t \in Samples(trk)
      BY <1>1, <2>3
    <3> QED BY <3>1, TurnsCompose
  <2> QED BY <2>3, <2>6, <2>7, <2>8, <2>9 DEF Sums
<1>3. ASSUME NEW s \in lo..hi, NEW t \in lo..hi, s <= t PROVE Turned(trk, t, s) = 0
  <2>1. Turned(trk, s, t) = 0
    BY <1>2, <1>3
  <2>2. s \in Samples(trk) /\ t \in Samples(trk)
    BY <1>1
  <2>3. Turned(trk, s, s) = 0 /\ Turned(trk, t, s) \in -180..179
    BY <2>2, TurnsCompose
  <2>4. Sums(Turned(trk, s, t), Turned(trk, t, s), Turned(trk, s, s))
    BY <2>2, TurnsCompose
  <2> QED BY <2>1, <2>3, <2>4 DEF Sums
<1> SUFFICES ASSUME NEW s \in lo..hi, NEW t \in lo..hi PROVE Turned(trk, s, t) = 0
  OBVIOUS
<1>4. s <= t \/ t <= s
  OBVIOUS
<1> QED BY <1>2, <1>3, <1>4

\* How far the boat has turned, from i on.
Far(trk, i) == [s \in (i - 10)..Len(trk.at) |-> NetTurn(trk, i, s)]

\* What the detector sees of a wide turn, to either side: th turns only.
Unrolled(trk, i, k, th) ==
    LET W == (i - 10)..(k + 10)
    IN /\ i \in Int /\ k \in (i + 1)..(i + 20)
       /\ i >= 11 /\ k + 10 <= Len(trk.at)
       /\ \A s \in W : s \in Samples(trk) /\ th[s] \in Int
       /\ \A s, t \in W : trk.at[t] - trk.at[s] = t - s
       /\ \A s, t \in W : s <= t => NetTurn(trk, s, t) = th[t] - th[s] /\ th[s] <= th[t]
       /\ \A s \in W : (s <= i => th[s] = 0) /\ (k <= s => th[s] = th[k])
       /\ \A s, t \in i..k : s <= t => th[t] - th[s] >= 3 * (t - s)
       /\ \A s \in i..(k - 1) : th[k] >= 25 + th[s + 1] - th[s]
       /\ (i - 10)..k \cap trk.slow = {}

LEMMA WideIsUnrolled ==
    ASSUME NEW trk, TrackShape(trk), NEW i \in Int, NEW k \in Int,
           i < k, k <= i + 20, WideTurn(trk, i, k)
    PROVE  Unrolled(trk, i, k, Far(trk, i))
<1> DEFINE W == (i - 10)..(k + 10)
           th == Far(trk, i)
           T(s, t) == Turned(trk, s, t)
<1>1. i \in Int /\ i >= 11 /\ k \in (i + 1)..(i + 20) /\ k + 10 <= Len(trk.at) /\ Len(trk.at) \in Nat
  <2>1. i - 10 >= 1 /\ k + 10 <= Len(trk.at)
    BY DEF WideTurn, Steady
  <2> QED BY <2>1, SamplesIs
<1>2. \A s \in W : s \in Samples(trk) /\ trk.at[s] \in Int
  BY <1>1, SamplesIs
<1>3. \A s \in W : th[s] = Abs(T(i, s)) /\ T(i, s) \in -180..179 /\ th[s] \in 0..180
  <2> SUFFICES ASSUME NEW s \in W
               PROVE  th[s] = Abs(T(i, s)) /\ T(i, s) \in -180..179 /\ th[s] \in 0..180
    OBVIOUS
  <2>1. s \in (i - 10)..Len(trk.at) /\ s \in Samples(trk) /\ i \in Samples(trk)
    BY <1>1, <1>2
  <2>2. th[s] = Abs(T(i, s))
    BY <2>1 DEF Far, NetTurn
  <2>3. T(i, s) \in -180..179
    BY <2>1, TurnsCompose
  <2> QED BY <2>2, <2>3, AbsRange
<1>4. \A s, t \in W : T(s, t) \in -180..179
                    /\ Sums(T(i, s), T(s, t), T(i, t))
  <2> SUFFICES ASSUME NEW s \in W, NEW t \in W
               PROVE  T(s, t) \in -180..179 /\ Sums(T(i, s), T(s, t), T(i, t))
    OBVIOUS
  <2>1. i \in Samples(trk) /\ s \in Samples(trk) /\ t \in Samples(trk)
    BY <1>1, <1>2
  <2> QED BY <2>1, TurnsCompose
\* Straight before and after.
<1>5. \A s \in W : (s <= i => T(i, s) = 0) /\ (k <= s => T(i, s) = T(i, k))
  <2> SUFFICES ASSUME NEW s \in W PROVE (s <= i => T(i, s) = 0) /\ (k <= s => T(i, s) = T(i, k))
    OBVIOUS
  <2>1. ASSUME s <= i PROVE T(i, s) = 0
    <3>1. Steady(trk, i - 10, i) /\ i - 10 \in Int /\ s \in (i - 10)..i /\ i \in (i - 10)..i
      BY <1>1, <2>1 DEF WideTurn
    <3> QED BY <1>1, <3>1, SteadyIs
  <2>2. ASSUME k <= s PROVE T(i, s) = T(i, k)
    <3>1. Steady(trk, k, k + 10) /\ k \in Int /\ s \in k..(k + 10) /\ k \in k..(k + 10) /\ k \in W
      BY <1>1, <2>2 DEF WideTurn
    <3>2. T(k, s) = 0
      BY <3>1, SteadyIs
    <3>3. Sums(T(i, k), T(k, s), T(i, s))
      BY <1>4, <3>1
    <3>4. T(i, s) \in -180..179 /\ T(i, k) \in -180..179
      BY <1>3, <3>1
    <3>5. T(k, s) \in -180..179
      BY <1>4, <3>1
    <3> QED BY <3>2, <3>3, <3>4, <3>5, SumIs
  <2> QED BY <2>1, <2>2
\* To one side, by each step in turn.
<1>6. /\ \A s \in i..(k - 1) : th[s + 1] - th[s] = Abs(T(s, s + 1)) /\ Abs(T(s, s + 1)) >= 3
      /\ (\A s \in W : T(i, s) >= 0) \/ (\A s \in W : T(i, s) <= 0)
  <2>1. ASSUME NEW s \in i..(k - 1)
        PROVE  /\ s \in W /\ s + 1 \in W /\ s \in Int
               /\ T(s, s + 1) \in -180..179 /\ T(i, s) \in -180..179 /\ T(i, s + 1) \in -180..179
               /\ Sums(T(i, s), T(s, s + 1), T(i, s + 1))
    <3>1. s \in W /\ s + 1 \in W /\ s \in Int
      BY <1>1
    <3> QED BY <3>1, <1>3, <1>4
  <2>2. CASE \A s \in i..(k - 1) : T(s, s + 1) > Rate /\ T(i, s + 1) > 0
    <3>1. \A s \in i..k : T(i, s) >= 0
      <4> SUFFICES ASSUME NEW s \in i..k PROVE T(i, s) >= 0
        OBVIOUS
      <4>1. T(i, s) \in Int
        <5>1. s \in W
          BY <1>1
        <5>2. T(i, s) \in -180..179
          BY <1>3, <5>1
        <5> HIDE DEF T
        <5> QED BY <5>2
      <4>2. CASE s = i
        BY <1>1, <1>5, <4>2
      <4>3. CASE s # i
        <5> DEFINE u == s - 1
        <5>1. u \in i..(k - 1) /\ u + 1 = s
          BY <1>1, <4>3
        <5> HIDE DEF u
        <5>2. T(i, u + 1) > 0
          BY <2>2, <5>1
        <5>3. T(i, s) > 0
          BY <5>1, <5>2
        <5> HIDE DEF T
        <5> QED BY <4>1, <5>3
      <4> QED BY <4>2, <4>3
    <3>2. ASSUME NEW s \in i..(k - 1)
          PROVE  th[s + 1] - th[s] = Abs(T(s, s + 1)) /\ Abs(T(s, s + 1)) >= 3
      <4>1. T(i, s) >= 0 /\ T(i, s + 1) > 0 /\ T(s, s + 1) > Rate
        BY <1>1, <2>2, <3>1
      <4>2. th[s] = Abs(T(i, s)) /\ th[s + 1] = Abs(T(i, s + 1))
        BY <1>3, <2>1
      <4>3. /\ T(s, s + 1) \in -180..179 /\ T(i, s) \in -180..179 /\ T(i, s + 1) \in -180..179
            /\ Sums(T(i, s), T(s, s + 1), T(i, s + 1))
        BY <2>1
      <4> HIDE DEF th, T
      <4>4. Abs(T(i, s + 1)) - Abs(T(i, s)) = Abs(T(s, s + 1)) /\ Abs(T(s, s + 1)) >= 3
        <5> DEFINE x == T(i, s)
                   y == T(s, s + 1)
                   z == T(i, s + 1)
        <5>1. x \in -180..179 /\ y \in -180..179 /\ z \in -180..179 /\ Sums(x, y, z)
              /\ x >= 0 /\ y > Rate /\ z > 0
          BY <4>1, <4>3
        <5> HIDE DEF x, y, z
        <5>2. Abs(z) - Abs(x) = Abs(y) /\ Abs(y) >= 3
          BY <5>1, SumIs
        <5> QED BY <5>2 DEF x, y, z
      <4> QED BY <4>2, <4>4
    <3>3. \A s \in W : T(i, s) >= 0
      <4> SUFFICES ASSUME NEW s \in W PROVE T(i, s) >= 0
        OBVIOUS
      <4>1. s \in i..k \/ s <= i \/ k <= s
        BY <1>1
      <4>2. k \in i..k
        BY <1>1
      <4> QED BY <1>5, <3>1, <4>1, <4>2
    <3> QED BY <3>2, <3>3
  <2>3. CASE \A s \in i..(k - 1) : T(s, s + 1) < -Rate /\ T(i, s + 1) < 0
    <3>1. \A s \in i..k : T(i, s) <= 0
      <4> SUFFICES ASSUME NEW s \in i..k PROVE T(i, s) <= 0
        OBVIOUS
      <4>1. T(i, s) \in Int
        <5>1. s \in W
          BY <1>1
        <5>2. T(i, s) \in -180..179
          BY <1>3, <5>1
        <5> HIDE DEF T
        <5> QED BY <5>2
      <4>2. CASE s = i
        BY <1>1, <1>5, <4>2
      <4>3. CASE s # i
        <5> DEFINE u == s - 1
        <5>1. u \in i..(k - 1) /\ u + 1 = s
          BY <1>1, <4>3
        <5> HIDE DEF u
        <5>2. T(i, u + 1) < 0
          BY <2>3, <5>1
        <5>3. T(i, s) < 0
          BY <5>1, <5>2
        <5> HIDE DEF T
        <5> QED BY <4>1, <5>3
      <4> QED BY <4>2, <4>3
    <3>2. ASSUME NEW s \in i..(k - 1)
          PROVE  th[s + 1] - th[s] = Abs(T(s, s + 1)) /\ Abs(T(s, s + 1)) >= 3
      <4>1. T(i, s) <= 0 /\ T(i, s + 1) < 0 /\ T(s, s + 1) < -Rate
        BY <1>1, <2>3, <3>1
      <4>2. th[s] = Abs(T(i, s)) /\ th[s + 1] = Abs(T(i, s + 1))
        BY <1>3, <2>1
      <4>3. /\ T(s, s + 1) \in -180..179 /\ T(i, s) \in -180..179 /\ T(i, s + 1) \in -180..179
            /\ Sums(T(i, s), T(s, s + 1), T(i, s + 1))
        BY <2>1
      <4> HIDE DEF th, T
      <4>4. Abs(T(i, s + 1)) - Abs(T(i, s)) = Abs(T(s, s + 1)) /\ Abs(T(s, s + 1)) >= 3
        <5> DEFINE x == T(i, s)
                   y == T(s, s + 1)
                   z == T(i, s + 1)
        <5>1. x \in -180..179 /\ y \in -180..179 /\ z \in -180..179 /\ Sums(x, y, z)
              /\ x <= 0 /\ y < -Rate /\ z < 0
          BY <4>1, <4>3
        <5> HIDE DEF x, y, z
        <5>2. Abs(z) - Abs(x) = Abs(y) /\ Abs(y) >= 3
          BY <5>1, SumIs
        <5> QED BY <5>2 DEF x, y, z
      <4> QED BY <4>2, <4>4
    <3>3. \A s \in W : T(i, s) <= 0
      <4> SUFFICES ASSUME NEW s \in W PROVE T(i, s) <= 0
        OBVIOUS
      <4>1. s \in i..k \/ s <= i \/ k <= s
        BY <1>1
      <4>2. k \in i..k
        BY <1>1
      <4> QED BY <1>5, <3>1, <4>1, <4>2
    <3> QED BY <3>2, <3>3
  <2> QED BY <2>2, <2>3 DEF WideTurn
<1>7. ASSUME NEW s \in W, NEW t \in W PROVE NetTurn(trk, s, t) = Abs(th[t] - th[s])
  <2>1. /\ T(i, s) \in -180..179 /\ T(s, t) \in -180..179 /\ T(i, t) \in -180..179
        /\ Sums(T(i, s), T(s, t), T(i, t))
        /\ (T(i, s) >= 0 /\ T(i, t) >= 0) \/ (T(i, s) <= 0 /\ T(i, t) <= 0)
    <3>1. T(i, s) \in -180..179 /\ T(i, t) \in -180..179
      BY <1>3
    <3>2. T(s, t) \in -180..179 /\ Sums(T(i, s), T(s, t), T(i, t))
      BY <1>4
    <3>3. (T(i, s) >= 0 /\ T(i, t) >= 0) \/ (T(i, s) <= 0 /\ T(i, t) <= 0)
      <4>1. CASE \A u \in W : T(i, u) >= 0
        <5>1. T(i, s) >= 0
          BY <4>1
        <5>2. T(i, t) >= 0
          BY <4>1
        <5> QED BY <5>1, <5>2
      <4>2. CASE \A u \in W : T(i, u) <= 0
        BY <4>2
      <4> QED BY <1>6, <4>1, <4>2
    <3> QED BY <3>1, <3>2, <3>3
  <2>2. th[s] = Abs(T(i, s)) /\ th[t] = Abs(T(i, t))
    BY <1>3
  <2>3. Abs(T(s, t)) = Abs(Abs(T(i, t)) - Abs(T(i, s)))
    <3> DEFINE x == T(i, s)
               y == T(s, t)
               z == T(i, t)
    <3>1. /\ x \in -180..179 /\ y \in -180..179 /\ z \in -180..179
          /\ Sums(x, y, z) /\ ((x >= 0 /\ z >= 0) \/ (x <= 0 /\ z <= 0))
      BY <2>1
    <3> HIDE DEF x, y, z
    <3>2. Abs(y) = Abs(Abs(z) - Abs(x))
      BY <3>1, BetweenIs
    <3> QED BY <3>2 DEF x, y, z
  <2> QED BY <2>2, <2>3 DEF NetTurn
<1>8. \A s \in W : th[s] \in Int /\ (s <= i => th[s] = 0) /\ (k <= s => th[s] = th[k])
  <2>1. k \in W /\ Abs(0) = 0
    BY <1>1 DEF Abs
  <2> QED BY <1>3, <1>5, <2>1
<1>9. \A s, t \in i..k : s <= t => th[t] - th[s] >= 3 * (t - s)
  <2> DEFINE f == [s \in i..k |-> th[s] - 3 * s]
  <2>1. \A s \in i..k : s \in W /\ f[s] = th[s] - 3 * s /\ f[s] \in Int /\ th[s] \in Int
    BY <1>8
  <2>2. ASSUME NEW s \in i..(k - 1) PROVE f[s] <= f[s + 1]
    <3>1. s \in i..k /\ s + 1 \in i..k /\ th[s + 1] - th[s] >= 3
      BY <1>6
    <3>2. f[s] = th[s] - 3 * s /\ f[s + 1] = th[s + 1] - 3 * (s + 1)
          /\ th[s] \in Int /\ th[s + 1] \in Int
      BY <2>1, <3>1
    <3> HIDE DEF f, th
    <3> QED BY <3>1, <3>2
  <2> HIDE DEF f
  <2>3. \A s, t \in i..k : s <= t => f[s] <= f[t]
    BY <2>1, <2>2, Monotone
  <2> HIDE DEF th
  <2> SUFFICES ASSUME NEW s \in i..k, NEW t \in i..k, s <= t PROVE th[t] - th[s] >= 3 * (t - s)
    OBVIOUS
  <2>4. f[s] = th[s] - 3 * s /\ f[t] = th[t] - 3 * t /\ th[s] \in Int /\ th[t] \in Int
    BY <2>1
  <2> QED BY <2>3, <2>4
<1>10. \A s, t \in W : s <= t => th[s] <= th[t]
  <2>1. \A s \in i..k : s \in W /\ th[s] \in Int
    BY <1>8
  <2>2. th[i] = 0 /\ k \in W
    BY <1>8
  <2>3. \A s, t \in i..k : s <= t => th[s] <= th[t]
    <3> HIDE DEF th
    <3> QED BY <1>9, <2>1
  <2> SUFFICES ASSUME NEW s \in W, NEW t \in W, s <= t PROVE th[s] <= th[t]
    OBVIOUS
  <2>4. th[s] \in Int /\ th[t] \in Int /\ th[k] \in Int /\ 0 <= th[t] /\ s \in Int /\ t \in Int
    BY <1>3, <1>8, <2>2
  <2> HIDE DEF th
  <2>5. CASE s <= i
    BY <1>8, <2>4, <2>5
  <2>6. CASE k <= s
    BY <1>8, <2>4, <2>6
  <2>7. CASE i < s /\ t <= k
    BY <2>3, <2>4, <2>7
  <2>8. CASE i < s /\ s < k /\ k < t
    BY <1>8, <2>3, <2>4, <2>8
  <2> QED BY <2>4, <2>5, <2>6, <2>7, <2>8
<1>11. \A s, t \in W : trk.at[t] - trk.at[s] = t - s
  <2> DEFINE f == [s \in W |-> trk.at[s] - s]
             g == [s \in W |-> s - trk.at[s]]
  <2>1. \A s \in W : /\ f[s] = trk.at[s] - s /\ g[s] = s - trk.at[s]
                     /\ f[s] \in Int /\ g[s] \in Int /\ trk.at[s] \in Int
    BY <1>2
  <2>2. ASSUME NEW s \in (i - 10)..(k + 10 - 1) PROVE f[s] <= f[s + 1] /\ g[s] <= g[s + 1]
    <3>1. s \in W /\ s + 1 \in W /\ s \in (i - 10)..(k + 9)
      OBVIOUS
    <3>2. trk.at[s + 1] = trk.at[s] + 1
      BY <3>1 DEF WideTurn
    <3> HIDE DEF f, g
    <3> QED BY <2>1, <3>1, <3>2
  <2> HIDE DEF f, g
  <2>3. \A s, t \in W : s <= t => f[s] <= f[t] /\ g[s] <= g[t]
    <3> DEFINE lo == i - 10
               hi == k + 10
    <3>1. /\ lo \in Int /\ hi \in Int
          /\ \A s \in lo..hi : f[s] \in Int /\ g[s] \in Int
          /\ \A s \in lo..(hi - 1) : f[s] <= f[s + 1] /\ g[s] <= g[s + 1]
      BY <2>1, <2>2
    <3>2. W = lo..hi
      OBVIOUS
    <3> HIDE DEF lo, hi, W
    <3>3. \A s, t \in lo..hi : s <= t => f[s] <= f[t]
      BY <3>1, Monotone
    <3>4. \A s, t \in lo..hi : s <= t => g[s] <= g[t]
      BY <3>1, Monotone
    <3> QED BY <3>2, <3>3, <3>4
  <2> SUFFICES ASSUME NEW s \in W, NEW t \in W PROVE trk.at[t] - trk.at[s] = t - s
    OBVIOUS
  <2>4. s <= t \/ t <= s
    OBVIOUS
  <2> QED BY <2>1, <2>3, <2>4
<1>12. ASSUME NEW s \in i..(k - 1) PROVE th[k] >= 25 + th[s + 1] - th[s]
  <2>1. NetTurn(trk, i, k) >= MinTurn + Rate * Step + Abs(Turned(trk, s, s + 1))
    BY DEF WideTurn
  <2>2. k \in W
    BY <1>1
  <2>3. NetTurn(trk, i, k) = th[k] /\ th[k] \in Int
    BY <1>3, <2>2 DEF NetTurn
  <2>4. s \in W /\ s + 1 \in W
    OBVIOUS
  <2>5. th[s] \in Int /\ th[s + 1] \in Int /\ th[s + 1] - th[s] = Abs(Turned(trk, s, s + 1))
    BY <1>6, <1>8, <2>4
  <2> HIDE DEF th
  <2> QED BY <2>1, <2>3, <2>5 DEF MinTurn, Rate, Step
<1>13. ASSUME NEW s \in W, NEW t \in W, s <= t PROVE NetTurn(trk, s, t) = th[t] - th[s]
  <2>1. th[s] \in Int /\ th[t] \in Int /\ th[s] <= th[t]
    BY <1>8, <1>10, <1>13
  <2> HIDE DEF th
  <2> QED BY <1>7, <2>1 DEF Abs
<1>14. (i - 10)..k \cap trk.slow = {} /\ k \in (i + 1)..(i + 20)
  BY DEF WideTurn
<1> HIDE DEF th
<1> QED BY <1>1, <1>2, <1>8, <1>9, <1>10, <1>11, <1>12, <1>13, <1>14 DEF Unrolled, th

\* The samples of a wide turn that count as turning are one run of them.
LEMMA WideRun ==
    ASSUME NEW trk, TrackShape(trk), NEW i \in Int, NEW k \in Int, NEW th, Unrolled(trk, i, k, th)
    PROVE  \E a \in (i - 4)..i, b \in i..(k - 1) :
              /\ \A s \in a..b : th[s + 5] - th[s] > 10
              /\ th[b] >= 15
              /\ <<a, b>> \in RunsOf(CloseGaps(Turning(trk), Len(trk.at)))
<1> DEFINE W == (i - 10)..(k + 10)
           n == Len(trk.at)
           Fast == Turning(trk)
           M == CloseGaps(Fast, n)
           ahead(s) == th[s + 5] - th[s]
<1>1. i < k /\ k <= i + 20 /\ i >= 11 /\ k + 10 <= n /\ n \in Nat /\ k \in W /\ i \in W
  BY SamplesIs DEF Unrolled
<1>2. \A s, t \in W : s <= t => NetTurn(trk, s, t) = th[t] - th[s] /\ th[s] <= th[t]
  BY DEF Unrolled
<1>3. \A s \in W : th[s] \in Int /\ (s <= i => th[s] = 0) /\ (k <= s => th[s] = th[k])
  BY DEF Unrolled
<1>4. \A s, t \in i..k : s <= t => th[t] - th[s] >= 3 * (t - s)
  BY DEF Unrolled
<1>5. ASSUME NEW s \in (i - 10)..(k + 5)
      PROVE  s \in Fast <=> ahead(s) > 10
  <2>1. s \in W /\ s + 5 \in W /\ s <= s + 5 /\ s \in 1..(n - 5) /\ s + 5 = s + Step
    BY <1>1 DEF Step
  <2>2. trk.at[s + Step] - trk.at[s] = 5
    <3>1. trk.at[s + 5] - trk.at[s] = (s + 5) - s
      BY <2>1 DEF Unrolled
    <3> QED BY <2>1, <3>1
  <2>3. Abs(Turned(trk, s, s + Step)) = ahead(s)
    BY <1>2, <2>1 DEF NetTurn
  <2>4. s \in Ahead(trk)
    BY <2>1 DEF Ahead, Step
  <2> HIDE DEF ahead
  <2> QED BY <2>2, <2>3, <2>4 DEF Turning, Rate
<1>6. ahead(i) > 10
  <2>1. CASE i + 5 <= k
    <3>1. i \in i..k /\ i + 5 \in i..k /\ i <= i + 5 /\ i + 5 \in W
      BY <1>1, <2>1
    <3>2. th[i + 5] - th[i] >= 3 * ((i + 5) - i)
      BY <1>4, <3>1
    <3>3. th[i + 5] \in Int /\ th[i] \in Int
      BY <1>1, <1>3, <3>1
    <3> QED BY <3>2, <3>3
  <2>2. CASE k < i + 5
    <3>1. th[i + 5] = th[k] /\ th[i] = 0 /\ k - 1 \in i..(k - 1) /\ k - 1 \in W /\ (k - 1) + 1 = k
      BY <1>1, <1>3, <2>2
    <3>2. th[k] >= 25 + th[k] - th[k - 1]
      BY <3>1 DEF Unrolled
    <3>3. th[k - 1] <= th[k] /\ th[k - 1] \in Int /\ th[k] \in Int
      BY <1>1, <1>2, <1>3, <3>1
    <3> QED BY <3>1, <3>2, <3>3
  <2> QED BY <2>1, <2>2
\* It begins before the turn, and ends in it.
<1> DEFINE A == {s \in (i - 4)..i : ahead(s) > 10}
           B == {s \in i..(k - 1) : ahead(s) > 10}
<1>7. PICK a \in A : \A s \in A : a <= s
  <2>1. i \in A /\ A \in SUBSET ((i - 4)..i) /\ i - 4 \in Int
    BY <1>6
  <2> HIDE DEF A
  <2> QED BY <2>1, Bounded
<1>8. PICK b \in B : \A s \in B : s <= b
  <2> DEFINE end == k - 1
  <2>1. i \in B /\ B \in SUBSET (i..end) /\ end \in Int
    BY <1>1, <1>6
  <2> HIDE DEF B, end
  <2>2. Greatest(B) \in B /\ \A s \in B : s <= Greatest(B)
    BY <2>1, Bounded
  <2> QED BY <2>2
<1>9. a \in (i - 4)..i /\ b \in i..(k - 1) /\ ahead(a) > 10 /\ ahead(b) > 10
  BY <1>7, <1>8
<1>10. ASSUME NEW s \in a..b PROVE ahead(s) > 10
  <2>1. s \in Int /\ s \in W /\ s + 5 \in W
    BY <1>1, <1>9
  <2>2. CASE s <= i
    <3>1. th[s] = 0 /\ th[a] = 0 /\ th[a + 5] <= th[s + 5]
      <4>1. a \in W /\ a + 5 \in W /\ a + 5 <= s + 5 /\ a <= i
        BY <1>1, <1>9, <2>1
      <4> QED BY <1>2, <1>3, <2>1, <2>2, <4>1
    <3>2. th[a + 5] \in Int /\ th[s + 5] \in Int
      BY <1>1, <1>3, <1>9, <2>1
    <3> QED BY <1>9, <3>1, <3>2
  <2>3. CASE i <= s /\ s + 5 <= k
    <3>1. s \in i..k /\ s + 5 \in i..k /\ s <= s + 5
      BY <2>1, <2>3
    <3>2. th[s + 5] - th[s] >= 3 * ((s + 5) - s)
      BY <1>4, <3>1
    <3>3. th[s + 5] \in Int /\ th[s] \in Int
      BY <1>3, <2>1
    <3> QED BY <2>1, <3>2, <3>3
  <2>4. CASE k < s + 5
    <3>1. b \in W /\ b + 5 \in W /\ s <= b /\ k <= s + 5 /\ k <= b + 5
      BY <1>1, <1>9, <2>4
    <3>2. th[s + 5] = th[k] /\ th[b + 5] = th[k] /\ th[s] <= th[b]
      BY <1>2, <1>3, <2>1, <3>1
    <3>3. th[k] \in Int /\ th[s] \in Int /\ th[b] \in Int
      BY <1>1, <1>3, <2>1, <3>1
    <3> QED BY <1>9, <3>2, <3>3
  <2> QED BY <2>1, <2>2, <2>3, <2>4
<1>11. ASSUME NEW s \in (i - 10)..(k + 5), s < a \/ b < s PROVE ~(ahead(s) > 10)
  <2>1. s \in Int /\ s \in W /\ s + 5 \in W
    BY <1>1
  <2>2. CASE s <= i - 5
    <3>1. th[s] = 0 /\ th[s + 5] = 0
      BY <1>3, <2>1, <2>2
    <3> QED BY <3>1
  <2>3. CASE i - 5 < s /\ s < a
    <3>1. s \in (i - 4)..i /\ ~(a <= s)
      BY <1>9, <2>1, <2>3
    <3> QED BY <1>7, <3>1
  <2>4. CASE b < s /\ s < k
    <3>1. s \in i..(k - 1) /\ ~(s <= b)
      BY <1>9, <2>1, <2>4
    <3> QED BY <1>8, <3>1
  <2>5. CASE k <= s
    <3>1. th[s] = th[k] /\ th[s + 5] = th[k] /\ th[k] \in Int
      BY <1>1, <1>3, <2>1, <2>5
    <3> QED BY <3>1
  <2> QED BY <1>9, <1>11, <2>1, <2>2, <2>3, <2>4, <2>5
<1> HIDE DEF ahead, A, B
<1>12. (\A s \in a..b : s \in Fast) /\ \A s \in (i - 10)..(k + 5) : s < a \/ b < s => s \notin Fast
  <2>1. \A s \in a..b : s \in (i - 10)..(k + 5)
    BY <1>9
  <2> QED BY <1>5, <1>10, <1>11, <2>1
<1>13. Fast \subseteq 1..n
  BY SamplesIs, AheadIs DEF Turning
<1>14. a..b \subseteq M /\ a - 1 \notin M /\ b + 1 \notin M
  <2>1. a..b \subseteq M
    BY <1>12 DEF CloseGaps
  <2>2. ASSUME a - 1 \in M PROVE FALSE
    <3>1. a - 1 \in (i - 10)..(k + 5) /\ a - 1 < a /\ a \in Int
      BY <1>1, <1>9
    <3>2. PICK x \in Fast, y \in Fast : x < a - 1 /\ a - 1 < y /\ y - x - 1 <= MaxGap
      BY <1>12, <2>2, <3>1 DEF CloseGaps
    <3>3. x \in Int /\ y \in Int
      BY <1>13
    <3>4. ~(x \in (i - 10)..(k + 5))
      BY <1>12, <3>1, <3>2, <3>3
    <3> QED BY <1>1, <1>9, <3>1, <3>2, <3>3, <3>4 DEF MaxGap
  <2>3. ASSUME b + 1 \in M PROVE FALSE
    <3>1. b + 1 \in (i - 10)..(k + 5) /\ b < b + 1 /\ b \in Int
      BY <1>1, <1>9
    <3>2. PICK x \in Fast, y \in Fast : x < b + 1 /\ b + 1 < y /\ y - x - 1 <= MaxGap
      BY <1>12, <2>3, <3>1 DEF CloseGaps
    <3>3. x \in Int /\ y \in Int
      BY <1>13
    <3>4. ~(y \in (i - 10)..(k + 5))
      BY <1>12, <3>1, <3>2, <3>3
    <3> QED BY <1>1, <1>9, <3>1, <3>2, <3>3, <3>4 DEF MaxGap
  <2> QED BY <2>1, <2>2, <2>3
<1>15. <<a, b>> \in RunsOf(M)
  <2> DEFINE P(j) == j >= a /\ j + 1 \notin M /\ a..j \subseteq M
  <2> HIDE DEF M
  <2>1. a \in M /\ b \in M /\ P(b)
    BY <1>9, <1>14
  <2>2. ASSUME NEW j \in M, P(j) PROVE j = b
    <3>1. j \in Int
      BY <1>13 DEF M, CloseGaps
    <3>2. CASE j < b
      <4>1. j + 1 \in a..b
        BY <1>9, <2>2, <3>1, <3>2
      <4> QED BY <1>14, <2>2, <4>1
    <3>3. CASE b < j
      <4>1. b + 1 \in a..j
        BY <1>9, <3>1, <3>3
      <4> QED BY <1>14, <2>2, <4>1
    <3> QED BY <1>9, <3>1, <3>2, <3>3
  <2>3. b = CHOOSE j \in M : P(j)
    <3> HIDE DEF P
    <3> QED BY <2>1, <2>2
  <2> QED BY <1>14, <2>1, <2>3 DEF RunsOf
<1>16. th[b] >= 15
  <2>1. b \in W /\ b + 1 \in W /\ th[b] \in Int /\ th[b + 1] \in Int /\ th[k] \in Int
    BY <1>1, <1>3, <1>9
  <2>2. th[k] >= 25 + th[b + 1] - th[b]
    BY <1>9 DEF Unrolled
  <2>3. th[b + 1] >= th[k] - 10
    <3>1. CASE b + 1 = k
      BY <2>1, <3>1
    <3>2. CASE b + 1 < k
      <4>1. b + 1 \in (i - 10)..(k + 5) /\ b + 1 \in i..k /\ b + 6 \in W /\ (b + 1) + 5 = b + 6
        BY <1>1, <1>9, <3>2
      <4>2. ~(th[b + 6] - th[b + 1] > 10)
        BY <1>9, <1>11, <4>1 DEF ahead
      <4>3. k < b + 6
        <5> SUFFICES ASSUME b + 6 <= k PROVE FALSE
          BY <1>1, <1>9
        <5>1. b + 6 \in i..k
          BY <1>9
        <5>2. th[b + 6] - th[b + 1] >= 15 /\ th[b + 6] \in Int
          BY <1>3, <1>4, <4>1, <5>1
        <5> QED BY <2>1, <4>2, <5>2
      <4>4. th[b + 6] = th[k]
        BY <1>3, <4>1, <4>3
      <4> QED BY <2>1, <4>2, <4>4
    <3> QED BY <1>9, <3>1, <3>2
  <2> QED BY <2>1, <2>2, <2>3
<1>17. \A s \in a..b : th[s + 5] - th[s] > 10
  BY <1>10 DEF ahead
<1> QED BY <1>9, <1>15, <1>16, <1>17

LEMMA ChangeIs ==
    ASSUME NEW trk, TrackShape(trk), NEW p \in Samples(trk)
    PROVE  Candidate(trk, p).change = Turned(trk, StartOf(trk, p), EndOf(trk, p))
<1> DEFINE i == StartOf(trk, p)
           k == EndOf(trk, p)
           n == Len(trk.at)
<1>1. i \in Samples(trk) /\ k \in Samples(trk)
  BY StartIs, EndIs
<1>2. AtMost(n, k) = k
  BY <1>1, SamplesIs DEF AtMost
<1>3. Candidate(trk, p) = Describe(trk, trk.at[i], trk.at[k])
  BY DEF Candidate
<1> HIDE DEF i, k
<1>4. Candidate(trk, p).change = Turned(trk, i, k)
  BY <1>1, <1>2, <1>3, IndexIs DEF Describe
<1> QED BY <1>4 DEF i, k

\* The run of a wide turn has a pivot, among its samples.
LEMMA WidePivot ==
    ASSUME NEW trk, TrackShape(trk), NEW i \in Int, NEW k \in Int, NEW th, Unrolled(trk, i, k, th)
    PROVE  \E p \in TurnPivots(trk) : p \in (i - 4)..(k - 1) /\ th[p + 5] - th[p] > 10
<1>1. PICK a \in (i - 4)..i, b \in i..(k - 1) :
              /\ \A s \in a..b : th[s + 5] - th[s] > 10
              /\ th[b] >= 15
              /\ <<a, b>> \in RunsOf(CloseGaps(Turning(trk), Len(trk.at)))
  BY WideRun
<1> DEFINE peak(r) == {p \in r[1]..r[2] : \A q \in r[1]..r[2] : ~Slower(trk, p, q)}
           p == Least(peak(<<a, b>>))
<1>2. a \in Int /\ b \in Int /\ a <= b /\ i - 4 <= a /\ a <= i /\ i <= b /\ b <= k - 1
  BY <1>1
<1>3. p \in a..b
  <2>1. peak(<<a, b>>) \in SUBSET (a..b)
    OBVIOUS
  <2>2. peak(<<a, b>>) # {}
    BY <1>2, PeakExists
  <2> HIDE DEF peak
  <2> QED BY <1>2, <2>1, <2>2, Bounded
<1>4. NetTurn(trk, a, b) >= MinTurn
  <2>1. a \in (i - 10)..(k + 10) /\ b \in (i - 10)..(k + 10)
    BY <1>2
  <2>2. NetTurn(trk, a, b) = th[b] - th[a] /\ th[a] = 0 /\ th[b] \in Int
    BY <1>2, <2>1 DEF Unrolled
  <2> QED BY <1>1, <2>2 DEF MinTurn
<1>5. p \in TurnPivots(trk)
  <2> DEFINE runs == {r \in RunsOf(CloseGaps(Turning(trk), Len(trk.at))) :
                         NetTurn(trk, r[1], r[2]) >= MinTurn}
  <2>1. <<a, b>> \in runs
    BY <1>1, <1>4
  <2>2. TurnPivots(trk) = {Least(peak(r)) : r \in runs}
    BY DEF TurnPivots
  <2> HIDE DEF peak, runs
  <2> QED BY <2>1, <2>2
<1>6. p \in (i - 4)..(k - 1) /\ th[p + 5] - th[p] > 10
  <2> HIDE DEF p
  <2> QED BY <1>1, <1>2, <1>3
<1> QED BY <1>5, <1>6

\* From that pivot the bounds of the turn are found on either leg, but for a
\* few degrees.
LEMMA WideStart ==
    ASSUME NEW trk, TrackShape(trk), NEW i \in Int, NEW k \in Int, NEW th, Unrolled(trk, i, k, th),
           NEW p \in (i - 4)..(k - 1)
    PROVE  LET s == StartOf(trk, p)
           IN s \in (i - 4)..(k - 1) /\ s <= p /\ th[s] <= 9
<1> DEFINE W == (i - 10)..(k + 10)
           floor == AtLeast(Step + 1, p - Scan)
           calm == {x \in (floor + 1)..p : Abs(Turned(trk, x - Step, x)) < 10}
<1>1. i < k /\ k <= i + 20 /\ i >= 11 /\ k \in W /\ i \in W /\ p \in Int /\ p \in W
  BY DEF Unrolled
<1>2. \A s, t \in W : s <= t => NetTurn(trk, s, t) = th[t] - th[s]
  BY DEF Unrolled
<1>3. \A s \in W : th[s] \in Int /\ (s <= i => th[s] = 0)
  BY DEF Unrolled
<1>4. floor \in Int /\ floor >= 6 /\ floor < i /\ floor < p
  BY <1>1 DEF AtLeast, Step, Scan
<1>5. ASSUME NEW x \in W, i - 5 <= x
      PROVE  x - 5 \in W /\ Abs(Turned(trk, x - Step, x)) = th[x] - th[x - 5]
  <2>1. x - 5 \in W /\ x - 5 <= x /\ x - Step = x - 5
    BY <1>1, <1>5 DEF Step
  <2> QED BY <1>2, <2>1 DEF NetTurn
<1> HIDE DEF floor
<1>6. \E x \in calm : x = p \/ x = i
  <2>1. CASE p <= i
    <3>1. p \in (floor + 1)..p /\ i - 5 <= p
      BY <1>1, <1>4
    <3>2. th[p] = 0 /\ th[p - 5] = 0 /\ Abs(Turned(trk, p - Step, p)) = th[p] - th[p - 5]
      BY <1>1, <1>3, <1>5, <2>1, <3>1
    <3>3. p \in calm
      BY <3>1, <3>2
    <3> QED BY <3>3
  <2>2. CASE i < p
    <3>1. i \in (floor + 1)..p /\ i - 5 <= i /\ i - 5 \in W /\ i - 5 <= i
      BY <1>1, <1>4, <2>2
    <3>2. th[i] = 0 /\ th[i - 5] = 0 /\ Abs(Turned(trk, i - Step, i)) = th[i] - th[i - 5]
      BY <1>1, <1>3, <1>5, <3>1
    <3>3. i \in calm
      BY <3>1, <3>2
    <3> QED BY <3>3
  <2> QED BY <1>1, <2>1, <2>2
<1> DEFINE s == Greatest(calm)
<1>7. s \in calm /\ \A x \in calm : x <= s
  <2>1. calm \in SUBSET ((floor + 1)..p) /\ calm # {} /\ floor + 1 \in Int
    BY <1>4, <1>6
  <2> HIDE DEF calm
  <2> QED BY <1>1, <2>1, Bounded
<1>8. StartOf(trk, p) = s
  BY <1>6 DEF StartOf, floor
<1>9. s \in Int /\ s <= p /\ s \in (i - 4)..(k - 1) /\ s \in W /\ Abs(Turned(trk, s - Step, s)) < 10
  <2>1. s \in Int /\ s <= p /\ Abs(Turned(trk, s - Step, s)) < 10
    <3> HIDE DEF s
    <3> QED BY <1>4, <1>7
  <2>2. p <= s \/ i <= s
    BY <1>6, <1>7
  <2> HIDE DEF s
  <2> QED BY <1>1, <2>1, <2>2
<1> HIDE DEF s
<1>10. th[s] <= 9
  <2>1. s - 5 \in W /\ th[s] - th[s - 5] < 10 /\ th[s] \in Int /\ th[s - 5] \in Int
    BY <1>1, <1>3, <1>5, <1>9
  <2>2. CASE s <= i
    BY <1>3, <1>9, <2>2
  <2>3. CASE i < s /\ s < i + 5
    <3>1. s - 5 <= i
      BY <1>9, <2>3
    <3>2. th[s - 5] = 0
      BY <1>3, <2>1, <3>1
    <3> QED BY <2>1, <3>2
  <2>4. CASE i + 5 <= s
    <3>1. s - 5 \in i..k /\ s \in i..k /\ s - 5 <= s
      BY <1>1, <1>9, <2>4
    <3>2. th[s] - th[s - 5] >= 3 * (s - (s - 5))
      BY <3>1 DEF Unrolled
    <3> QED BY <1>9, <2>1, <3>2
  <2> QED BY <1>1, <1>9, <2>2, <2>3, <2>4
<1> QED BY <1>8, <1>9, <1>10

LEMMA WideEnd ==
    ASSUME NEW trk, TrackShape(trk), NEW i \in Int, NEW k \in Int, NEW th, Unrolled(trk, i, k, th),
           NEW p \in (i - 4)..(k - 1), th[p + 5] - th[p] > 10
    PROVE  LET e == EndOf(trk, p)
           IN e \in i..k /\ p <= e /\ th[e] >= th[k] - 4
<1> DEFINE W == (i - 10)..(k + 10)
           n == Len(trk.at)
           ceiling == AtMost(n - Step + 1, p + Scan)
           settled == {x \in p..(ceiling - 1) : Abs(Turned(trk, x, x + Step)) < 5}
<1>1. i < k /\ k <= i + 20 /\ i >= 11 /\ k \in W /\ i \in W /\ p \in Int /\ p \in W
      /\ k + 10 <= n /\ n \in Nat
  BY SamplesIs DEF Unrolled
<1>2. \A s, t \in W : s <= t => NetTurn(trk, s, t) = th[t] - th[s] /\ th[s] <= th[t]
  BY DEF Unrolled
<1>3. \A s \in W : th[s] \in Int /\ (s <= i => th[s] = 0) /\ (k <= s => th[s] = th[k])
  BY DEF Unrolled
<1>4. ceiling \in Int /\ k <= ceiling - 1 /\ ceiling <= n
  <2> HIDE DEF n
  <2> QED BY <1>1 DEF AtMost, Step, Scan
<1>5. ASSUME NEW x \in W, x <= k + 5
      PROVE  x + 5 \in W /\ Abs(Turned(trk, x, x + Step)) = th[x + 5] - th[x]
  <2>1. x + 5 \in W /\ x <= x + 5 /\ x + Step = x + 5
    BY <1>1, <1>5 DEF Step
  <2> QED BY <1>2, <2>1 DEF NetTurn
<1> HIDE DEF ceiling, n
<1>6. k \in settled
  <2>1. k + 5 \in W /\ th[k + 5] = th[k] /\ th[k] \in Int
    BY <1>1, <1>3
  <2>2. Abs(Turned(trk, k, k + Step)) = 0
    BY <1>1, <1>5, <2>1
  <2> QED BY <1>1, <1>4, <2>2
<1> DEFINE e == Least(settled)
<1>7. e \in settled /\ \A x \in settled : e <= x
  <2> DEFINE hi == ceiling - 1
  <2>1. settled \in SUBSET (p..hi) /\ hi \in Int
    BY <1>4
  <2>2. settled # {}
    BY <1>6
  <2> HIDE DEF settled, hi
  <2> QED BY <1>1, <2>1, <2>2, Bounded
<1>8. EndOf(trk, p) = e
  BY <1>6 DEF EndOf, ceiling, n
<1>9. e \in Int /\ p <= e /\ e <= k /\ e \in W /\ Abs(Turned(trk, e, e + Step)) < 5
  <2>1. e \in Int /\ p <= e /\ e <= k /\ Abs(Turned(trk, e, e + Step)) < 5
    <3> HIDE DEF e
    <3> QED BY <1>1, <1>4, <1>6, <1>7
  <2> HIDE DEF e
  <2> QED BY <1>1, <2>1
<1> HIDE DEF e
<1>10. e + 5 \in W /\ th[e + 5] - th[e] < 5 /\ th[e] \in Int /\ th[e + 5] \in Int
  BY <1>1, <1>3, <1>5, <1>9
<1>11. i <= e
  <2> SUFFICES ASSUME e < i PROVE FALSE
    BY <1>1, <1>9
  <2>1. p + 5 \in W /\ p + 5 <= e + 5 /\ p <= i
    BY <1>1, <1>9
  <2>2. th[p] = 0 /\ th[e] = 0 /\ th[p + 5] <= th[e + 5] /\ th[p + 5] \in Int
    BY <1>1, <1>2, <1>3, <1>9, <1>10, <2>1
  <2> QED BY <1>10, <2>2
<1>12. th[e] >= th[k] - 4
  <2>1. CASE k <= e + 5
    <3>1. th[e + 5] = th[k]
      BY <1>3, <1>10, <2>1
    <3> QED BY <1>10, <3>1
  <2>2. CASE e + 5 < k
    <3>1. e \in i..k /\ e + 5 \in i..k /\ e <= e + 5
      BY <1>1, <1>9, <1>11, <2>2
    <3>2. th[e + 5] - th[e] >= 3 * ((e + 5) - e)
      BY <3>1 DEF Unrolled
    <3> QED BY <1>9, <1>10, <3>2
  <2> QED BY <1>1, <1>9, <2>1, <2>2
<1> QED BY <1>1, <1>8, <1>9, <1>11, <1>12

LEMMA WideFound ==
    ASSUME NEW trk, TrackShape(trk), NEW i \in Int, NEW k \in Int,
           i < k, k <= i + 20, WideTurn(trk, i, k)
    PROVE  \E p \in CandidatePivots(trk) :
              LET c == Candidate(trk, p)
              IN /\ c.start <= trk.at[k] /\ trk.at[i] <= c.end
                 /\ Abs(c.change) + MinTurn >= NetTurn(trk, i, k)
<1> DEFINE th == Far(trk, i)
           W == (i - 10)..(k + 10)
<1>1. Unrolled(trk, i, k, th)
  BY WideIsUnrolled
<1> HIDE DEF th
<1>2. PICK p \in TurnPivots(trk) : p \in (i - 4)..(k - 1) /\ th[p + 5] - th[p] > 10
  BY <1>1, WidePivot
<1> DEFINE s == StartOf(trk, p)
           e == EndOf(trk, p)
           c == Candidate(trk, p)
<1>3. s \in (i - 4)..(k - 1) /\ s <= p /\ th[s] <= 9
  BY <1>1, <1>2, WideStart
<1>4. e \in i..k /\ p <= e /\ th[e] >= th[k] - 4
  BY <1>1, <1>2, WideEnd
<1>5. p \in Samples(trk)
  BY PivotIsSample
<1>6. c.start = trk.at[s] /\ c.end = trk.at[e] /\ c.change = Turned(trk, s, e)
  BY <1>5, CandidateIs, ChangeIs
<1> HIDE DEF s, e, c
<1>7. /\ i < k /\ k <= i + 20 /\ i >= 11 /\ k + 10 <= Len(trk.at) /\ Len(trk.at) \in Nat
      /\ s \in W /\ e \in W /\ i \in W /\ k \in W /\ s \in Int /\ e \in Int /\ s <= e /\ p \in Int
  BY <1>1, <1>2, <1>3, <1>4, SamplesIs DEF Unrolled
<1>8. s \in Samples(trk) /\ e \in Samples(trk) /\ i \in Samples(trk) /\ k \in Samples(trk)
      /\ th[s] \in Int /\ th[e] \in Int /\ th[k] \in Int /\ th[i] = 0
  <2>1. \A x \in W : x \in Samples(trk) /\ th[x] \in Int /\ (x <= i => th[x] = 0)
    BY <1>1 DEF Unrolled
  <2> QED BY <1>7, <2>1
<1>9. p \in CandidatePivots(trk)
  <2>1. Len(trk.at) >= MinSamples
    BY <1>7 DEF MinSamples
  <2>2. trk.at[e] - trk.at[s] = e - s
    BY <1>1, <1>7 DEF Unrolled
  <2>3. e - s <= MaxDuration
    BY <1>3, <1>4, <1>7 DEF MaxDuration
  <2>4. s \notin trk.slow
    <3>1. s \in (i - 10)..k
      BY <1>3, <1>7
    <3> QED BY <1>1, <3>1 DEF Unrolled
  <2> QED BY <1>2, <1>7, <2>1, <2>2, <2>3, <2>4 DEF CandidatePivots, s, e, MinSamples
<1>10. c.start <= trk.at[k] /\ trk.at[i] <= c.end
  BY <1>3, <1>4, <1>6, <1>7, <1>8, InOrder
<1>11. Abs(c.change) + MinTurn >= NetTurn(trk, i, k)
  <2>1. NetTurn(trk, s, e) = th[e] - th[s] /\ NetTurn(trk, i, k) = th[k] - th[i]
    BY <1>1, <1>7 DEF Unrolled
  <2> QED BY <1>3, <1>4, <1>6, <1>8, <2>1 DEF NetTurn, MinTurn
<1> QED BY <1>9, <1>10, <1>11 DEF c

\* No wide turn is missed, on any track: whatever its rates and to whichever
\* side, wherever north is.
THEOREM WideTurnsFound == Spec => []NoWideTurnMissed
<1>1. JobInv => NoWideTurnMissed
  <2> SUFFICES ASSUME JobInv, Started, NEW i \in Samples(track),
                      NEW k \in (i + 1)..AtMost(i + 20, Len(track.at)), WideTurn(track, i, k)
               PROVE  \E p \in pivots :
                         LET c == Candidate(track, p)
                         IN /\ c.start <= track.at[k] /\ track.at[i] <= c.end
                            /\ Abs(c.change) + MinTurn >= NetTurn(track, i, k)
    BY DEF NoWideTurnMissed
  <2>1. TrackShape(track) /\ pivots = CandidatePivots(track)
    BY DEF JobInv, LoadInv, Started
  <2>2. i \in Int /\ k \in Int /\ i < k /\ k <= i + 20
    BY <2>1, SamplesIs DEF AtMost
  <2> QED BY <2>1, <2>2, WideFound
<1> QED BY <1>1, JobAlways, PTL

-----------------------------------------------------------------------------
(* The maneuvers, numbered by their starts, and the stretches between.     *)

\* Every two of a finite set of maneuvers are apart.
Spaced(ms) ==
    /\ IsFiniteSet(ms)
    /\ \A x \in ms : x.start \in Int /\ x.end \in Int /\ x.start <= x.end
    /\ \A x, y \in ms : x = y \/ Apart(x, y, Spacing)

Lower(ms, x) == {y \in ms : y.start < x.start}
Numbered(ms, k) == CHOOSE x \in ms : Cardinality(Lower(ms, x)) = k - 1

LEMMA LowerIs ==
    ASSUME NEW ms, Spaced(ms), NEW x \in ms
    PROVE  IsFiniteSet(Lower(ms, x)) /\ Cardinality(Lower(ms, x)) \in 0..(Cardinality(ms) - 1)
<1>1. Lower(ms, x) \subseteq ms \ {x}
  BY DEF Lower, Spaced
<1>2. IsFiniteSet(ms \ {x}) /\ Cardinality(ms \ {x}) = Cardinality(ms) - 1 /\ Cardinality(ms) \in Nat
  BY FS_RemoveElement, FS_CardinalityType DEF Spaced
<1>3. IsFiniteSet(Lower(ms, x)) /\ Cardinality(Lower(ms, x)) <= Cardinality(ms) - 1
  BY <1>1, <1>2, FS_Subset
<1> QED BY <1>2, <1>3, FS_CardinalityType

LEMMA RankOrders ==
    ASSUME NEW ms, Spaced(ms), NEW x \in ms, NEW y \in ms
    PROVE  x.start < y.start => Cardinality(Lower(ms, x)) < Cardinality(Lower(ms, y))
<1> SUFFICES ASSUME x.start < y.start PROVE Cardinality(Lower(ms, x)) < Cardinality(Lower(ms, y))
  OBVIOUS
<1>1. x \notin Lower(ms, x) /\ Lower(ms, x) \cup {x} \subseteq Lower(ms, y)
  BY DEF Lower, Spaced
<1>2. /\ IsFiniteSet(Lower(ms, x)) /\ IsFiniteSet(Lower(ms, y))
      /\ Cardinality(Lower(ms, x)) \in Nat /\ Cardinality(Lower(ms, y)) \in Nat
  BY LowerIs, FS_CardinalityType
<1>3. Cardinality(Lower(ms, x) \cup {x}) = Cardinality(Lower(ms, x)) + 1
  BY <1>1, <1>2, FS_AddElement
<1>4. Cardinality(Lower(ms, x) \cup {x}) <= Cardinality(Lower(ms, y))
  BY <1>1, <1>2, FS_Subset
<1> QED BY <1>2, <1>3, <1>4

LEMMA Distinct ==
    ASSUME NEW ms, Spaced(ms), NEW x \in ms, NEW y \in ms
    PROVE  /\ x.start = y.start => x = y
           /\ Cardinality(Lower(ms, x)) = Cardinality(Lower(ms, y)) => x = y
           /\ x.start < y.start => x.end <= y.start
<1>1. x.start \in Int /\ y.start \in Int /\ x.end \in Int /\ y.end \in Int /\ x.start <= x.end /\ y.start <= y.end
  BY DEF Spaced
<1>2. x = y \/ x.end + 20 <= y.start \/ y.end + 20 <= x.start
  BY DEF Spaced, Apart, Spacing
<1>3. x.start = y.start => x = y
  BY <1>1, <1>2
<1>4. x.start < y.start => x.end <= y.start
  BY <1>1, <1>2
<1>5. Cardinality(Lower(ms, x)) \in Int /\ Cardinality(Lower(ms, y)) \in Int
  BY LowerIs
<1>6. x.start < y.start \/ y.start < x.start \/ x.start = y.start
  BY <1>1
<1> QED BY <1>3, <1>4, <1>5, <1>6, RankOrders

LEMMA EveryNumber ==
    ASSUME NEW ms, Spaced(ms), NEW k \in 1..Cardinality(ms)
    PROVE  /\ Numbered(ms, k) \in ms
           /\ Cardinality(Lower(ms, Numbered(ms, k))) = k - 1
<1> DEFINE n == Cardinality(ms)
           rank == [x \in ms |-> Cardinality(Lower(ms, x))]
<1>1. n \in Nat /\ IsFiniteSet(ms)
  BY FS_CardinalityType DEF Spaced
<1>2. IsFiniteSet(0..(n - 1)) /\ Cardinality(0..(n - 1)) = n
  <2> HIDE DEF n
  <2>1. 0 \in Int /\ n - 1 \in Int
    BY <1>1
  <2>2. IsFiniteSet(0..(n - 1)) /\ Cardinality(0..(n - 1)) = IF 0 > n - 1 THEN 0 ELSE n - 1 - 0 + 1
    BY ONLY <2>1, FS_Interval
  <2> QED BY <1>1, <2>2
<1>3. rank \in [ms -> 0..(n - 1)]
  BY LowerIs
<1>4. \A x, y \in ms : rank[x] = rank[y] => x = y
  BY Distinct
<1>5. rank \in Injection(ms, 0..(n - 1))
  <2> HIDE DEF rank, n
  <2> QED BY <1>3, <1>4, Fun_IsInj
<1>6. rank \in Surjection(ms, 0..(n - 1))
  <2> HIDE DEF rank
  <2> QED BY <1>2, <1>5, FS_Injection
<1>7. \A y \in 0..(n - 1) : \E x \in ms : rank[x] = y
  <2> HIDE DEF rank, n
  <2> QED BY <1>6, Fun_SurjectionProperties
<1>8. k - 1 \in 0..(n - 1)
  <2> HIDE DEF rank
  <2> QED BY <1>1
<1>9. \E x \in ms : Cardinality(Lower(ms, x)) = k - 1
  BY <1>7, <1>8
<1> QED BY <1>9 DEF Numbered

\* A later number starts after an earlier one has ended.
LEMMA NumbersOrdered ==
    ASSUME NEW ms, Spaced(ms), NEW j \in 1..Cardinality(ms), NEW k \in 1..Cardinality(ms)
    PROVE  j < k => Numbered(ms, j).end <= Numbered(ms, k).start
<1> SUFFICES ASSUME j < k PROVE Numbered(ms, j).end <= Numbered(ms, k).start
  OBVIOUS
<1> DEFINE x == Numbered(ms, j)
           y == Numbered(ms, k)
<1>1. /\ x \in ms /\ Cardinality(Lower(ms, x)) = j - 1
      /\ y \in ms /\ Cardinality(Lower(ms, y)) = k - 1 /\ Cardinality(ms) \in Nat
  BY EveryNumber, FS_CardinalityType DEF Spaced
<1> HIDE DEF x, y
<1>2. x.start \in Int /\ y.start \in Int
  BY <1>1 DEF Spaced
<1>3. ~(y.start < x.start) /\ x # y
  BY <1>1, RankOrders
<1>4. x.start < y.start
  BY <1>1, <1>2, <1>3, Distinct
<1>5. x.end <= y.start
  BY <1>1, <1>4, Distinct
<1> QED BY <1>5 DEF x, y

LEMMA EveryOne ==
    ASSUME NEW ms, Spaced(ms), NEW x \in ms
    PROVE  \E k \in 1..Cardinality(ms) : Numbered(ms, k) = x
<1> DEFINE k == Cardinality(Lower(ms, x)) + 1
<1>1. k \in 1..Cardinality(ms) /\ Cardinality(Lower(ms, x)) = k - 1
  BY LowerIs, FS_CardinalityType DEF Spaced
<1>2. Numbered(ms, k) \in ms /\ Cardinality(Lower(ms, Numbered(ms, k))) = k - 1
  <2> HIDE DEF k
  <2> QED BY <1>1, EveryNumber
<1> HIDE DEF k
<1>3. Numbered(ms, k) = x
  BY <1>1, <1>2, Distinct
<1> QED BY <1>1, <1>3

\* The stretch after the k-th maneuver.
From(trk, ms, k) == IF k = 0 THEN trk.at[1] ELSE Numbered(ms, k).end
To(trk, ms, k) == IF k = Cardinality(ms) THEN trk.at[Len(trk.at)] ELSE Numbered(ms, k + 1).start

LEMMA StretchIs ==
    ASSUME NEW trk, NEW ms, Spaced(ms), NEW x \in Stretches(trk, ms)
    PROVE  \E k \in 0..Cardinality(ms) :
              /\ x = [start |-> From(trk, ms, k), end |-> To(trk, ms, k)]
              /\ To(trk, ms, k) - From(trk, ms, k) >= MinLegDuration
<1> DEFINE n == Cardinality(ms)
           b == Bounds(trk, ms)
<1>1. n \in Nat
  BY FS_CardinalityType DEF Spaced
<1>2. PICK q \in Pairs(b) : x = [start |-> b[q], end |-> b[q + 1]] /\ b[q + 1] - b[q] >= MinLegDuration
  BY DEF Stretches
<1>3. b = [k \in 1..(2 * n + 2) |->
            CASE k = 1 -> trk.at[1]
              [] k = 2 * n + 2 -> trk.at[Len(trk.at)]
              [] OTHER -> IF k % 2 = 0 THEN Numbered(ms, k \div 2).start
                                       ELSE Numbered(ms, k \div 2).end]
  BY DEF Bounds, Numbered, Lower
<1>4. q \in 1..(2 * n + 2) /\ q % 2 = 1
  BY <1>3 DEF Pairs
<1> DEFINE k == q \div 2
<1>5. q = 2 * k + 1 /\ k \in 0..n /\ q + 1 \in 1..(2 * n + 2) /\ (q + 1) % 2 = 0 /\ (q + 1) \div 2 = k + 1
  <2> HIDE DEF n
  <2> QED BY <1>1, <1>4
<1> HIDE DEF k, n, b
<1>6. b[q] = From(trk, ms, k)
  <2>1. q # 2 * n + 2
    BY <1>1, <1>5
  <2>2. CASE k = 0
    BY <1>3, <1>4, <1>5, <2>2 DEF From
  <2>3. CASE k # 0
    <3>1. q # 1 /\ q % 2 # 0 /\ q \div 2 = k
      BY <1>4, <1>5, <2>3 DEF k
    <3>2. b[q] = Numbered(ms, q \div 2).end
      BY <1>3, <1>4, <2>1, <3>1
    <3> QED BY <2>3, <3>1, <3>2 DEF From
  <2> QED BY <2>2, <2>3
<1>7. b[q + 1] = To(trk, ms, k)
  <2>1. q + 1 # 1 /\ (q + 1 = 2 * n + 2 <=> k = n)
    BY <1>1, <1>5
  <2>2. CASE k = n
    BY <1>3, <1>5, <2>1, <2>2 DEF To, n
  <2>3. CASE k # n
    <3>1. b[q + 1] = Numbered(ms, (q + 1) \div 2).start
      BY <1>3, <1>5, <2>1, <2>3
    <3> QED BY <1>5, <2>3, <3>1 DEF To, n
  <2> QED BY <2>2, <2>3
<1> QED BY <1>2, <1>5, <1>6, <1>7 DEF n

\* What starts at a later number starts after what ends at an earlier one.
LEMMA StretchesOrdered ==
    ASSUME NEW trk, NEW ms, Spaced(ms), NEW j \in 0..Cardinality(ms), NEW k \in 0..Cardinality(ms), j < k
    PROVE  To(trk, ms, j) <= From(trk, ms, k)
<1> DEFINE n == Cardinality(ms)
<1>1. n \in Nat
  BY FS_CardinalityType DEF Spaced
<1> HIDE DEF n
<1>2. j + 1 \in 1..n /\ k \in 1..n /\ j # n /\ k # 0 /\ j + 1 <= k
  BY <1>1 DEF n
<1>3. To(trk, ms, j) = Numbered(ms, j + 1).start /\ From(trk, ms, k) = Numbered(ms, k).end
  BY <1>2 DEF To, From, n
<1>4. /\ Numbered(ms, j + 1) \in ms /\ Numbered(ms, k) \in ms
  BY <1>2, EveryNumber DEF n
<1>5. /\ Numbered(ms, j + 1).start \in Int /\ Numbered(ms, k).end \in Int
      /\ Numbered(ms, j + 1).end \in Int /\ Numbered(ms, k).start \in Int
      /\ Numbered(ms, j + 1).start <= Numbered(ms, j + 1).end
      /\ Numbered(ms, k).start <= Numbered(ms, k).end
  BY <1>4 DEF Spaced
<1>6. CASE j + 1 = k
  BY <1>3, <1>5, <1>6
<1>7. CASE j + 1 < k
  <2>1. Numbered(ms, j + 1).end <= Numbered(ms, k).start
    BY <1>2, <1>7, NumbersOrdered DEF n
  <2> QED BY <1>3, <1>5, <2>1
<1> QED BY <1>2, <1>6, <1>7
\* The bounds of the stretches are instants of the track.
LEMMA StretchBounds ==
    ASSUME NEW trk, TrackShape(trk), trk.at # <<>>, NEW ms, Spaced(ms),
           \A x \in ms : /\ x.start \in {trk.at[i] : i \in Samples(trk)}
                         /\ x.end \in {trk.at[i] : i \in Samples(trk)},
           NEW k \in 0..Cardinality(ms)
    PROVE  /\ From(trk, ms, k) \in {trk.at[i] : i \in Samples(trk)}
           /\ To(trk, ms, k) \in {trk.at[i] : i \in Samples(trk)}
<1>1. Cardinality(ms) \in Nat
  BY FS_CardinalityType DEF Spaced
<1>2. 1 \in Samples(trk) /\ Len(trk.at) \in Samples(trk)
  <2>1. Len(trk.at) \in Nat /\ Samples(trk) = 1..Len(trk.at) /\ Len(trk.at) # 0
    BY SamplesIs, EmptySeq DEF TrackShape
  <2> QED BY <2>1
<1>3. From(trk, ms, k) \in {trk.at[i] : i \in Samples(trk)}
  <2>1. CASE k = 0
    BY <1>2, <2>1 DEF From
  <2>2. CASE k # 0
    <3>1. Numbered(ms, k) \in ms
      BY <1>1, <2>2, EveryNumber
    <3> QED BY <2>2, <3>1 DEF From
  <2> QED BY <2>1, <2>2
<1>4. To(trk, ms, k) \in {trk.at[i] : i \in Samples(trk)}
  <2>1. CASE k = Cardinality(ms)
    BY <1>2, <2>1 DEF To
  <2>2. CASE k # Cardinality(ms)
    <3>1. k + 1 \in 1..Cardinality(ms)
      BY <1>1, <2>2
    <3>2. Numbered(ms, k + 1) \in ms
      BY <3>1, EveryNumber
    <3> QED BY <2>2, <3>2 DEF To
  <2> QED BY <2>1, <2>2
<1> QED BY <1>3, <1>4

\* Every stretch avoids every maneuver and every other stretch.
LEMMA StretchesApart ==
    ASSUME NEW trk, TrackShape(trk), trk.at # <<>>, NEW ms, Spaced(ms),
           \A x \in ms : /\ x.start \in {trk.at[i] : i \in Samples(trk)}
                         /\ x.end \in {trk.at[i] : i \in Samples(trk)},
           NEW x \in Stretches(trk, ms), NEW y \in Stretches(trk, ms)
    PROVE  x = y \/ Apart(x, y, 0)
<1>1. PICK j \in 0..Cardinality(ms) :
          /\ x = [start |-> From(trk, ms, j), end |-> To(trk, ms, j)]
          /\ To(trk, ms, j) - From(trk, ms, j) >= MinLegDuration
  BY StretchIs
<1>2. PICK k \in 0..Cardinality(ms) :
          /\ y = [start |-> From(trk, ms, k), end |-> To(trk, ms, k)]
          /\ To(trk, ms, k) - From(trk, ms, k) >= MinLegDuration
  BY StretchIs
<1>3. Cardinality(ms) \in Nat
  BY FS_CardinalityType DEF Spaced
<1>4. x.start \in Int /\ x.end \in Int /\ y.start \in Int /\ y.end \in Int
  BY <1>1, <1>2, StretchBounds, SamplesIs
<1>5. CASE j < k
  <2>1. To(trk, ms, j) <= From(trk, ms, k)
    BY <1>5, StretchesOrdered
  <2>2. x.end = To(trk, ms, j) /\ y.start = From(trk, ms, k)
    BY <1>1, <1>2
  <2>3. x.end <= y.start
    BY <2>1, <2>2
  <2> QED BY <1>4, <2>3 DEF Apart
<1>6. CASE k < j
  <2>1. To(trk, ms, k) <= From(trk, ms, j)
    BY <1>6, StretchesOrdered
  <2>2. y.end <= x.start
    BY <1>1, <1>2, <2>1
  <2> QED BY <1>4, <2>2 DEF Apart
<1>7. CASE j = k
  BY <1>1, <1>2, <1>7
<1> QED BY <1>3, <1>5, <1>6, <1>7

LEMMA ManeuversApart ==
    ASSUME NEW trk, TrackShape(trk), trk.at # <<>>, NEW ms, Spaced(ms),
           \A x \in ms : /\ x.start \in {trk.at[i] : i \in Samples(trk)}
                         /\ x.end \in {trk.at[i] : i \in Samples(trk)},
           NEW x \in Stretches(trk, ms), NEW y \in ms
    PROVE  Apart(x, y, 0)
<1>1. PICK k \in 0..Cardinality(ms) :
          /\ x = [start |-> From(trk, ms, k), end |-> To(trk, ms, k)]
          /\ To(trk, ms, k) - From(trk, ms, k) >= MinLegDuration
  BY StretchIs
<1>2. PICK j \in 1..Cardinality(ms) : Numbered(ms, j) = y
  BY EveryOne
<1>3. Cardinality(ms) \in Nat
  BY FS_CardinalityType DEF Spaced
<1>4. y.start \in Int /\ y.end \in Int /\ y.start <= y.end
  BY DEF Spaced
<1>5. From(trk, ms, k) \in Int /\ To(trk, ms, k) \in Int
  BY StretchBounds, SamplesIs
<1>6. CASE j <= k
  <2>1. From(trk, ms, k) = Numbered(ms, k).end /\ k \in 1..Cardinality(ms)
    BY <1>3, <1>6 DEF From
  <2>2. Numbered(ms, k) \in ms /\ Numbered(ms, k).start \in Int /\ Numbered(ms, k).end \in Int
        /\ Numbered(ms, k).start <= Numbered(ms, k).end
    BY <2>1, EveryNumber DEF Spaced
  <2>3. CASE j = k
    <3>1. y.end + 0 <= x.start
      BY <1>1, <1>2, <1>4, <2>1, <2>3
    <3> QED BY <3>1 DEF Apart
  <2>4. CASE j < k
    <3>1. y.end <= Numbered(ms, k).start
      BY <1>2, <2>1, <2>4, NumbersOrdered
    <3>2. y.end + 0 <= x.start
      BY <1>1, <1>4, <2>1, <2>2, <3>1
    <3> QED BY <3>2 DEF Apart
  <2> QED BY <1>6, <2>3, <2>4
<1>7. CASE k < j
  <2>1. To(trk, ms, k) = Numbered(ms, k + 1).start /\ k + 1 \in 1..Cardinality(ms)
    BY <1>3, <1>7 DEF To
  <2>2. Numbered(ms, k + 1) \in ms /\ Numbered(ms, k + 1).start \in Int /\ Numbered(ms, k + 1).end \in Int
        /\ Numbered(ms, k + 1).start <= Numbered(ms, k + 1).end
    BY <2>1, EveryNumber DEF Spaced
  <2>3. CASE j = k + 1
    <3>1. x.end + 0 <= y.start
      BY <1>1, <1>2, <1>4, <2>1, <2>3
    <3> QED BY <3>1 DEF Apart
  <2>4. CASE k + 1 < j
    <3>1. Numbered(ms, k + 1).end <= y.start
      BY <1>2, <2>1, <2>4, NumbersOrdered
    <3>2. x.end + 0 <= y.start
      BY <1>1, <1>4, <2>1, <2>2, <3>1
    <3> QED BY <3>2 DEF Apart
  <2> QED BY <1>3, <1>7, <2>3, <2>4
<1> QED BY <1>6, <1>7

\* The maneuvers and legs of a posted analysis divide the part of the track
\* that was kept, whatever the track, the trim bounds and the numerics.
THEOREM LegsAndManeuvers == Spec => []LegsBetweenManeuvers
<1>1. JobInv => LegsBetweenManeuvers
  <2> SUFFICES ASSUME JobInv, job # None, job.manual = None, result = "posted"
               PROVE  /\ \A x \in maneuvers \cup legs : x.start <= x.end
                      /\ \A x, y \in maneuvers : x = y \/ Apart(x, y, Spacing)
                      /\ \A x \in legs : \A y \in (legs \ {x}) \cup maneuvers : Apart(x, y, 0)
                      /\ \A x \in legs : Within(x)
                      /\ \A x \in maneuvers : Within(x)
    BY DEF LegsBetweenManeuvers
  <2> DEFINE instants == {track.at[i] : i \in Samples(track)}
  <2>1. Analysing /\ TrackShape(track) /\ track.at # <<>>
    BY DEF Analysing, JobInv, LoadInv
  <2>2. \A t \in instants : Inside(t) /\ t \in Int
    BY <2>1, SamplesIs DEF JobInv, LoadInv
  <2>3. /\ IsFiniteSet(maneuvers)
        /\ \A x \in maneuvers : x.start \in instants /\ x.end \in instants /\ x.start <= x.end
        /\ \A x, y \in maneuvers : x = y \/ Apart(x, y, Spacing)
        /\ legs \subseteq Stretches(track, maneuvers)
    BY <2>1 DEF JobInv, ManeuverInv
  <2>4. Spaced(maneuvers)
    BY <2>2, <2>3 DEF Spaced
  <2>5. ASSUME NEW x \in legs PROVE x.start \in instants /\ x.end \in instants /\ x.start <= x.end
    <3>1. PICK k \in 0..Cardinality(maneuvers) :
              /\ x = [start |-> From(track, maneuvers, k), end |-> To(track, maneuvers, k)]
              /\ To(track, maneuvers, k) - From(track, maneuvers, k) >= MinLegDuration
      BY <2>3, <2>4, StretchIs
    <3>2. From(track, maneuvers, k) \in instants /\ To(track, maneuvers, k) \in instants
      BY <2>1, <2>3, <2>4, StretchBounds
    <3>3. x.start = From(track, maneuvers, k) /\ x.end = To(track, maneuvers, k)
      BY <3>1
    <3>4. x.start <= x.end
      BY <2>2, <3>1, <3>2, <3>3 DEF MinLegDuration
    <3> QED BY <3>2, <3>3, <3>4
  <2>6. \A x \in legs : \A y \in (legs \ {x}) \cup maneuvers : Apart(x, y, 0)
    BY <2>1, <2>3, <2>4, StretchesApart, ManeuversApart
  <2> HIDE DEF instants
  <2>7. \A x \in maneuvers \cup legs : Within(x)
    BY <2>2, <2>3, <2>5 DEF Within, Inside
  <2> QED BY <2>3, <2>5, <2>6, <2>7
<1> QED BY <1>1, JobAlways, PTL

-----------------------------------------------------------------------------
(* Fusion hears every source that speaks.                                  *)

LEMMA ImageFinite ==
    ASSUME NEW S, IsFiniteSet(S), NEW f
    PROVE  IsFiniteSet({f[x] : x \in S})
<1> DEFINE T == {f[x] : x \in S}
           g == [x \in S |-> f[x]]
<1>1. g \in Surjection(S, T)
  <2>1. g \in [S -> T] /\ \A t \in T : \E x \in S : g[x] = t
    OBVIOUS
  <2> HIDE DEF g, T
  <2> QED BY <2>1, Fun_IsSurj
<1> HIDE DEF g, T
<1>2. IsFiniteSet(T)
  BY <1>1, FS_Surjection
<1> QED BY <1>2 DEF T

LEMMA SourcesAre == Sources = {"station", "regional", "global", "grid"}
<1>1. DOMAIN Order = 1..4 /\ Order[1] = "station" /\ Order[2] = "regional"
      /\ Order[3] = "global" /\ Order[4] = "grid"
  BY DEF Order
<1>2. 1..4 = {1, 2, 3, 4}
  OBVIOUS
<1> QED BY <1>1, <1>2 DEF Sources

LEMMA UsableIs ==
    ASSUME NEW bnd, BundleShape(bnd), NEW wp \in bnd, NEW s \in Sources
    PROVE  Usable(wp.rows[s]) \in SUBSET Int /\ IsFiniteSet(Usable(wp.rows[s]))
<1> DEFINE S == {q \in wp.rows[s] : q.whole}
           f == [r \in S |-> r.at]
<1>1. IsFiniteSet(wp.rows[s]) /\ \A r \in wp.rows[s] : r.at \in Int
  BY DEF BundleShape
<1>2. IsFiniteSet(S)
  BY <1>1, FS_Subset
<1>3. IsFiniteSet({f[r] : r \in S})
  <2> HIDE DEF S, f
  <2> QED BY <1>2, ImageFinite
<1>4. Usable(wp.rows[s]) = {f[r] : r \in S}
  BY DEF Usable
<1> QED BY <1>1, <1>3, <1>4

\* The instants at which some source of a waypoint has a row.
Instants(wp) == UNION {Usable(wp.rows[s]) : s \in Sources}

LEMMA InstantsIs ==
    ASSUME NEW bnd, BundleShape(bnd), NEW wp \in bnd
    PROVE  Instants(wp) \in SUBSET Int /\ IsFiniteSet(Instants(wp))
<1> DEFINE U(s) == Usable(wp.rows[s])
<1>1. \A s \in Sources : U(s) \in SUBSET Int /\ IsFiniteSet(U(s))
  BY UsableIs
<1>2. Instants(wp) = U("station") \cup U("regional") \cup U("global") \cup U("grid")
  BY SourcesAre DEF Instants
<1> HIDE DEF U
<1>3. /\ U("station") \in SUBSET Int /\ IsFiniteSet(U("station"))
      /\ U("regional") \in SUBSET Int /\ IsFiniteSet(U("regional"))
      /\ U("global") \in SUBSET Int /\ IsFiniteSet(U("global"))
      /\ U("grid") \in SUBSET Int /\ IsFiniteSet(U("grid"))
  BY <1>1, SourcesAre
<1>4. IsFiniteSet(U("station") \cup U("regional"))
  BY <1>3, FS_Union
<1>5. IsFiniteSet(U("station") \cup U("regional") \cup U("global"))
  BY <1>3, <1>4, FS_Union
<1>6. IsFiniteSet(U("station") \cup U("regional") \cup U("global") \cup U("grid"))
  BY <1>3, <1>5, FS_Union
<1> QED BY <1>2, <1>3, <1>6

\* A source is heard from its first row to its last.
LEMMA CoversIs ==
    ASSUME NEW bnd, BundleShape(bnd), NEW wp \in bnd, NEW s \in Sources
    PROVE  /\ \A t \in Usable(wp.rows[s]) : Covers(wp.rows[s], t)
           /\ \A t \in Int : Covers(wp.rows[s], t) =>
                 \E lo, hi \in Usable(wp.rows[s]) :
                    /\ lo <= t /\ t <= hi
                    /\ \A x \in Int : lo <= x /\ x <= hi => Covers(wp.rows[s], x)
<1> DEFINE T == Usable(wp.rows[s])
<1>1. T \in SUBSET Int /\ IsFiniteSet(T)
  BY UsableIs
<1> HIDE DEF T
<1>2. T # {} => /\ Min(T) \in T /\ \A y \in T : Min(T) <= y
                /\ Max(T) \in T /\ \A y \in T : y <= Max(T)
  BY <1>1, MinIs, MaxIs
<1>3. \A x : Covers(wp.rows[s], x) <=> T # {} /\ Min(T) <= x /\ x <= Max(T)
  BY DEF Covers, T
<1>4. \A t \in T : Covers(wp.rows[s], t)
  BY <1>2, <1>3
<1>5. ASSUME NEW t \in Int, Covers(wp.rows[s], t)
      PROVE  \E lo, hi \in T : /\ lo <= t /\ t <= hi
                               /\ \A x \in Int : lo <= x /\ x <= hi => Covers(wp.rows[s], x)
  BY <1>2, <1>3, <1>5
<1> QED BY <1>4, <1>5 DEF T

FusedRow(wp, t) == [place |-> wp.place, at |-> t, from |-> Audible(wp, t)]

LEMMA FusedIs ==
    ASSUME NEW bnd, BundleShape(bnd)
    PROVE  /\ \A wp \in bnd : \A t \in Instants(wp) :
                 FusedRow(wp, t) \in FuseBundle(bnd) /\ FusedRow(wp, t).from # {}
           /\ \A row \in FuseBundle(bnd) : \E wp \in bnd : \E t \in Instants(wp) : row = FusedRow(wp, t)
<1>1. ASSUME NEW wp \in bnd, NEW t \in Instants(wp)
      PROVE  FusedRow(wp, t) \in FuseBundle(bnd) /\ FusedRow(wp, t).from # {}
  <2>1. PICK s \in Sources : t \in Usable(wp.rows[s])
    BY DEF Instants
  <2>2. s \in Audible(wp, t)
    BY <2>1, CoversIs DEF Audible
  <2>3. FusedRow(wp, t).from # {}
    BY <2>2 DEF FusedRow
  <2> QED BY <2>3 DEF FusedRow, FuseBundle, Instants
<1>2. ASSUME NEW row \in FuseBundle(bnd)
      PROVE  \E wp \in bnd : \E t \in Instants(wp) : row = FusedRow(wp, t)
  BY DEF FuseBundle, FusedRow, Instants
<1> QED BY <1>1, <1>2

LEMMA PickedIs == \A wp : Picked(wp) \in Sources
<1> SUFFICES ASSUME NEW wp PROVE Picked(wp) \in Sources
  OBVIOUS
<1> DEFINE I == {i \in DOMAIN Order : wp.rows[Order[i]] # {}}
<1>1. DOMAIN Order = 1..4
  BY DEF Order
<1>2. CASE I = {}
  BY <1>2, SourcesAre DEF Picked
<1>3. CASE I # {}
  <2>1. I \in SUBSET (1..4) /\ I # {} /\ 1 \in Int /\ 4 \in Int
    BY <1>1, <1>3
  <2>2. Picked(wp) = Order[Min(I)]
    BY <1>3 DEF Picked
  <2> HIDE DEF I
  <2>3. IsFiniteSet(I)
    BY ONLY <2>1, Bounded
  <2>4. Min(I) \in I
    BY <2>1, <2>3, MinIs
  <2> QED BY <1>1, <2>1, <2>2, <2>4 DEF Sources
<1> QED BY <1>2, <1>3

LEMMA FlatIsFused ==
    ASSUME NEW bnd, BundleShape(bnd), NEW row \in FlattenBundle(bnd)
    PROVE  \E q \in FuseBundle(bnd) : <<q.place, q.at>> = <<row.place, row.at>> /\ row.from \subseteq q.from
<1>1. PICK wp \in bnd : \E t \in Usable(wp.rows[Picked(wp)]) :
          row = [place |-> wp.place, at |-> t, from |-> {Picked(wp)}]
  BY DEF FlattenBundle
<1>2. PICK t \in Usable(wp.rows[Picked(wp)]) :
          row = [place |-> wp.place, at |-> t, from |-> {Picked(wp)}]
  BY <1>1
<1>3. t \in Instants(wp) /\ Picked(wp) \in Audible(wp, t)
  BY PickedIs, CoversIs DEF Instants, Audible
<1>4. FusedRow(wp, t) \in FuseBundle(bnd)
  BY <1>3, FusedIs
<1>5. row.place = wp.place /\ row.at = t /\ row.from = {Picked(wp)}
  BY <1>2
<1>6. FusedRow(wp, t).place = wp.place /\ FusedRow(wp, t).at = t /\ FusedRow(wp, t).from = Audible(wp, t)
  BY DEF FusedRow
<1> QED BY <1>3, <1>4, <1>5, <1>6

\* A corrected row is heard where and when it was, from no fewer sources.
LEMMA NudgeIs ==
    ASSUME NEW bnd, BundleShape(bnd), NEW axis
    PROVE  LET N == NudgeWithAxis(FuseBundle(bnd), axis)
           IN /\ \A q \in FuseBundle(bnd) : \E row \in N :
                    row.place = q.place /\ row.at = q.at /\ q.from \subseteq row.from
              /\ \A row \in N : \E q \in FuseBundle(bnd) :
                    row.place = q.place /\ row.at = q.at /\ q.from \subseteq row.from
<1> DEFINE F == FuseBundle(bnd)
           N == NudgeWithAxis(F, axis)
           more(q) == [q EXCEPT !.from = @ \cup {"axis"}]
<1>1. \A q \in F : /\ more(q).place = q.place /\ more(q).at = q.at /\ q.from \subseteq more(q).from
  <2> SUFFICES ASSUME NEW q \in F
               PROVE  more(q).place = q.place /\ more(q).at = q.at /\ q.from \subseteq more(q).from
    OBVIOUS
  <2> PICK wp \in bnd : \E t \in Instants(wp) : q = FusedRow(wp, t)
    BY FusedIs
  <2> PICK t \in Instants(wp) : q = FusedRow(wp, t)
    OBVIOUS
  <2> QED BY DEF FusedRow
<1>2. CASE axis
  <2>1. N = {more(q) : q \in F}
    BY <1>2 DEF NudgeWithAxis
  <2> HIDE DEF N, F, more
  <2> QED BY <1>1, <2>1 DEF N, F
<1>3. CASE ~axis
  <2>1. N = F
    BY <1>3 DEF NudgeWithAxis
  <2> HIDE DEF N, F, more
  <2> QED BY <1>1, <2>1 DEF N, F
<1> QED BY <1>2, <1>3

LEMMA PlacesAre ==
    ASSUME NEW bnd, BundleShape(bnd), NEW axis
    PROVE  LET F == FuseBundle(bnd)
               N == NudgeWithAxis(F, axis)
               P == {row.place : row \in F}
           IN {row.place : row \in N} = P /\ P \in SUBSET Int /\ IsFiniteSet(P)
<1> DEFINE F == FuseBundle(bnd)
           N == NudgeWithAxis(F, axis)
           P == {row.place : row \in F}
           g == [wp \in bnd |-> wp.place]
           W == {g[wp] : wp \in bnd}
<1>1. {row.place : row \in N} = P
  <2>1. (\A q \in F : \E row \in N : row.place = q.place) /\ (\A row \in N : \E q \in F : row.place = q.place)
    BY NudgeIs
  <2> HIDE DEF F, N
  <2> QED BY <2>1
<1>2. IsFiniteSet(W)
  <2> HIDE DEF g
  <2> QED BY ImageFinite DEF BundleShape
<1>3. P \subseteq W
  <2> SUFFICES ASSUME NEW q \in F PROVE q.place \in W
    OBVIOUS
  <2> PICK wp \in bnd : \E t \in Instants(wp) : q = FusedRow(wp, t)
    BY FusedIs
  <2> q.place = wp.place
    BY DEF FusedRow
  <2> QED OBVIOUS
<1>4. W \in SUBSET Int
  BY DEF BundleShape
<1>5. IsFiniteSet(P) /\ P \in SUBSET Int
  <2> HIDE DEF P, W
  <2> QED BY <1>2, <1>3, <1>4, FS_Subset
<1> QED BY <1>1, <1>5

LEMMA DistanceIs == \A a, b \in Int : Distance(a, b) \in Int
BY DEF Distance

\* The nearest waypoint is one of the bundle.
LEMMA NearestIs ==
    ASSUME NEW bnd, BundleShape(bnd), FuseBundle(bnd) # {}, NEW axis, NEW at \in Int
    PROVE  /\ Nearest(NudgeWithAxis(FuseBundle(bnd), axis), at) = Nearest(FuseBundle(bnd), at)
           /\ \E wp \in bnd : wp.place = Nearest(FuseBundle(bnd), at) /\ Instants(wp) # {}
<1> DEFINE F == FuseBundle(bnd)
           N == NudgeWithAxis(F, axis)
           P == {row.place : row \in F}
           near == {p \in P : \A q \in P : Distance(p, at) <= Distance(q, at)}
           R == {q \in P \X P : Distance(q[2], at) < Distance(q[1], at)}
<1>1. {row.place : row \in N} = P /\ P \in SUBSET Int /\ IsFiniteSet(P)
  BY PlacesAre
<1>2. Nearest(N, at) = Min(near) /\ Nearest(F, at) = Min(near)
  <2> HIDE DEF F, N
  <2>1. Nearest(F, at) = Min(near)
    BY DEF Nearest
  <2>2. Nearest(N, at) = Min({p \in {row.place : row \in N} : \A q \in {row.place : row \in N} :
                                Distance(p, at) <= Distance(q, at)})
    BY DEF Nearest
  <2> HIDE DEF P
  <2> QED BY <1>1, <2>1, <2>2
<1>3. P # {}
  OBVIOUS
<1>4. \A p \in P : Distance(p, at) \in Int
  <2> HIDE DEF P
  <2> QED BY <1>1, DistanceIs
<1>5. \E p \in P : \A q \in P : <<p, q>> \notin R
  <2> HIDE DEF P
  <2>1. \A x \in P : <<x, x>> \notin R
    BY <1>4
  <2>2. \A x, y, z \in P : <<x, y>> \in R /\ <<y, z>> \in R => <<x, z>> \in R
    <3> SUFFICES ASSUME NEW x \in P, NEW y \in P, NEW z \in P,
                        Distance(y, at) < Distance(x, at), Distance(z, at) < Distance(y, at)
                 PROVE  Distance(z, at) < Distance(x, at)
      OBVIOUS
    <3> QED BY <1>4
  <2>3. IsFiniteSet(P) /\ P # {}
    BY <1>1, <1>3
  <2> HIDE DEF R
  <2> QED BY ONLY <2>1, <2>2, <2>3, Maximal
<1>6. near # {}
  <2> HIDE DEF P
  <2> PICK p \in P : \A q \in P : <<p, q>> \notin R
    BY <1>5
  <2>1. \A q \in P : ~(Distance(q, at) < Distance(p, at))
    OBVIOUS
  <2>2. p \in near
    BY <1>4, <2>1
  <2> QED BY <2>2
<1>7. Min(near) \in P
  <2> HIDE DEF P
  <2>1. near \in SUBSET Int /\ IsFiniteSet(near) /\ near \subseteq P
    BY <1>1, FS_Subset
  <2> HIDE DEF near
  <2> QED BY <1>6, <2>1, MinIs
<1>8. PICK q \in F : q.place = Min(near)
  BY <1>7
<1>9. PICK wp \in bnd : \E t \in Instants(wp) : q = FusedRow(wp, t)
  BY FusedIs
<1>10. Instants(wp) # {} /\ q.place = wp.place
  BY <1>9 DEF FusedRow
<1> QED BY <1>2, <1>8, <1>10

\* Whoever speaks at an instant is heard in the winds interpolated there.
LEMMA InterpolatedIs ==
    ASSUME NEW bnd, BundleShape(bnd), FuseBundle(bnd) # {}, NEW axis, NEW at \in Int
    PROVE  LET heard == Interpolated(NudgeWithAxis(FuseBundle(bnd), axis), at)
           IN /\ heard \cap Sources # {}
              /\ \A wp \in bnd : wp.place = Nearest(FuseBundle(bnd), at) => Audible(wp, at) \subseteq heard
<1> DEFINE F == FuseBundle(bnd)
           N == NudgeWithAxis(F, axis)
           place == Nearest(F, at)
           here == {row \in N : row.place = place}
           A == {row.at : row \in here}
           heard == Interpolated(N, at)
<1>1. PICK wp \in bnd : wp.place = place /\ Instants(wp) # {}
  BY NearestIs
<1>2. A = Instants(wp)
  <2>1. ASSUME NEW t \in Instants(wp) PROVE t \in A
    <3>1. FusedRow(wp, t) \in F
      BY FusedIs
    <3>2. PICK row \in N : row.place = FusedRow(wp, t).place /\ row.at = FusedRow(wp, t).at
      BY <3>1, NudgeIs
    <3>3. row.place = place /\ row.at = t
      BY <1>1, <3>2 DEF FusedRow
    <3> HIDE DEF N, place
    <3> QED BY <3>3
  <2>2. ASSUME NEW row \in here PROVE row.at \in Instants(wp)
    <3>1. PICK q \in F : row.place = q.place /\ row.at = q.at
      BY NudgeIs
    <3>2. PICK v \in bnd : \E t \in Instants(v) : q = FusedRow(v, t)
      BY FusedIs
    <3>3. v.place = wp.place /\ row.at \in Instants(v)
      BY <1>1, <3>1, <3>2 DEF FusedRow
    <3>4. v = wp
      BY <3>3 DEF BundleShape
    <3> QED BY <3>3, <3>4
  <2> HIDE DEF here
  <2> QED BY <2>1, <2>2
<1>3. A \in SUBSET Int /\ IsFiniteSet(A) /\ A # {}
  BY <1>1, <1>2, InstantsIs
<1> DEFINE before == {x \in A : x <= at}
           after == {x \in A : x >= at}
           T == Either(A, at)
<1>4. heard = UNION {row.from : row \in {r \in here : r.at \in T}}
  <2>1. Nearest(N, at) = place
    BY NearestIs
  <2> HIDE DEF N, place
  <2> QED BY <2>1 DEF Interpolated
<1>5. \A t \in A \cap T : Audible(wp, t) \subseteq heard /\ Audible(wp, t) # {}
  <2> SUFFICES ASSUME NEW t \in A, t \in T PROVE Audible(wp, t) \subseteq heard /\ Audible(wp, t) # {}
    OBVIOUS
  <2>1. FusedRow(wp, t) \in F /\ FusedRow(wp, t).from # {}
    BY <1>2, FusedIs
  <2>2. PICK row \in N : /\ row.place = FusedRow(wp, t).place /\ row.at = FusedRow(wp, t).at
                         /\ FusedRow(wp, t).from \subseteq row.from
    BY <2>1, NudgeIs
  <2>3. row.place = place /\ row.at = t /\ Audible(wp, t) \subseteq row.from /\ Audible(wp, t) # {}
    BY <1>1, <2>1, <2>2 DEF FusedRow
  <2> HIDE DEF N, place, heard, T
  <2> QED BY <1>4, <2>3
<1> HIDE DEF A
<1>6. /\ before # {} => Max(before) \in before /\ Max(before) \in T /\ \A y \in before : y <= Max(before)
      /\ before = {} => Min(A) \in A /\ Min(A) \in T
  <2>1. before \in SUBSET Int /\ IsFiniteSet(before)
    BY <1>3, FS_Subset
  <2>2. before # {} => Max(before) \in before /\ \A y \in before : y <= Max(before)
    <3> HIDE DEF before
    <3> QED BY <2>1, MaxIs
  <2>3. Min(A) \in A
    BY <1>3, MinIs
  <2>4. (before # {} => Max(before) \in T) /\ (before = {} => Min(A) \in T)
    BY DEF Either
  <2> HIDE DEF before, T
  <2> QED BY <2>2, <2>3, <2>4
<1>7. heard \cap Sources # {}
  <2>1. PICK t \in A : t \in T
    <3> HIDE DEF T
    <3>1. CASE before = {}
      BY <1>6, <3>1
    <3>2. CASE before # {}
      BY <1>6, <3>2
    <3> QED BY <3>1, <3>2
  <2>2. Audible(wp, t) \subseteq heard /\ Audible(wp, t) # {}
    BY <1>5, <2>1
  <2>3. Audible(wp, t) \subseteq Sources
    BY DEF Audible
  <2> HIDE DEF heard
  <2> QED BY <2>2, <2>3
<1>8. ASSUME NEW s \in Audible(wp, at) PROVE s \in heard
  <2>1. s \in Sources /\ Covers(wp.rows[s], at)
    BY DEF Audible
  <2>2. PICK lo, hi \in Usable(wp.rows[s]) :
            /\ lo <= at /\ at <= hi
            /\ \A x \in Int : lo <= x /\ x <= hi => Covers(wp.rows[s], x)
    BY <2>1, CoversIs
  <2>3. lo \in before /\ lo \in Int /\ hi \in Int
    BY <1>2, <1>3, <2>1, <2>2, UsableIs DEF Instants
  <2> DEFINE b == Max(before)
  <2>4. b \in A /\ b \in T /\ b <= at /\ lo <= b /\ b \in Int
    <3>1. b \in before /\ b \in T /\ lo <= b
      BY <1>6, <2>3
    <3> HIDE DEF b, T
    <3> QED BY <1>3, <3>1
  <2> HIDE DEF b
  <2>5. Covers(wp.rows[s], b)
    BY <2>2, <2>3, <2>4
  <2>6. s \in Audible(wp, b)
    BY <2>1, <2>5 DEF Audible
  <2> HIDE DEF heard, T
  <2> QED BY <1>5, <2>4, <2>6
<1>9. \A v \in bnd : v.place = place => v = wp
  BY <1>1 DEF BundleShape
<1> HIDE DEF heard, place
<1>10. \A v \in bnd : v.place = place => Audible(v, at) \subseteq heard
  BY <1>8, <1>9
<1> QED BY <1>7, <1>10 DEF heard, place

\* What an analysis has made of the winds.
WindInv ==
    /\ wind # None \/ refined # {} => job \in Jobs /\ TrackShape(track)
    /\ result = "none" => wind = None /\ refined = {}
    /\ wind = "fusion" =>
          /\ FusedRows(job, track) # {}
          /\ winds = TrueWindFromCached(track, FusedRows(job, track))
    /\ refined \subseteq {track.at[i] : i \in Samples(track)} \cap job.onboard

LEMMA WindInit == Init => WindInv
BY JobAssumption DEF Init, WindInv

LEMMA WindNext == JobInv /\ WindInv /\ [Next]_vars => WindInv'
<1> SUFFICES ASSUME JobInv, WindInv, [Next]_vars PROVE WindInv'
  OBVIOUS
<1>1. CASE /\ job' = job /\ track' = track /\ wind' = wind /\ winds' = winds /\ refined' = refined
           /\ (result = "none") = (result' = "none") \/ result' # "none"
  BY <1>1 DEF WindInv
<1>2. CASE Load
  <2>1. /\ job \in Jobs /\ result = "none" /\ job' = job /\ refined' = refined /\ wind = None /\ refined = {}
        /\ track' = Slice(job.track, job.lo, job.hi)
    BY <1>2 DEF Load, JobInv, LoadInv, WindInv, Maybe
  <2>2. TrackShape(track')
    BY <2>1, SliceIs, JobAssumption
  <2>3. CASE track'.at = <<>>
    <3>1. wind' = wind /\ winds' = winds /\ result' = "no_gps"
      BY <1>2, <2>3 DEF Load
    <3>2. None # "fusion"
      BY JobAssumption
    <3> QED BY <2>1, <3>1, <3>2 DEF WindInv
  <2>4. CASE track'.at # <<>>
    <3>1. /\ wind' = WeightedFusion(job, track') /\ result' = "detecting"
          /\ winds' = IF wind' # "fusion" THEN <<>>
                      ELSE TrueWindFromCached(track', FusedRows(job, track'))
      BY <1>2, <2>4 DEF Load
    <3>2. wind' = "fusion" => FusedRows(job, track') # {}
      BY <3>1 DEF WeightedFusion
    <3> QED BY <2>1, <2>2, <3>1, <3>2 DEF WindInv
  <2> QED BY <2>3, <2>4
<1>3. CASE Measure
  <2>1. /\ result = "detecting" /\ Analysing /\ job' = job /\ track' = track /\ wind' = wind /\ winds' = winds
        /\ result' = "posted" /\ refined' = RefinementsFrom(job, track, wind)
    BY <1>3 DEF Measure, JobInv, LoadInv
  <2>2. job \in Jobs /\ TrackShape(track)
    BY <2>1 DEF Analysing, JobInv, LoadInv, Maybe
  <2>3. DOMAIN track.at = Samples(track)
    BY <2>2 DEF TrackShape, Samples
  <2>4. refined' \subseteq {track.at[i] : i \in Samples(track)} \cap job.onboard
    BY <2>1, <2>3 DEF RefinementsFrom, Measured
  <2> QED BY <2>1, <2>2, <2>4 DEF WindInv
<1>4. CASE \E f \in bundle : FileMerged(f) \/ FileFails(f)
  BY <1>1, <1>4 DEF FileMerged, FileFails, jobVars
<1>5. CASE \E loss \in Losses, rate \in Rates : Decide(loss, rate)
  BY <1>1, <1>5 DEF Decide
<1>6. CASE UNCHANGED vars
  BY <1>1, <1>6 DEF vars, jobVars
<1>7. CASE Skip \/ MeasureRaises \/ ComputeManual
  BY <1>1, <1>7 DEF Skip, MeasureRaises, ComputeManual
<1> QED BY <1>2, <1>3, <1>4, <1>5, <1>6, <1>7 DEF Next

LEMMA WindAlways == Spec => [](JobInv /\ WindInv)
<1>1. Init => JobInv /\ WindInv
  BY JobInit, WindInit
<1>2. JobInv /\ WindInv /\ [Next]_vars => JobInv' /\ WindInv'
  BY JobNext, WindNext
<1> QED BY <1>1, <1>2, PTL DEF Spec

\* Fusion loses no source that the strategy of one source would have kept, nor
\* one that speaks at a sample of the track, for any waypoints and rows.
THEOREM EverySourceHeard == Spec => []NoSourceLost
<1>1. WindInv => NoSourceLost
  <2> SUFFICES ASSUME WindInv, wind = "fusion"
               PROVE  /\ \A row \in FlattenBundle(job.bundle) : \E q \in FuseBundle(job.bundle) :
                            <<q.place, q.at>> = <<row.place, row.at>> /\ row.from \subseteq q.from
                      /\ \A i \in Samples(track) :
                            LET near == Nearest(FuseBundle(job.bundle), track.at[i])
                            IN /\ winds[i] \cap Sources # {}
                               /\ \A wp \in job.bundle :
                                     wp.place = near => Audible(wp, track.at[i]) \subseteq winds[i]
    BY DEF NoSourceLost, WindInv
  <2> DEFINE F == FuseBundle(job.bundle)
             axis == EstimatesAxis(job, track)
             N == NudgeWithAxis(F, axis)
  <2>1. job \in Jobs /\ TrackShape(track)
    BY JobAssumption DEF WindInv
  <2>2. BundleShape(job.bundle)
    BY <2>1, JobAssumption
  <2>3. N # {} /\ winds = TrueWindFromCached(track, N)
    BY DEF WindInv, FusedRows
  <2>4. F # {}
    BY <2>2, <2>3, NudgeIs
  <2>5. ASSUME NEW i \in Samples(track)
        PROVE  /\ winds[i] \cap Sources # {}
               /\ \A wp \in job.bundle :
                     wp.place = Nearest(F, track.at[i]) => Audible(wp, track.at[i]) \subseteq winds[i]
    <3>1. track.at[i] \in Int /\ i \in DOMAIN track.at
      BY <2>1, SamplesIs DEF TrackShape
    <3>2. winds[i] = Interpolated(N, track.at[i])
      <4> HIDE DEF N
      <4> QED BY <2>3, <3>1 DEF TrueWindFromCached
    <3> QED BY <2>2, <2>4, <3>1, <3>2, InterpolatedIs
  <2> QED BY <2>2, <2>5, FlatIsFused
<1> QED BY <1>1, WindAlways, PTL
-----------------------------------------------------------------------------
(* Days and seconds.                                                       *)

LEMMA DivMod ==
    ASSUME NEW n \in Nat \ {0}, NEW x \in Int
    PROVE  \E q \in Int, r \in Nat : q = x \div n /\ r = x % n /\ r < n /\ x = q * n + r
<1>1. PICK q \in Int : q = x \div n
  OBVIOUS
<1>2. PICK r \in Nat : r = x % n /\ r < n
  OBVIOUS
<1>3. x = q * n + r
  BY <1>1, <1>2
<1> QED BY <1>1, <1>2, <1>3

LEMMA TimesMonotone ==
    ASSUME NEW n \in Nat, NEW a \in Int, NEW b \in Int, a <= b
    PROVE  a * n <= b * n
OBVIOUS

LEMMA DivMonotone ==
    ASSUME NEW n \in Nat \ {0}, NEW s \in Int, NEW t \in Int, s <= t
    PROVE  s \div n <= t \div n
OBVIOUS

LEMMA SecondMonotone ==
    ASSUME NEW s \in Int, NEW t \in Int, s <= t
    PROVE  Second(s) \in Int /\ Second(s) <= s /\ Second(s) <= Second(t)
<1>1. Hz \in Nat \ {0}
  BY ClockAssumption
<1>2. PICK p \in Int, u \in Nat : p = s \div Hz /\ u = s % Hz /\ s = p * Hz + u
  BY <1>1, DivMod
<1>3. PICK q \in Int, v \in Nat : q = t \div Hz /\ v = t % Hz /\ t = q * Hz + v
  BY <1>1, DivMod
<1>4. p * Hz <= q * Hz
  BY <1>1, <1>2, <1>3, DivMonotone, TimesMonotone
<1>5. Second(s) = s - u /\ Second(t) = t - v
  BY <1>2, <1>3 DEF Second
<1> DEFINE a == p * Hz
           b == q * Hz
<1>6. a \in Int /\ b \in Int
  BY <1>1
<1>7. a <= b /\ s = a + u /\ t = b + v
  BY <1>2, <1>3, <1>4
<1> HIDE DEF a, b
<1> QED BY <1>5, <1>6, <1>7
-----------------------------------------------------------------------------
(* The rows of one file.                                                   *)

LEMMA FirstIs ==
    ASSUME NEW n \in Nat, NEW S \in SUBSET (1..n), S # {}
    PROVE  First(S) \in S /\ \A y \in S : First(S) <= y
<1>1. IsFiniteSet(S) /\ S \in SUBSET Int
  <2>1. IsFiniteSet(1..n) /\ S \subseteq 1..n
    BY FS_Interval
  <2>2. S \in SUBSET Int
    OBVIOUS
  <2> QED BY <2>1, <2>2, FS_Subset
<1>2. \E x \in S : \A y \in S : x <= y
  BY <1>1, Extremes
<1> QED BY <1>2 DEF First

LEMMA FastestIs ==
    ASSUME NEW n \in Nat, NEW S \in SUBSET (1..n), S # {},
           NEW f, \A i \in S : f.rows[i].speed \in Int
    PROVE  Fastest(f, S) \in S
<1> DEFINE slower == {p \in S \X S : f.rows[p[1]].speed < f.rows[p[2]].speed}
           top == {i \in S : \A k \in S : f.rows[k].speed <= f.rows[i].speed}
<1>1. IsFiniteSet(S)
  <2>1. IsFiniteSet(1..n) /\ S \subseteq 1..n
    BY FS_Interval
  <2> QED BY <2>1, FS_Subset
<1>2. /\ \A x \in S : <<x, x>> \notin slower
      /\ \A x, y, z \in S : <<x, y>> \in slower /\ <<y, z>> \in slower => <<x, z>> \in slower
  OBVIOUS
<1>3. \E x \in S : \A y \in S : <<x, y>> \notin slower
  <2> HIDE DEF slower
  <2> QED BY <1>1, <1>2, Maximal
<1>4. top # {} /\ top \in SUBSET (1..n)
  <2>1. PICK x \in S : \A y \in S : ~(f.rows[x].speed < f.rows[y].speed)
    BY <1>3
  <2>2. ASSUME NEW y \in S PROVE f.rows[y].speed <= f.rows[x].speed
    <3>1. f.rows[x].speed \in Int /\ f.rows[y].speed \in Int
      OBVIOUS
    <3>2. ~(f.rows[x].speed < f.rows[y].speed)
      BY <2>1
    <3> QED BY <3>1, <3>2
  <2> QED BY <2>2
<1>5. First(top) \in top
  <2> HIDE DEF top
  <2> QED BY <1>4, FirstIs
<1> QED BY <1>5 DEF Fastest

LEMMA ListedIs ==
    ASSUME NEW f, FileShape(f)
    PROVE  /\ Rows(f) = 1..Len(f.rows) /\ Len(f.rows) \in Nat
           /\ \A i \in Rows(f) : f.rows[i] \in CsvRow
           /\ Listed(f) \subseteq Rows(f)
           /\ Plausible(f, Listed(f)) \subseteq Listed(f)
<1>1. f.rows \in Seq(CsvRow)
  BY DEF FileShape
<1>2. Rows(f) = 1..Len(f.rows) /\ Len(f.rows) \in Nat /\ \A i \in Rows(f) : f.rows[i] \in CsvRow
  BY <1>1 DEF Rows
<1>3. Listed(f) \subseteq Rows(f)
  BY DEF Listed, S1Rows, Valid
<1>4. Plausible(f, Listed(f)) \subseteq Listed(f)
  BY DEF Plausible
<1> QED BY <1>2, <1>3, <1>4

LEMMA StampInt ==
    ASSUME NEW f, FileShape(f), NEW i \in Listed(f)
    PROVE  /\ GpsStamp(f, f.rows[i]) \in Int
           /\ f.s1 => f.rows[i].clock \in Int /\ f.rows[i].clock >= Day
           /\ ~f.s1 => /\ f.rows[i].clock \in Int /\ f.rows[i].day \in Int
                       /\ GpsStamp(f, f.rows[i]) = f.rows[i].day * Day + f.rows[i].clock
<1> DEFINE row == f.rows[i]
<1>1. i \in Rows(f) /\ row \in CsvRow
  BY ListedIs
<1>2. Day \in Nat \ {0} /\ Hz \in Nat \ {0} /\ Drift \in Nat
  BY ClockAssumption
<1>3. CASE f.s1
  <2>1. row.clock # Blank
    BY <1>3 DEF Listed, S1Rows
  <2>2. row.clock \in Int /\ row.clock >= Day
    BY <1>1, <1>3, <2>1 DEF FileShape
  <2>3. Second(row.clock) \in Int /\ row.clock - Drift \in Int
    BY <1>2, <2>2, SecondMonotone
  <2> QED BY <1>3, <2>2, <2>3 DEF GpsStamp, S1Stamp
<1>4. CASE ~f.s1
  <2>1. row.clock \notin {Blank, Garbled} /\ row.day # Garbled
    BY <1>4 DEF Listed, Valid, Sampled, RowDay
  <2>2. row.clock \in Int /\ row.day \in Int
    BY <1>1, <2>1 DEF CsvRow
  <2>3. GpsStamp(f, row) = row.day * Day + row.clock
    BY <1>4 DEF GpsStamp, RowDay
  <2>4. row.day * Day + row.clock \in Int
    BY <1>2, <2>2
  <2> QED BY <1>4, <2>2, <2>3, <2>4
<1> QED BY <1>3, <1>4

\* A row whose clock is right keeps its day, unless the receiver wrote an
\* earlier one and the file's name has no time.
LEMMA StampIs ==
    ASSUME NEW f, FileShape(f), NEW i \in Listed(f), TrueClock(f.rows[i]),
           \/ f.rows[i].day = Garbled
           \/ f.rows[i].day >= f.rows[i].at \div Day
           \/ f.start # None
    PROVE  GpsStamp(f, f.rows[i]) >= f.rows[i].at
<1> DEFINE row == f.rows[i]
<1>1. i \in Rows(f) /\ row \in CsvRow /\ row.at \in Int
  BY ListedIs DEF CsvRow
<1>2. Day \in Nat \ {0} /\ Warmup \in Nat
  BY ClockAssumption
<1>3. PICK q \in Int, r \in Nat :
         q = row.at \div Day /\ r = row.at % Day /\ r < Day /\ row.at = q * Day + r
  BY <1>1, <1>2, DivMod
<1>4. row.clock = r
  BY <1>3 DEF TrueClock
<1>5. ~f.s1
  <2> SUFFICES ASSUME f.s1 PROVE FALSE
    BY DEF FileShape
  <2>1. row.clock >= Day
    BY StampInt
  <2>2. r >= Day
    BY <1>4, <2>1
  <2> QED BY <1>2, <1>3, <2>2
<1>6. row.day \in Int /\ GpsStamp(f, row) = row.day * Day + r
  BY <1>4, <1>5, StampInt
<1>7. row.day # Garbled
  BY <1>6, FileAssumption
<1> DEFINE a == row.day * Day
           b == q * Day
<1>8. a \in Int /\ b \in Int
  BY <1>2, <1>6
<1>9. GpsStamp(f, row) = a + r /\ row.at = b + r
  BY <1>3, <1>6
<1>10. CASE row.day >= q
  <2>1. a >= b
    BY <1>2, <1>6, <1>10, TimesMonotone
  <2> HIDE DEF a, b
  <2> QED BY <1>8, <1>9, <2>1
<1>11. CASE ~(row.day >= q)
  <2>1. f.start # None /\ f.start \in Int /\ f.day \in Int
    BY <1>3, <1>7, <1>11 DEF FileShape, Maybe
  <2>2. row.day + 1 <= q
    BY <1>6, <1>11
  <2>3. (row.day + 1) * Day <= q * Day
    BY <1>2, <1>6, <2>2, TimesMonotone
  <2>4. a + Day <= b
    BY <1>2, <1>6, <2>3
  <2> DEFINE edge == f.day * Day + f.start - Warmup
  <2>5. edge \in Int /\ row.at <= edge + Day
    BY <1>1, <1>2, <2>1 DEF FileShape
  <2>6. a + r <= edge
    <3> HIDE DEF a, b, edge
    <3> QED BY <1>2, <1>8, <1>9, <2>4, <2>5
  <2>7. Second(a + r) <= edge
    <3> HIDE DEF a, edge
    <3> QED BY <1>8, <2>5, <2>6, SecondMonotone
  <2>8. BeforeStart(f, GpsStamp(f, row))
    <3> HIDE DEF a
    <3> QED BY <1>9, <2>1, <2>7 DEF BeforeStart
  <2>9. ~BeforeStart(f, GpsStamp(f, row))
    BY <1>5 DEF Listed, Valid
  <2> QED BY <2>8, <2>9
<1> QED BY <1>10, <1>11

\* What the 10 Hz and the 1 Hz list hold of a file.
LEMMA ListsAre ==
    ASSUME NEW f, FileShape(f)
    PROVE  LET kept == Plausible(f, Listed(f))
               stamp(i) == GpsStamp(f, f.rows[i])
           IN /\ DOMAIN TenHertz(f) = {stamp(i) : i \in kept}
              /\ DOMAIN OneHertz(f) = {Second(stamp(i)) : i \in kept}
              /\ \A t \in DOMAIN TenHertz(f) : \E i \in Listed(f) :
                    TenHertz(f)[t] = f.rows[i] /\ t = stamp(i)
              /\ \A t \in DOMAIN OneHertz(f) : \E i \in Listed(f) :
                    OneHertz(f)[t] = f.rows[i] /\ t = Second(stamp(i))
<1> DEFINE kept == Plausible(f, Listed(f))
           stamp(i) == GpsStamp(f, f.rows[i])
           n == Len(f.rows)
<1>1. n \in Nat /\ kept \subseteq Listed(f) /\ kept \subseteq 1..n
  BY ListedIs
<1>2. \A i \in kept : f.rows[i].speed \in Int
  BY ListedIs DEF CsvRow
<1>3. ASSUME NEW t \in {stamp(i) : i \in kept}
      PROVE  \E i \in Listed(f) : TenHertz(f)[t] = f.rows[i] /\ t = stamp(i)
  <2> DEFINE S == {i \in kept : stamp(i) = t}
  <2>1. S # {} /\ S \in SUBSET (1..n)
    BY <1>1
  <2>2. First(S) \in S
    <3> HIDE DEF S, n
    <3> QED BY <1>1, <2>1, FirstIs
  <2>3. TenHertz(f)[t] = f.rows[First(S)]
    BY DEF TenHertz
  <2>4. First(S) \in Listed(f) /\ stamp(First(S)) = t
    <3> HIDE DEF stamp
    <3> QED BY <1>1, <2>2
  <2> QED BY <2>3, <2>4
<1>4. ASSUME NEW t \in {Second(stamp(i)) : i \in kept}
      PROVE  \E i \in Listed(f) : OneHertz(f)[t] = f.rows[i] /\ t = Second(stamp(i))
  <2> DEFINE S == {i \in kept : Second(stamp(i)) = t}
  <2>1. S # {} /\ S \in SUBSET (1..n)
    BY <1>1
  <2>2. Fastest(f, S) \in S
    <3>1. \A i \in S : f.rows[i].speed \in Int
      BY <1>2
    <3> HIDE DEF S, n
    <3> QED BY <1>1, <2>1, <3>1, FastestIs
  <2>3. OneHertz(f)[t] = f.rows[Fastest(f, S)]
    BY DEF OneHertz, PerSecond
  <2>4. Fastest(f, S) \in Listed(f) /\ Second(stamp(Fastest(f, S))) = t
    <3> HIDE DEF stamp
    <3> QED BY <1>1, <2>2
  <2> QED BY <2>3, <2>4
<1>5. DOMAIN TenHertz(f) = {stamp(i) : i \in kept}
  BY DEF TenHertz
<1>6. DOMAIN OneHertz(f) = {Second(stamp(i)) : i \in kept}
  BY DEF OneHertz, PerSecond
<1> QED BY <1>3, <1>4, <1>5, <1>6

LEMMA MergeIs ==
    ASSUME NEW old, NEW new
    PROVE  /\ DOMAIN Merge(old, new) = DOMAIN old \cup DOMAIN new
           /\ \A t \in DOMAIN old : Merge(old, new)[t] = old[t]
           /\ \A t \in DOMAIN new \ DOMAIN old : Merge(old, new)[t] = new[t]
BY DEF Merge

\* When more than half of the rows are at place 0, so is the median.
LEMMA MedianIs ==
    ASSUME NEW f, NEW K, IsFiniteSet(K), \A i \in K : f.rows[i].place \in Int,
           2 * Cardinality({i \in K : f.rows[i].place = 0}) > Cardinality(K)
    PROVE  Median(f, K) = 0
<1> DEFINE near == {i \in K : f.rows[i].place = 0}
           above(p) == {i \in K : f.rows[i].place > p}
           from(p) == {i \in K : f.rows[i].place >= p}
           places == {f.rows[i].place : i \in K}
           n == Cardinality(K)
           half == n - n \div 2
           good(p) == Cardinality(above(p)) < half /\ half <= Cardinality(from(p))
<1>1. n \in Nat /\ 2 * Cardinality(near) > n
  BY FS_CardinalityType
<1>2. near \subseteq K /\ IsFiniteSet(near) /\ Cardinality(near) \in Nat
  BY FS_Subset, FS_CardinalityType
<1>3. \A S \in SUBSET K : IsFiniteSet(S) /\ Cardinality(S) \in Nat
  BY FS_Subset, FS_CardinalityType
<1>4. \A S, T \in SUBSET K : S \subseteq T => Cardinality(S) <= Cardinality(T)
  BY <1>3, FS_Subset
<1>5. ASSUME NEW S \in SUBSET K, S \cap near = {}
      PROVE  Cardinality(S) < half
  <2>1. Cardinality(S \cup near) = Cardinality(S) + Cardinality(near)
    <3>1. Cardinality(S \cup near)
             = Cardinality(S) + Cardinality(near) - Cardinality(S \cap near)
      <4> HIDE DEF near
      <4> QED BY <1>2, <1>3, FS_Union
    <3>2. Cardinality(S \cap near) = 0
      BY <1>5, FS_EmptySet
    <3> HIDE DEF near
    <3> QED BY <1>2, <1>3, <3>1, <3>2
  <2>2. Cardinality(S \cup near) <= n
    <3>1. S \cup near \in SUBSET K /\ K \in SUBSET K
      OBVIOUS
    <3> HIDE DEF near
    <3> QED BY <1>4, <3>1
  <2>3. Cardinality(S) \in Nat
    BY <1>3
  <2> HIDE DEF near, n
  <2> QED BY <1>1, <1>2, <2>1, <2>2, <2>3
<1>6. ASSUME NEW S \in SUBSET K, near \subseteq S
      PROVE  half <= Cardinality(S)
  <2>1. Cardinality(near) <= Cardinality(S)
    <3> HIDE DEF near
    <3> QED BY <1>2, <1>4, <1>6
  <2>2. Cardinality(S) \in Nat
    BY <1>3
  <2> HIDE DEF near, n
  <2> QED BY <1>1, <1>2, <2>1, <2>2
<1>7. 0 \in places
  <2>1. near # {}
    <3>1. near = {} => Cardinality(near) = 0
      BY FS_EmptySet
    <3> HIDE DEF near, n
    <3> QED BY <1>1, <3>1
  <2> QED BY <2>1
<1>8. good(0)
  <2>1. above(0) \in SUBSET K /\ above(0) \cap near = {}
    OBVIOUS
  <2>2. from(0) \in SUBSET K /\ near \subseteq from(0)
    OBVIOUS
  <2> HIDE DEF near, n, above, from, half
  <2> QED BY <1>5, <1>6, <2>1, <2>2
<1>9. ASSUME NEW p \in places, good(p) PROVE p = 0
  <2>1. p \in Int
    OBVIOUS
  <2>2. CASE p > 0
    <3>1. from(p) \in SUBSET K /\ from(p) \cap near = {}
      BY <2>1, <2>2
    <3>2. Cardinality(from(p)) < half /\ half <= Cardinality(from(p))
      <4> HIDE DEF near, n, from, half
      <4> QED BY <1>5, <1>9, <3>1
    <3>3. Cardinality(from(p)) \in Nat
      BY <1>3
    <3> HIDE DEF from, n
    <3> QED BY <1>1, <3>2, <3>3
  <2>3. CASE p < 0
    <3>1. above(p) \in SUBSET K /\ near \subseteq above(p)
      BY <2>1, <2>3
    <3>2. Cardinality(above(p)) < half /\ half <= Cardinality(above(p))
      <4> HIDE DEF near, n, above, half
      <4> QED BY <1>6, <1>9, <3>1
    <3>3. Cardinality(above(p)) \in Nat
      BY <1>3
    <3> HIDE DEF above, n
    <3> QED BY <1>1, <3>2, <3>3
  <2> QED BY <2>1, <2>2, <2>3
<1>10. Median(f, K) = CHOOSE p \in places : good(p)
  BY DEF Median
<1> HIDE DEF places, good
<1> QED BY <1>7, <1>8, <1>9, <1>10
-----------------------------------------------------------------------------
(* The streams and the files they came from.                               *)

FilesInv ==
    /\ bundle \in Bundles \cup {{}} /\ seen \subseteq bundle
    /\ blob = [s \in Sensors |-> blob[s]]

\* Each record is a row of some file, at that row's stamp.
FastFrom(f, t) ==
    f.sensor = "gps" /\ \E i \in Listed(f) : fast[t] = f.rows[i] /\ t = GpsStamp(f, f.rows[i])
SlowFrom(f, t) ==
    /\ f.sensor = "gps"
    /\ \E i \in Listed(f) : blob["gps"][t] = f.rows[i] /\ t = Second(GpsStamp(f, f.rows[i]))
RowsInv ==
    /\ \A t \in DOMAIN fast : \E f \in seen : FastFrom(f, t)
    /\ \A t \in DOMAIN blob["gps"] : \E f \in seen : SlowFrom(f, t)
    /\ DOMAIN blob["gps"] = {Second(t) : t \in DOMAIN fast}

\* And of each file that was read, the rows that were kept are stored.
Kept(f) ==
    /\ f.sensor = "gps" =>
          \A i \in Plausible(f, Listed(f)) : GpsStamp(f, f.rows[i]) \in DOMAIN fast
    /\ f.s1 => \A i \in S1Rows(f) : S1Second(f.rows[i]) \in DOMAIN blob[f.sensor]
KeptInv == \A f \in seen : Parses(f) => Kept(f)

StreamsInv == FilesInv /\ RowsInv /\ KeptInv

LEMMA FilesShaped == FilesInv => \A f \in bundle : FileShape(f)
BY FileAssumption DEF FilesInv

LEMMA S1RecordsIs ==
    ASSUME NEW f, FileShape(f), f.s1
    PROVE  {S1Second(f.rows[i]) : i \in S1Rows(f)} \subseteq DOMAIN Records(f)
<1>1. CASE f.sensor = "gps"
  <2>1. Plausible(f, Listed(f)) = S1Rows(f)
    BY DEF Plausible, Listed
  <2>2. DOMAIN Records(f) = {Second(GpsStamp(f, f.rows[i])) : i \in S1Rows(f)}
    BY <1>1, <2>1, ListsAre DEF Records
  <2> QED BY <2>2 DEF GpsStamp, S1Second
<1>2. CASE f.sensor # "gps"
  <2>1. \A i \in S1Rows(f) : i \in Rows(f) /\ Sampled(f.rows[i])
    <3> SUFFICES ASSUME NEW i \in S1Rows(f) PROVE i \in Rows(f) /\ Sampled(f.rows[i])
      OBVIOUS
    <3>1. i \in Rows(f) /\ f.rows[i].clock # Blank
      BY DEF S1Rows
    <3>2. f.rows[i].clock \in Int
      BY <3>1 DEF FileShape
    <3> QED BY <3>1, <3>2, FileAssumption DEF Sampled
  <2>2. DOMAIN Records(f) = Seconds(f)
    BY <1>2 DEF Records, S1Records
  <2>3. \A i \in S1Rows(f) : SensorStamp(f, f.rows[i]) = S1Second(f.rows[i])
    BY DEF SensorStamp
  <2> QED BY <2>1, <2>2, <2>3 DEF Seconds
<1> QED BY <1>1, <1>2

LEMMA StreamsInit == Init => StreamsInv
<1> SUFFICES ASSUME Init PROVE StreamsInv
  OBVIOUS
<1>1. seen = {} /\ fast = NoRecords /\ blob = [s \in Sensors |-> NoRecords]
  BY DEF Init
<1>2. DOMAIN NoRecords = {}
  BY DEF NoRecords
<1>3. blob["gps"] = NoRecords
  BY <1>1 DEF Sensors
<1>4. FilesInv
  BY <1>1 DEF Init, FilesInv
<1> QED BY <1>1, <1>2, <1>3, <1>4 DEF StreamsInv, RowsInv, KeptInv

LEMMA StreamsMerged ==
    ASSUME StreamsInv, NEW f \in bundle, FileMerged(f)
    PROVE  StreamsInv'
<1>1. Parses(f) /\ FileShape(f)
  BY FilesShaped DEF StreamsInv, FileMerged
<1>2. /\ seen' = seen \cup {f} /\ bundle' = bundle
      /\ blob' = [blob EXCEPT ![f.sensor] = Merge(@, Records(f))]
      /\ fast' = IF f.sensor = "gps" THEN Merge(fast, TenHertz(f)) ELSE fast
  BY DEF FileMerged
<1>3. f.sensor \in Sensors /\ "gps" \in Sensors
  BY <1>1 DEF FileShape, Sensors
<1>4. blob = [s \in Sensors |-> blob[s]] /\ seen \subseteq bundle
  BY DEF StreamsInv, FilesInv
<1>5. /\ blob' = [s \in Sensors |-> blob'[s]]
      /\ blob'[f.sensor] = Merge(blob[f.sensor], Records(f))
      /\ \A s \in Sensors \ {f.sensor} : blob'[s] = blob[s]
  BY <1>2, <1>3, <1>4
<1>6. FilesInv'
  BY <1>2, <1>5 DEF StreamsInv, FilesInv
<1>7. DOMAIN fast \subseteq DOMAIN fast'
  BY <1>2, MergeIs
<1>8. ASSUME NEW s \in Sensors PROVE DOMAIN blob[s] \subseteq DOMAIN blob'[s]
  <2>1. DOMAIN Merge(blob[f.sensor], Records(f)) = DOMAIN blob[f.sensor] \cup DOMAIN Records(f)
    BY MergeIs
  <2> QED BY <1>5, <2>1
<1>9. RowsInv'
  <2>1. CASE f.sensor # "gps"
    <3>1. fast' = fast /\ blob'["gps"] = blob["gps"]
      BY <1>2, <1>3, <1>5, <2>1
    <3>2. RowsInv
      BY DEF StreamsInv
    <3> QED BY <1>2, <3>1, <3>2 DEF RowsInv, FastFrom, SlowFrom
  <2>2. CASE f.sensor = "gps"
    <3>1. fast' = Merge(fast, TenHertz(f)) /\ blob'["gps"] = Merge(blob["gps"], OneHertz(f))
      BY <1>2, <1>5, <2>2 DEF Records
    <3>2. /\ \A t \in DOMAIN fast : \E g \in seen : FastFrom(g, t)
          /\ \A t \in DOMAIN blob["gps"] : \E g \in seen : SlowFrom(g, t)
          /\ DOMAIN blob["gps"] = {Second(t) : t \in DOMAIN fast}
      BY DEF StreamsInv, RowsInv
    <3> DEFINE ten == TenHertz(f)
               one == OneHertz(f)
               gps == blob["gps"]
               gps1 == blob'["gps"]
    <3>6. /\ DOMAIN fast' = DOMAIN fast \cup DOMAIN ten
          /\ \A t \in DOMAIN fast : fast'[t] = fast[t]
          /\ \A t \in DOMAIN ten \ DOMAIN fast : fast'[t] = ten[t]
      <4>1. /\ DOMAIN Merge(fast, ten) = DOMAIN fast \cup DOMAIN ten
            /\ \A t \in DOMAIN fast : Merge(fast, ten)[t] = fast[t]
            /\ \A t \in DOMAIN ten \ DOMAIN fast : Merge(fast, ten)[t] = ten[t]
        BY ONLY MergeIs
      <4>2. fast' = Merge(fast, ten)
        BY <3>1
      <4> HIDE DEF ten
      <4> QED BY ONLY <4>1, <4>2
    <3>8. /\ DOMAIN gps1 = DOMAIN gps \cup DOMAIN one
          /\ \A t \in DOMAIN gps : gps1[t] = gps[t]
          /\ \A t \in DOMAIN one \ DOMAIN gps : gps1[t] = one[t]
      <4>1. gps1 = Merge(gps, one)
        BY <3>1
      <4>2. /\ DOMAIN Merge(gps, one) = DOMAIN gps \cup DOMAIN one
            /\ \A t \in DOMAIN gps : Merge(gps, one)[t] = gps[t]
            /\ \A t \in DOMAIN one \ DOMAIN gps : Merge(gps, one)[t] = one[t]
        BY ONLY MergeIs
      <4> HIDE DEF one, gps, gps1
      <4> QED BY ONLY <4>1, <4>2
    <3>3. ASSUME NEW t \in DOMAIN fast' PROVE \E g \in seen' : FastFrom(g, t)'
      <4>1. CASE t \in DOMAIN fast
        <5>1. fast'[t] = fast[t]
          BY <3>6, <3>8, <4>1
        <5>2. PICK g \in seen : FastFrom(g, t)
          BY <3>2, <4>1
        <5> QED BY <1>2, <5>1, <5>2 DEF FastFrom
      <4>2. CASE t \notin DOMAIN fast
        <5>1. t \in DOMAIN TenHertz(f) /\ fast'[t] = TenHertz(f)[t]
          BY <3>6, <3>8, <4>2
        <5>2. PICK i \in Listed(f) : TenHertz(f)[t] = f.rows[i] /\ t = GpsStamp(f, f.rows[i])
          BY <1>1, <5>1, ListsAre
        <5> QED BY <1>2, <2>2, <5>1, <5>2 DEF FastFrom
      <4> QED BY <4>1, <4>2
    <3>4. ASSUME NEW t \in DOMAIN blob'["gps"] PROVE \E g \in seen' : SlowFrom(g, t)'
      <4>1. CASE t \in DOMAIN blob["gps"]
        <5>1. blob'["gps"][t] = blob["gps"][t]
          BY <3>6, <3>8, <4>1
        <5>2. PICK g \in seen : SlowFrom(g, t)
          BY <3>2, <4>1
        <5> QED BY <1>2, <5>1, <5>2 DEF SlowFrom
      <4>2. CASE t \notin DOMAIN blob["gps"]
        <5>1. t \in DOMAIN OneHertz(f) /\ blob'["gps"][t] = OneHertz(f)[t]
          BY <3>6, <3>8, <4>2
        <5>2. PICK i \in Listed(f) :
                 OneHertz(f)[t] = f.rows[i] /\ t = Second(GpsStamp(f, f.rows[i]))
          BY <1>1, <5>1, ListsAre
        <5> QED BY <1>2, <2>2, <5>1, <5>2 DEF SlowFrom
      <4> QED BY <4>1, <4>2
    <3>5. DOMAIN OneHertz(f) = {Second(t) : t \in DOMAIN TenHertz(f)}
      <4>1. /\ DOMAIN TenHertz(f) = {GpsStamp(f, f.rows[i]) : i \in Plausible(f, Listed(f))}
            /\ DOMAIN OneHertz(f) =
                  {Second(GpsStamp(f, f.rows[i])) : i \in Plausible(f, Listed(f))}
        BY <1>1, ListsAre
      <4> QED BY ONLY <4>1
    <3>7. DOMAIN blob'["gps"] = {Second(t) : t \in DOMAIN fast'}
      BY <3>2, <3>5, <3>6, <3>8
    <3> QED BY <3>3, <3>4, <3>7 DEF RowsInv
  <2> QED BY <2>1, <2>2
<1>10. ASSUME NEW g \in seen', Parses(g) PROVE Kept(g)'
  <2>1. CASE g \in seen
    <3>1. Kept(g) /\ g.sensor \in Sensors
      BY <1>4, <1>10, <2>1, FilesShaped DEF StreamsInv, KeptInv, FileShape
    <3> QED BY <1>7, <1>8, <3>1 DEF Kept
  <2>2. CASE g = f
    <3>1. ASSUME f.sensor = "gps", NEW i \in Plausible(f, Listed(f))
          PROVE  GpsStamp(f, f.rows[i]) \in DOMAIN fast'
      <4>1. DOMAIN TenHertz(f) = {GpsStamp(f, f.rows[k]) : k \in Plausible(f, Listed(f))}
        BY <1>1, ListsAre
      <4>2. GpsStamp(f, f.rows[i]) \in DOMAIN TenHertz(f)
        BY <3>1, <4>1
      <4> QED BY <1>2, <3>1, <4>2, MergeIs
    <3>2. ASSUME f.s1, NEW i \in S1Rows(f) PROVE S1Second(f.rows[i]) \in DOMAIN blob'[f.sensor]
      <4>1. S1Second(f.rows[i]) \in DOMAIN Records(f)
        BY <1>1, <3>2, S1RecordsIs
      <4>2. DOMAIN Merge(blob[f.sensor], Records(f)) = DOMAIN blob[f.sensor] \cup DOMAIN Records(f)
        BY MergeIs
      <4> QED BY <1>5, <4>1, <4>2
    <3> QED BY <2>2, <3>1, <3>2 DEF Kept
  <2> QED BY <1>2, <2>1, <2>2
<1>11. KeptInv'
  BY <1>10 DEF KeptInv
<1> QED BY <1>6, <1>9, <1>11 DEF StreamsInv

LEMMA StreamsNext == StreamsInv /\ [Next]_vars => StreamsInv'
<1> SUFFICES ASSUME StreamsInv, [Next]_vars PROVE StreamsInv'
  OBVIOUS
<1>1. CASE \E f \in bundle : FileMerged(f)
  BY <1>1, StreamsMerged
<1>2. ASSUME NEW f \in bundle, FileFails(f) PROVE StreamsInv'
  <2>1. ~Parses(f) /\ seen' = seen \cup {f} /\ UNCHANGED <<bundle, blob, fast>>
    BY <1>2 DEF FileFails
  <2>2. FilesInv'
    BY <2>1 DEF StreamsInv, FilesInv
  <2>3. RowsInv'
    BY <2>1 DEF StreamsInv, RowsInv, FastFrom, SlowFrom
  <2>4. KeptInv'
    BY <2>1 DEF StreamsInv, KeptInv, Kept
  <2> QED BY <2>2, <2>3, <2>4 DEF StreamsInv
<1>3. CASE UNCHANGED fileVars
  <2>1. UNCHANGED <<bundle, blob, fast, seen>>
    BY <1>3 DEF fileVars
  <2> QED BY <2>1 DEF StreamsInv, FilesInv, RowsInv, FastFrom, SlowFrom, KeptInv, Kept
<1>4. (\E f \in bundle : FileMerged(f) \/ FileFails(f)) \/ UNCHANGED fileVars
  BY DEF Next, vars, Load, Skip, Decide, Measure, MeasureRaises, ComputeManual
<1> QED BY <1>1, <1>2, <1>3, <1>4

LEMMA StreamsAlways == Spec => []StreamsInv
<1> QED BY StreamsInit, StreamsNext, PTL DEF Spec

\* No stored position with a right clock lies before the instant it was
\* measured at, but for a day that was read a day early in a file whose name
\* has no time; and an S1 box is stored at the seconds it measured.  For any
\* files, whatever their rows were damaged to.
THEOREM DaysKept == Spec => []NeverDatedBack
<1>1. StreamsInv => NeverDatedBack
  <2> SUFFICES ASSUME StreamsInv PROVE NeverDatedBack
    OBVIOUS
  <2> DEFINE anchored == \A f \in seen : f.start # None
             known(row) == row.day = Garbled \/ row.day >= row.at \div Day \/ anchored
  <2>1. \A f \in seen : FileShape(f)
    BY FilesShaped DEF StreamsInv, FilesInv
  <2>2. ASSUME NEW t \in DOMAIN fast, TrueClock(fast[t]), known(fast[t])
        PROVE  t >= fast[t].at
    <3>1. PICK f \in seen : FastFrom(f, t)
      BY DEF StreamsInv, RowsInv
    <3>2. PICK i \in Listed(f) : fast[t] = f.rows[i] /\ t = GpsStamp(f, f.rows[i])
      BY <3>1 DEF FastFrom
    <3>3. /\ FileShape(f) /\ TrueClock(f.rows[i])
          /\ \/ f.rows[i].day = Garbled
             \/ f.rows[i].day >= f.rows[i].at \div Day
             \/ f.start # None
      BY <2>1, <2>2, <3>1, <3>2
    <3>4. GpsStamp(f, f.rows[i]) >= f.rows[i].at
      BY <3>3, StampIs
    <3> QED BY <3>2, <3>4
  <2>3. ASSUME NEW t \in DOMAIN blob["gps"],
               TrueClock(blob["gps"][t]), known(blob["gps"][t])
        PROVE  t >= Second(blob["gps"][t].at)
    <3>1. PICK f \in seen : SlowFrom(f, t)
      BY DEF StreamsInv, RowsInv
    <3>2. PICK i \in Listed(f) :
             blob["gps"][t] = f.rows[i] /\ t = Second(GpsStamp(f, f.rows[i]))
      BY <3>1 DEF SlowFrom
    <3>3. /\ FileShape(f) /\ TrueClock(f.rows[i])
          /\ \/ f.rows[i].day = Garbled
             \/ f.rows[i].day >= f.rows[i].at \div Day
             \/ f.start # None
      BY <2>1, <2>3, <3>1, <3>2
    <3>4. GpsStamp(f, f.rows[i]) >= f.rows[i].at
      BY <3>3, StampIs
    <3>5. GpsStamp(f, f.rows[i]) \in Int /\ f.rows[i].at \in Int
      BY <3>3, ListedIs, StampInt DEF CsvRow
    <3>6. /\ Second(f.rows[i].at) <= Second(GpsStamp(f, f.rows[i]))
          /\ Second(f.rows[i].at) \in Int /\ Second(GpsStamp(f, f.rows[i])) \in Int
      BY <3>4, <3>5, SecondMonotone
    <3> QED BY <3>2, <3>6
  <2>4. ASSUME NEW f \in seen, f.s1, Parses(f), NEW i \in S1Rows(f), f.rows[i].day # Garbled
        PROVE  Second(f.rows[i].at) \in DOMAIN blob[f.sensor]
    <3>1. S1Second(f.rows[i]) \in DOMAIN blob[f.sensor]
      BY <2>4 DEF StreamsInv, KeptInv, Kept
    <3>2. FileShape(f) /\ i \in Rows(f) /\ f.rows[i].clock # Blank
      BY <2>1 DEF S1Rows
    <3>3. f.rows[i].at \in Int /\ f.rows[i].clock = f.rows[i].at + Drift
      BY <2>4, <3>2, ListedIs DEF FileShape, CsvRow
    <3>4. f.rows[i].clock - Drift = f.rows[i].at
      BY <3>3, ClockAssumption
    <3> QED BY <2>4, <3>1, <3>4 DEF S1Second, S1Stamp
  <2> QED BY <2>2, <2>3, <2>4 DEF NeverDatedBack
<1> QED BY <1>1, StreamsAlways, PTL

\* While most positions of a file are plausible the damaged rows cost only
\* themselves: every clean row is stored at its instant, and the two streams
\* have the same seconds.  For any files, however many rows they have.
THEOREM CleanRowsStored == Spec => []DamageCostsItsRows
<1>1. StreamsInv => DamageCostsItsRows
  <2> SUFFICES ASSUME StreamsInv PROVE DamageCostsItsRows
    OBVIOUS
  <2>1. ASSUME NEW f \in seen, f.sensor = "gps",
               2 * Cardinality({k \in Valid(f) : f.rows[k].place = 0}) > Cardinality(Valid(f)),
               NEW i \in Rows(f), Clean(f, f.rows[i]), f.rows[i].place = 0
        PROVE  f.rows[i].at \in DOMAIN fast
    <3> DEFINE row == f.rows[i]
    <3>1. FileShape(f) /\ row \in CsvRow
      BY FilesShaped, ListedIs DEF StreamsInv, FilesInv
    <3>2. Day \in Nat \ {0}
      BY ClockAssumption
    <3>3. PICK q \in Int, r \in Nat :
             q = row.at \div Day /\ r = row.at % Day /\ r < Day /\ row.at = q * Day + r
      BY <3>1, <3>2, DivMod DEF CsvRow
    <3>4. row.clock = r /\ row.day = q
      BY <2>1, <3>3 DEF Clean, TrueClock, TrueDay
    <3>5. row.clock # Blank /\ row.clock # Garbled /\ row.day # Garbled
      BY <3>4, FileAssumption
    <3>6. ~f.s1
      <4> SUFFICES ASSUME f.s1 PROVE FALSE
        BY <3>1 DEF FileShape
      <4>1. row.clock >= Day
        BY <3>1, <3>5 DEF FileShape
      <4>2. r >= Day
        BY <3>4, <4>1
      <4> QED BY <3>2, <3>3, <4>2
    <3>7. GpsStamp(f, row) = row.at
      BY <3>3, <3>4, <3>6 DEF GpsStamp, RowDay
    <3>8. i \in Valid(f)
      BY <2>1, <3>5, <3>7 DEF Valid, Sampled, RowDay, Clean
    <3>9. Listed(f) = Valid(f)
      BY <3>6 DEF Listed
    <3>10. Valid(f) \subseteq Rows(f) /\ IsFiniteSet(Valid(f))
      <4>1. Valid(f) \subseteq 1..Len(f.rows) /\ Len(f.rows) \in Nat
        BY <3>1, <3>9, ListedIs
      <4>2. IsFiniteSet(1..Len(f.rows))
        BY <4>1, FS_Interval
      <4>3. IsFiniteSet(Valid(f))
        BY <4>1, <4>2, FS_Subset
      <4> QED BY <4>3 DEF Valid
    <3>11. \A k \in Valid(f) : f.rows[k].place \in Int
      <4> SUFFICES ASSUME NEW k \in Valid(f) PROVE f.rows[k].place \in Int
        OBVIOUS
      <4>1. f.rows[k].place # Garbled
        BY DEF Valid, Readable
      <4>2. f.rows[k] \in CsvRow
        BY <3>1, <3>10, ListedIs
      <4> QED BY <4>1, <4>2 DEF CsvRow
    <3>12. Median(f, Valid(f)) = 0
      BY <2>1, <3>10, <3>11, MedianIs
    <3>13. row.place - 0 \in -OutlierDeg..OutlierDeg
      BY <2>1, FileAssumption
    <3>14. i \in Plausible(f, Valid(f))
      BY <3>6, <3>8, <3>12, <3>13 DEF Plausible
    <3>15. Kept(f)
      BY <2>1, <3>6 DEF StreamsInv, KeptInv, Parses
    <3> QED BY <2>1, <3>7, <3>9, <3>14, <3>15 DEF Kept
  <2>2. DOMAIN blob["gps"] = {Second(t) : t \in DOMAIN fast}
    BY DEF StreamsInv, RowsInv
  <2> QED BY <2>1, <2>2 DEF DamageCostsItsRows
<1> QED BY <1>1, StreamsAlways, PTL
=============================================================================
