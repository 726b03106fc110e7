------------------------- MODULE ManeuverDetection -------------------------
(***************************************************************************)
(* How the analysis finds maneuvers and legs in a track.  A track is a     *)
(* sequence of samples: the instants at (seconds), the smoothed heading    *)
(* (degrees), and the set slow of samples below 1.5 knots.  The estimator  *)
(* and the smoothing that produce the headings are numerics and stay       *)
(* outside; so do the features a maneuver carries, but for those that the  *)
(* classifier decides on.                                                  *)
(***************************************************************************)
EXTENDS Integers, Sequences, FiniteSets

MinSamples == 20            \* below which nothing is detected
Step == 5                   \* look-ahead, in samples
Rate == 2                   \* degrees a second that count as turning
MaxGap == 5                 \* samples of a dip within one turn
MinTurn == 15               \* degrees a candidate turns at least
Scan == 25                  \* samples searched on either side of a pivot
MaxDuration == 30
Spacing == 20
MinLegPoints == 5
MinLegDuration == 15

Abs(x) == IF x < 0 THEN -x ELSE x
Least(S) == CHOOSE x \in S : \A y \in S : x <= y
Greatest(S) == CHOOSE x \in S : \A y \in S : y <= x
AtLeast(a, b) == IF a < b THEN b ELSE a
AtMost(a, b) == IF a < b THEN a ELSE b

\* Without the wrap at north.
DiffUnwrapped(a, b) == a - b
\* The signed angle from b to a.
Diff(a, b) == ((a - b + 180) % 360) - 180

Samples(track) == 1..Len(track.at)
Turned(track, i, k) == Diff(track.heading[k], track.heading[i])
Ahead(track) == 1..(Len(track.at) - Step)

Crossed(a, b) == (a >= 0) # (b >= 0)

-----------------------------------------------------------------------------
(* Stage 1: a candidate for every turn between two legs.                   *)

\* More than Step seconds' worth in one sample.
TurningSnap(track) == {i \in Ahead(track) : Abs(Turned(track, i, i + 1)) > Rate * Step}
\* Faster than Rate degrees a second over the next Step samples.
Turning(track) ==
    {i \in Ahead(track) :
        LET dt == track.at[i + Step] - track.at[i]
        IN dt > 0 /\ Abs(Turned(track, i, i + Step)) > Rate * dt}

\* Dips of at most MaxGap samples inside a turn belong to it.
CloseGaps(M, n) ==
    M \cup {i \in 1..n : \E a, b \in M : a < i /\ i < b /\ b - a - 1 <= MaxGap
                                         /\ \A k \in (a + 1)..(b - 1) : k \notin M}

\* Maximal runs of consecutive samples of M, as pairs of first and last.
RunsOf(M) ==
    {<<i, CHOOSE j \in M : j >= i /\ j + 1 \notin M /\ i..j \subseteq M>> :
        i \in {k \in M : k - 1 \notin M}}

\* |rate[i]| < |rate[k]|, as products of differences and durations.
Slower(track, i, k) ==
    LET turn(s) == IF s \in Ahead(track) /\ track.at[s + Step] > track.at[s]
                   THEN Abs(Turned(track, s, s + Step)) ELSE 0
        span(s) == IF turn(s) = 0 THEN 1 ELSE track.at[s + Step] - track.at[s]
    IN turn(i) * span(k) < turn(k) * span(i)

NetTurn(track, i, j) == Abs(Turned(track, i, j))

\* The sample of peak rate of every run that turns by MinTurn or more.
TurnPivots(track) ==
    LET runs == {r \in RunsOf(CloseGaps(Turning(track), Len(track.at))) :
                    NetTurn(track, r[1], r[2]) >= MinTurn}
        peak(r) == {p \in r[1]..r[2] : \A k \in r[1]..r[2] : ~Slower(track, p, k)}
    IN {Least(peak(r)) : r \in runs}

\* Back from the pivot to where the fast change begins...
StartOf(track, p) ==
    LET floor == AtLeast(Step + 1, p - Scan)
        calm == {k \in (floor + 1)..p : Abs(Turned(track, k - Step, k)) < 10}
    IN IF calm = {} THEN AtMost(p, floor) ELSE Greatest(calm)

\* ... and on to where the new heading has settled.
EndOf(track, p) ==
    LET ceiling == AtMost(Len(track.at) - Step + 1, p + Scan)
        settled == {k \in p..(ceiling - 1) : Abs(Turned(track, k, k + Step)) < 5}
    IN IF settled = {} THEN AtLeast(p, ceiling) ELSE Least(settled)

\* The first sample at or after t; one past the last when there is none.
IndexAt(track, t) == Least({i \in Samples(track) : track.at[i] >= t} \cup {Len(track.at) + 1})

\* A window described by the samples at its bounds.
Describe(track, first, last) ==
    LET i == IndexAt(track, first)
        j == AtMost(Len(track.at), IndexAt(track, last))
    IN [start |-> first, end |-> last, before |-> track.heading[i],
        after |-> track.heading[j], change |-> Turned(track, i, j)]

\* The pivots whose turn is a candidate: not too long, and not entered while
\* nearly stopped; and the candidate of a pivot.
CandidatePivots(track) ==
    IF Len(track.at) < MinSamples THEN {}
    ELSE {p \in TurnPivots(track) :
             /\ track.at[EndOf(track, p)] - track.at[StartOf(track, p)] <= MaxDuration
             /\ StartOf(track, p) \notin track.slow}
Candidate(track, p) == Describe(track, track.at[StartOf(track, p)], track.at[EndOf(track, p)])

-----------------------------------------------------------------------------
(* Stage 2: is it a maneuver, and which?  The logistic confidence is at    *)
(* least one half when its argument, here times 300, is not negative.      *)

Clamp(x, hi) == AtMost(AtLeast(x, 0), hi)

\* loss: percent of speed lost or gained; rate: the sharpest rate in the turn;
\* real: the axis is a wind direction, not the track's mean heading.
Evidence(cand, loss, rate, axis, real) ==
    LET cross == Crossed(Diff(cand.before, axis), Diff(cand.after, axis))
    IN -450 + 8 * Clamp(Abs(cand.change) - 15, 75) + 15 * Clamp(loss - 5, 30)
       + (IF cross THEN (IF real THEN 450 ELSE 120) ELSE (IF real THEN 270 ELSE 72))
       + 30 * Clamp(rate - 2, 10)

Classify(cand, loss, rate, axis, real) ==
    LET b == Diff(cand.before, axis)
        a == Diff(cand.after, axis)
        kind == IF ~Crossed(b, a) THEN "course_change"
                ELSE IF Abs(b) + Abs(a) < 180 THEN "tack" ELSE "gybe"
        least == [tack |-> 40, gybe |-> 20, course_change |-> 30]
    IN IF Evidence(cand, loss, rate, axis, real) < 0 \/ Abs(cand.change) <= least[kind]
       THEN "none" ELSE kind

-----------------------------------------------------------------------------
(* Legs: what is sailed between the maneuvers.                             *)

\* ms: maneuvers in the order they were found.  Their starts and ends, sorted
\* by start, alternate as the bounds of the stretches between them.
Bounds(track, ms) ==
    LET m(k) == CHOOSE x \in ms : Cardinality({y \in ms : y.start < x.start}) = k - 1
        n == Cardinality(ms)
    IN [k \in 1..(2 * n + 2) |->
            CASE k = 1 -> track.at[1]
              [] k = 2 * n + 2 -> track.at[Len(track.at)]
              [] OTHER -> IF k % 2 = 0 THEN m(k \div 2).start ELSE m(k \div 2).end]

Pairs(bounds) == {k \in DOMAIN bounds : k % 2 = 1}

Stretches(track, ms) ==
    IF Len(track.at) < MinLegPoints THEN {}
    ELSE LET b == Bounds(track, ms)
         IN {[start |-> b[k], end |-> b[k + 1]] :
                k \in {q \in Pairs(b) :
                    /\ Cardinality({i \in Samples(track) :
                                        track.at[i] \in b[q]..b[q + 1]}) >= MinLegPoints
                    /\ b[q + 1] - b[q] >= MinLegDuration}}
=============================================================================
