--------------------------- MODULE WindEstimation ---------------------------
(***************************************************************************)
(* Which signals the wind of an analysis is made of.  wind_cache.json is a *)
(* set of waypoints; each has a place, named by the instant at which the   *)
(* track passes it, and the rows of every source, of which some lack a     *)
(* direction or a speed.  The vector means and their weights are numerics  *)
(* and stay outside: a wind is the set of the sources that make it up.     *)
(***************************************************************************)
EXTENDS Integers, Sequences, FiniteSets, FiniteSetsExt

\* In the order in which the legacy strategy picks one.
Order == <<"station", "regional", "global", "grid">>
Sources == {Order[i] : i \in DOMAIN Order}

Distance(a, b) == IF a < b THEN b - a ELSE a - b

\* The instants of a source's rows that have a direction and a speed.
Usable(rows) == {r.at : r \in {q \in rows : q.whole}}

\* With the last row left out of a source's span.
CoversOpen(rows, t) ==
    LET T == Usable(rows) IN T # {} /\ Min(T) <= t /\ t < Max(T)
\* A source has a value from its first to its last row and nowhere else.
Covers(rows, t) ==
    LET T == Usable(rows) IN T # {} /\ Min(T) <= t /\ t <= Max(T)

Audible(wp, t) == {s \in Sources : Covers(wp.rows[s], t)}

\* Every weight is positive: a row of any source makes a fused row.
FuseBundle(bundle) ==
    {row \in UNION {{[place |-> wp.place, at |-> t, from |-> Audible(wp, t)] :
                        t \in UNION {Usable(wp.rows[s]) : s \in Sources}} : wp \in bundle} :
        row.from # {}}

\* The one source per waypoint of the legacy strategy, which may turn out to
\* have no usable row.
Picked(wp) ==
    LET I == {i \in DOMAIN Order : wp.rows[Order[i]] # {}}
    IN IF I = {} THEN "grid" ELSE Order[Min(I)]
FlattenBundle(bundle) ==
    UNION {{[place |-> wp.place, at |-> t, from |-> {Picked(wp)}] :
               t \in Usable(wp.rows[Picked(wp)])} : wp \in bundle}

\* A tack axis corrects the direction of rows there are.
NudgeWithAxis(rows, axis) ==
    IF axis THEN {[row EXCEPT !.from = @ \cup {"axis"}] : row \in rows} ELSE rows

\* The rows of the nearest station at either side of an instant; before its
\* first and after its last, that row alone.
Nearest(rows, at) ==
    LET P == {row.place : row \in rows}
    IN Min({p \in P : \A q \in P : Distance(p, at) <= Distance(q, at)})
Either(T, t) ==
    LET before == {x \in T : x <= t}
        after == {x \in T : x >= t}
    IN {IF before = {} THEN Min(T) ELSE Max(before), IF after = {} THEN Max(T) ELSE Min(after)}
Interpolated(rows, at) ==
    LET here == {row \in rows : row.place = Nearest(rows, at)}
        T == Either({row.at : row \in here}, at)
    IN UNION {row.from : row \in {r \in here : r.at \in T}}

TrueWindFromCached(track, rows) ==
    IF rows = {} THEN <<>> ELSE [i \in DOMAIN track.at |-> Interpolated(rows, track.at[i])]

\* The onboard readings taken while the track lasts.
Measured(readings, track) ==
    {t \in readings : t >= track.at[1] /\ t <= track.at[Len(track.at)]}

\* The thresholds on headings and speeds are data of a job.
EstimatesFromGps(job, track) == Len(track.at) >= 60 /\ job.tacks
EstimatesAxis(job, track) == Len(track.at) >= 60 /\ job.axial

FusedRows(job, track) == NudgeWithAxis(FuseBundle(job.bundle), EstimatesAxis(job, track))
WeightedFusion(job, track) ==
    IF Measured(job.onboard, track) # {} THEN "sensor"
    ELSE IF FusedRows(job, track) # {} THEN "fusion"
    ELSE IF EstimatesFromGps(job, track) THEN "gps_estimate"
    ELSE "none"

\* Only what an onboard sensor measured goes back to the grid, where a fix
\* has the very instant of the reading.
RefinementsFrom(job, track, tier) ==
    IF tier # "sensor" THEN {}
    ELSE {t \in Measured(job.onboard, track) : \E i \in DOMAIN track.at : track.at[i] = t}
=============================================================================
