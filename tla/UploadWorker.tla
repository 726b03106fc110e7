---------------------------- MODULE UploadWorker ----------------------------
(***************************************************************************)
(* The process_upload worker at its task: it merges the sensor files of an *)
(* upload into the upload's streams, analyses the track they leave, and    *)
(* measures a maneuver a user placed by hand.  Of each invocation the      *)
(* model has what is read, in which order it is decided on, and what is    *)
(* stored and reported; the exchange with the backend is IngestPipeline    *)
(* and SessionAnalysis.                                                    *)
(***************************************************************************)
EXTENDS SensorFiles, ManeuverDetection, WindEstimation

CONSTANTS
    Bundles,        \* sets of files, each the upload of one session
    Jobs,           \* analyses, see Job
    Losses,         \* percent of speed a turn may cost or gain
    Rates           \* sharpest rates of a turn

(* A job: the track in gps.json (empty when there is none); lo and hi, the *)
(* trim bounds or None; onboard, the instants of wind.json; bundle, the    *)
(* waypoints of wind_cache.json; tacks, whether the slower half of the     *)
(* moving samples suffices to estimate a direction; axial, whether both    *)
(* tacks of one axis are sailed; axis, the wind direction or else the mean *)
(* heading; manual, the window of a maneuver to measure, or None.          *)

Maybe(S) == S \cup {None}

CsvRow == [at : Int, clock : Int \cup {Blank, Garbled}, day : Int \cup {Garbled},
           place : Int \cup {Garbled}, speed : Int, fix : BOOLEAN]

\* A session is over within a day of the warm-up of its first file; the clock
\* of an S1 box gives instants, all later than the first day, and ran ahead.
FileShape(f) ==
    /\ f.sensor \in Sensors /\ f.s1 \in BOOLEAN /\ f.rows \in Seq(CsvRow)
    /\ f.day \in Int /\ f.start \in Maybe(Int)
    /\ \A i \in Rows(f) :
          LET row == f.rows[i] IN
          /\ f.start # None => row.at <= f.day * Day + f.start - Warmup + Day
          /\ f.s1 /\ row.clock # Blank =>
                /\ row.clock \in Int /\ row.clock >= Day
                /\ row.day # Garbled => row.clock = row.at + Drift

ASSUME FileAssumption ==
    /\ {Blank, Garbled, None} \cap Int = {} /\ Blank # Garbled
    /\ OutlierDeg \in Nat
    /\ \A b \in Bundles : \A f \in b : FileShape(f)

\* gps.json is sorted by its stamps and has one row of each.
TrackShape(trk) ==
    /\ trk \in [at : Seq(Int), heading : Seq(Int), slow : SUBSET Int]
    /\ Len(trk.heading) = Len(trk.at)
    /\ \A i, k \in Samples(trk) : i < k => trk.at[i] < trk.at[k]

\* One station to a place.
BundleShape(waypoints) ==
    /\ IsFiniteSet(waypoints)
    /\ \A wp \in waypoints : /\ wp.place \in Int
                             /\ \A s \in Sources : /\ IsFiniteSet(wp.rows[s])
                                                   /\ \A r \in wp.rows[s] : r.at \in Int
    /\ \A v, w \in waypoints : v.place = w.place => v = w

ASSUME JobAssumption ==
    /\ None \notin Int \cup Jobs \cup {"sensor", "fusion", "gps_estimate", "none"}
    /\ \A j \in Jobs : /\ TrackShape(j.track) /\ BundleShape(j.bundle)
                       /\ j.lo \in Maybe(Int) /\ j.hi \in Maybe(Int)

VARIABLES
    bundle, blob, fast, seen, report,
    job, track, wind, winds, pivots, todo, maneuvers, lastEnd, legs, refined, result

fileVars == <<bundle, blob, fast, seen, report>>
jobVars == <<job, track, wind, winds, pivots, todo, maneuvers, lastEnd, legs, refined, result>>
vars == <<fileVars, jobVars>>

NoRecords == [t \in {} |-> None]

Init ==
    /\ bundle \in Bundles \cup {{}}
    /\ job \in IF bundle = {} THEN Jobs ELSE {None}
    /\ blob = [s \in Sensors |-> NoRecords]
    /\ fast = NoRecords
    /\ seen = {}
    /\ report = None
    /\ track = None /\ wind = None /\ winds = <<>> /\ pivots = {} /\ todo = {}
    /\ maneuvers = {} /\ lastEnd = None /\ legs = {} /\ refined = {} /\ result = "none"

-----------------------------------------------------------------------------
(* process_file: an upload's files come in any order, and more than once.  *)

\* What is stored already wins; the rest comes in at its own stamp.
Merge(old, new) ==
    [t \in DOMAIN old \cup DOMAIN new |-> IF t \in DOMAIN old THEN old[t] ELSE new[t]]

Reported(records) ==
    LET T == DOMAIN records
    IN [status |-> "processed", start |-> IF T = {} THEN None ELSE Least(T),
        end |-> IF T = {} THEN None ELSE Greatest(T), rows |-> Cardinality(T)]

FileMerged(f) ==
    /\ Parses(f)
    /\ blob' = [blob EXCEPT ![f.sensor] = Merge(@, Records(f))]
    /\ fast' = IF f.sensor = "gps" THEN Merge(fast, TenHertz(f)) ELSE fast
    /\ report' = Reported(blob'[f.sensor])
    /\ seen' = seen \cup {f}
    /\ UNCHANGED <<bundle, jobVars>>

FileFails(f) ==
    /\ ~Parses(f)
    /\ report' = [status |-> "failed", start |-> None, end |-> None, rows |-> 0]
    /\ seen' = seen \cup {f}
    /\ UNCHANGED <<bundle, blob, fast, jobVars>>

-----------------------------------------------------------------------------
(* analyze_session                                                         *)

\* The samples of the trimmed part; an open bound keeps everything.
Slice(trk, lo, hi) ==
    LET keep == {i \in Samples(trk) : /\ lo # None => trk.at[i] >= lo
                                      /\ hi # None => trk.at[i] <= hi}
        a == Least(keep)
        b == Greatest(keep)
    IN IF keep = {} THEN [at |-> <<>>, heading |-> <<>>, slow |-> {}]
       ELSE [at |-> SubSeq(trk.at, a, b), heading |-> SubSeq(trk.heading, a, b),
             slow |-> {i \in 1..(b - a + 1) : i + a - 1 \in trk.slow}]

\* The estimate from the track alone has a direction but neither a wind
\* speed nor a wind angle.
HasAngle(tier) == tier \in {"sensor", "fusion"}

Load ==
    /\ job # None /\ job.manual = None /\ result = "none"
    /\ track' = Slice(job.track, job.lo, job.hi)
    /\ IF track'.at = <<>>
       THEN /\ result' = "no_gps"
            /\ UNCHANGED <<wind, winds, pivots, todo>>
       ELSE /\ wind' = WeightedFusion(job, track')
            /\ winds' = IF wind' # "fusion" THEN <<>>
                        ELSE TrueWindFromCached(track', FusedRows(job, track'))
            /\ pivots' = CandidatePivots(track')
            /\ todo' = pivots'
            /\ result' = "detecting"
    /\ UNCHANGED <<fileVars, job, maneuvers, lastEnd, legs, refined>>

Pivot == Least(todo)
Cand == Candidate(track, Pivot)
TooClose == lastEnd # None /\ Cand.start < lastEnd + Spacing

\* The candidates in turn.  Only one that is accepted moves lastEnd.
Skip ==
    /\ result = "detecting" /\ todo # {} /\ TooClose
    /\ todo' = todo \ {Pivot}
    /\ UNCHANGED <<fileVars, job, track, wind, winds, pivots, maneuvers, lastEnd, legs, refined, result>>

EndAtStart(cand) == cand.start
EndOfLast(cand) == cand.end

Decide(loss, rate) ==
    LET kind == Classify(Cand, loss, rate, job.axis, wind # "none")
    IN /\ result = "detecting" /\ todo # {} /\ ~TooClose
       /\ todo' = todo \ {Pivot}
       /\ IF kind = "none" THEN UNCHANGED <<maneuvers, lastEnd>>
          ELSE /\ maneuvers' = maneuvers \cup
                      {[start |-> Cand.start, end |-> Cand.end, kind |-> kind,
                        change |-> Cand.change]}
               /\ lastEnd' = EndOfLast(Cand)
       /\ UNCHANGED <<fileVars, job, track, wind, winds, pivots, legs, refined, result>>

\* Legs, polar and VMG read the wind angle of every row of the series.  A
\* stretch whose headings spread by more than 15 degrees is not a leg.
Measure ==
    /\ result = "detecting" /\ todo = {}
    /\ wind = "none" \/ HasAngle(wind)
    /\ legs' \in SUBSET Stretches(track, maneuvers)
    /\ refined' = RefinementsFrom(job, track, wind)
    /\ result' = "posted"
    /\ UNCHANGED <<fileVars, job, track, wind, winds, pivots, todo, maneuvers, lastEnd>>

\* abs(None), or the mean of Nones, is raised through analyze_session: the
\* invocation logs it and posts nothing.
MeasureRaises ==
    /\ result = "detecting" /\ todo = {}
    /\ wind # "none" /\ ~HasAngle(wind)
    /\ result' = "raised"
    /\ UNCHANGED <<fileVars, job, track, wind, winds, pivots, todo, maneuvers, lastEnd, legs, refined>>

-----------------------------------------------------------------------------
(* process_compute_maneuver: the window a user chose, on the whole track.  *)

Measurable(trk, w) ==
    /\ trk.at # <<>>
    /\ IndexAt(trk, w.start) <= Len(trk.at)
    /\ IndexAt(trk, w.start) \notin trk.slow

ComputeManual ==
    /\ job # None /\ job.manual # None /\ result = "none"
    /\ IF Measurable(job.track, job.manual)
       THEN /\ LET c == Describe(job.track, job.manual.start, job.manual.end)
               IN maneuvers' = {[start |-> c.start, end |-> c.end, kind |-> job.manual.kind,
                                 change |-> c.change]}
            /\ result' = "posted"
       ELSE /\ result' = "raised"
            /\ UNCHANGED maneuvers
    /\ UNCHANGED <<fileVars, job, track, wind, winds, pivots, todo, lastEnd, legs, refined>>

-----------------------------------------------------------------------------
Next ==
    \/ \E f \in bundle : FileMerged(f) \/ FileFails(f)
    \/ Load
    \/ Skip
    \/ \E loss \in Losses, rate \in Rates : Decide(loss, rate)
    \/ Measure
    \/ MeasureRaises
    \/ ComputeManual

Spec == Init /\ [][Next]_vars

-----------------------------------------------------------------------------
(* Properties                                                              *)

\* What the receiver wrote is in the row's columns.
TrueClock(row) == row.clock = row.at % Day
TrueDay(row) == row.day = row.at \div Day
Clean(file, row) ==
    /\ TrueClock(row) /\ TrueDay(row) /\ Readable(row) /\ Fixed(row)
    /\ ~BeforeStart(file, row.at)

\* A position whose clock is right is never stored a day early: the rows past
\* midnight of a session keep their own day although their file is named
\* after the day before, a row whose date is damaged does not fall back to it,
\* and one whose date reads as an earlier day is caught by the time in the
\* file's name (without which nothing tells it from a good one).  Of an S1 box
\* every sensor is stored at the second it measured, whichever files came in.
NeverDatedBack ==
    LET anchored == \A f \in seen : f.start # None
        known(row) == row.day = Garbled \/ row.day >= row.at \div Day \/ anchored
    IN /\ \A t \in DOMAIN fast :
             TrueClock(fast[t]) /\ known(fast[t]) => t >= fast[t].at
       /\ \A t \in DOMAIN blob["gps"] :
             LET row == blob["gps"][t]
             IN TrueClock(row) /\ known(row) => t >= Second(row.at)
       /\ \A f \in seen : f.s1 /\ Parses(f) =>
             \A i \in S1Rows(f) : f.rows[i].day # Garbled =>
                                     Second(f.rows[i].at) \in DOMAIN blob[f.sensor]

\* Damage costs the rows it hits and no others: as long as most positions of
\* a file are plausible, every undamaged row of it is in the 10 Hz stream, and
\* the 1 Hz stream has exactly the seconds of the 10 Hz stream.
DamageCostsItsRows ==
    /\ \A f \in {g \in seen : g.sensor = "gps"} :
          LET near == {i \in Valid(f) : f.rows[i].place = 0}
          IN 2 * Cardinality(near) > Cardinality(Valid(f)) =>
                \A i \in Rows(f) : Clean(f, f.rows[i]) /\ f.rows[i].place = 0 =>
                                      f.rows[i].at \in DOMAIN fast
    /\ DOMAIN blob["gps"] = {Second(t) : t \in DOMAIN fast}

Started == result = "detecting" /\ todo = pivots /\ maneuvers = {}

\* The samples from i to k turn the same way, faster than the threshold, out
\* of a steady leg and into another, by less than half a circle, and further
\* than a candidate needs, at whichever step its run of turning samples ends.
Steady(trk, i, k) == i >= 1 /\ k <= Len(trk.at) /\ \A s \in i..(k - 1) : Turned(trk, s, s + 1) = 0
WideTurn(trk, i, k) ==
    LET step(s) == Turned(trk, s, s + 1)
    IN /\ Steady(trk, i - 10, i) /\ Steady(trk, k, k + 10)
       /\ \A s \in (i - 10)..(k + 9) : trk.at[s + 1] = trk.at[s] + 1
       /\ \/ \A s \in i..(k - 1) : step(s) > Rate /\ Turned(trk, i, s + 1) > 0
          \/ \A s \in i..(k - 1) : step(s) < -Rate /\ Turned(trk, i, s + 1) < 0
       /\ (i - 10)..k \cap trk.slow = {}
       /\ \A s \in i..(k - 1) : NetTurn(trk, i, k) >= MinTurn + Rate * Step + Abs(step(s))

\* No such turn is missed: some candidate covers its middle and turns as far,
\* but for what the bounds may leave out.
NoWideTurnMissed ==
    Started =>
        \A i \in Samples(track) : \A k \in (i + 1)..AtMost(i + 20, Len(track.at)) :
            WideTurn(track, i, k) =>
                \E p \in pivots :
                    LET c == Candidate(track, p)
                    IN /\ c.start <= track.at[k] /\ track.at[i] <= c.end
                       /\ Abs(c.change) + MinTurn >= NetTurn(track, i, k)

Rotated(trk, angle) ==
    [trk EXCEPT !.heading = [i \in Samples(trk) |-> (trk.heading[i] + angle) % 360]]
SameTurnedBy(angle) ==
    LET turned == Rotated(track, angle)
    IN /\ CandidatePivots(turned) = pivots
       /\ \A p \in pivots :
             LET c == Candidate(track, p)
                 d == Candidate(turned, p)
             IN <<c.start, c.end, c.change>> = <<d.start, d.end, d.change>>

\* Nothing depends on where north is: a track turned by any angle has the
\* same turns, at the same instants.
SameOnEveryHeading == Started => \A angle \in {95, 180, 350} : SameTurnedBy(angle)

\* A posted analysis divides the part of the track that was kept: maneuvers
\* are apart, legs do not overlap each other or a maneuver, and none of them
\* leaves the trim bounds.
Within(x) == /\ job.lo # None => x.start >= job.lo
             /\ job.hi # None => x.end <= job.hi
Apart(x, y, gap) == x.end + gap <= y.start \/ y.end + gap <= x.start
LegsBetweenManeuvers ==
    job # None /\ job.manual = None /\ result = "posted" =>
        /\ \A x \in maneuvers \cup legs : x.start <= x.end
        /\ \A x, y \in maneuvers : x = y \/ Apart(x, y, Spacing)
        /\ \A x \in legs : \A y \in (legs \ {x}) \cup maneuvers : Apart(x, y, 0)
        /\ \A x \in legs : Within(x)
        /\ \A x \in maneuvers : Within(x)

\* Fusion loses nothing: it has a row, with that source, at every instant the
\* one-source strategy would have kept; every source of the nearest waypoint
\* that speaks at a sample is heard there; and a tack axis is never the only
\* signal of a wind.  What goes back to the grid was measured on the track.
NoSourceLost ==
    /\ wind = "fusion" =>
          /\ \A row \in FlattenBundle(job.bundle) : \E q \in FuseBundle(job.bundle) :
                <<q.place, q.at>> = <<row.place, row.at>> /\ row.from \subseteq q.from
          /\ \A i \in Samples(track) :
                LET near == Nearest(FuseBundle(job.bundle), track.at[i])
                IN /\ winds[i] \cap Sources # {}
                   /\ \A wp \in job.bundle :
                         wp.place = near => Audible(wp, track.at[i]) \subseteq winds[i]
    /\ refined # {} => refined \subseteq {track.at[i] : i \in Samples(track)} \cap job.onboard

\* Every series of winds has the shape its readers take: an analysis of a
\* track is posted, whichever signal the wind came from.
TrackIsAnalysed == job # None /\ job.manual = None => result # "raised"
=============================================================================
