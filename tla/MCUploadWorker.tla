--------------------------- MODULE MCUploadWorker ---------------------------
(* Sessions that begin two seconds before midnight (Day = 24 ticks of half *)
(* a second), and tracks made of legs and turns.                           *)
EXTENDS UploadWorker

(* Four GPS rows of one file, the first two before midnight of day 1.  Of  *)
(* each: clean, a lost or damaged cell, a bit flip to another day, a       *)
(* position far off, or no fix.                                            *)
Row(at, what) ==
    [at |-> at,
     clock |-> CASE what = "blank" -> Blank [] what = "noclock" -> Garbled [] OTHER -> at % Day,
     day |-> CASE what = "noday" -> Garbled [] what = "earlier" -> (at \div Day) - 1
               [] what = "later" -> (at \div Day) + 1 [] OTHER -> at \div Day,
     place |-> CASE what = "noplace" -> Garbled [] what = "far" -> 5 [] what = "opposite" -> -5
                 [] OTHER -> 0,
     speed |-> at % 5, fix |-> what # "nofix"]
Damage == {"clean", "noday", "earlier", "later", "noplace", "far", "opposite", "blank"}
Four(ats, whats) == [i \in 1..4 |-> Row(ats[i], whats[i])]
GpsFile(start, ats, whats) ==
    [sensor |-> "gps", day |-> 1, start |-> start, utc |-> TRUE, s1 |-> FALSE,
     rows |-> Four(ats, whats)]
Ats == <<45, 47, 48, 49>>
GpsFiles == {GpsFile(s, Ats, w) : s \in {None, 20}, w \in [1..4 -> Damage]}
Rest == GpsFile(20, <<49, 49, 51, 52>>, <<"clean", "clean", "far", "nofix">>)
SensorFile(sensor, utc, start, whats) ==
    [sensor |-> sensor, day |-> 1, start |-> start, utc |-> utc, s1 |-> FALSE,
     rows |-> [i \in 1..3 |-> [Row(<<46, 47, 48>>[i], whats[i])
                  EXCEPT !.clock = IF utc \/ @ \in {Blank, Garbled} THEN @ ELSE <<26, 27, 28>>[i]]]]
OtherFiles ==
    {SensorFile(s, u, start, w) : s \in {"imu", "pressure", "wind"}, u \in BOOLEAN,
        start \in {None, 20}, w \in [1..3 -> {"clean", "noplace", "noclock"}]}
(* Two files of an S1 box: its clock ran 10 ticks ahead; of each row of the *)
(* first, an instant or a cell that does not parse, or no instant.         *)
S1File(sensor, ats, whats) ==
    [sensor |-> sensor, day |-> 1, start |-> 20, utc |-> FALSE, s1 |-> TRUE,
     rows |-> [i \in 1..4 |-> [Row(ats[i], whats[i])
                  EXCEPT !.clock = IF @ = Blank THEN @ ELSE ats[i] + 10]]]
S1Bundles ==
    {{S1File(s, Ats, w), S1File(t, <<46, 47, 55, 57>>, [i \in 1..4 |-> "clean"])} :
        s \in Sensors, t \in Sensors, w \in [1..4 -> {"clean", "noday", "noplace", "far", "blank"}]}
MCBundles == {{f, Rest} : f \in GpsFiles} \cup {{f} : f \in OtherFiles} \cup S1Bundles

(* Legs and turns: samples a second apart, but for a hole; a turn by rate  *)
(* degrees a second over so many samples; the first leg from heading 340.  *)
Shape(first, r1, n1, middle, r2, n2) ==
    [i \in 1..(first + n1 + middle + n2 + 16) |->
        LET t1 == AtMost(AtLeast(i - first, 0), n1)
            t2 == AtMost(AtLeast(i - first - n1 - middle, 0), n2)
        IN (340 + r1 * t1 + r2 * t2 + 720) % 360]
MakeTrack(headings, hole, slow) ==
    [at |-> [i \in DOMAIN headings |-> IF i <= hole THEN i ELSE i + 12],
     heading |-> headings, slow |-> slow]
NoTrack == [at |-> <<>>, heading |-> <<>>, slow |-> {}]
Headings ==
    {Shape(first, r1, n1, middle, r2, n2) :
        first \in {3, 16}, r1 \in {3, 18}, n1 \in {5, 9}, middle \in {4, 12, 30},
        r2 \in {-18, -5, 4, 18}, n2 \in {5, 14}}
(* Waypoints where the track passes at seconds 5 and 60; rows by the half  *)
(* minute, one of which lacks a speed.                                     *)
At(t) == [at |-> t, whole |-> TRUE]
NoSpeed(t) == [at |-> t, whole |-> FALSE]
RowSets == {{}, {At(0), At(30)}, {At(30), At(60), NoSpeed(90)}}
Waypoint(place, st, r, g, e) ==
    [place |-> place, rows |-> [station |-> st, regional |-> r, global |-> g, grid |-> e]]
Forecast == {Waypoint(5, {}, {}, {At(0), At(30), At(60)}, {})}
Bundles4 ==
    {{Waypoint(5, st, r, g, e)} \cup far :
        st \in RowSets \cup {{NoSpeed(0)}}, r \in RowSets, g \in RowSets, e \in RowSets,
        far \in {{}, {Waypoint(60, {}, {At(60)}, {}, {})}}}
Plain == [lo |-> None, hi |-> None, onboard |-> {}, bundle |-> Forecast, tacks |-> FALSE,
         axial |-> FALSE, axis |-> 25, manual |-> None, track |-> NoTrack]
Jobs1 == {[Plain EXCEPT !.track = MakeTrack(h, hole, slow), !.axis = axis] :
             h \in Headings, hole \in {99, 22}, slow \in {{}, 14..18}, axis \in {25, 200}}
Long == MakeTrack(Shape(16, 18, 5, 30, -18, 5), 99, {})
Jobs2 == {[Plain EXCEPT !.track = Long, !.lo = lo, !.hi = hi, !.onboard = on, !.bundle = c,
                       !.tacks = tacks] :
             lo \in {None, 20}, hi \in {None, 50, 10}, on \in {{}, {30}, {99}},
             c \in {{}, Forecast}, tacks \in BOOLEAN}
Jobs3 == {[Plain EXCEPT !.track = MakeTrack(Shape(16, 18, 5, 12, 4, 14), 99, 14..18),
                       !.manual = [start |-> s, end |-> s + 9, kind |-> "tack"]] :
             s \in {5, 15, 60, 90}}
Straight == MakeTrack(Shape(16, 0, 5, 30, 0, 5), 99, {})
Jobs4 == {[Plain EXCEPT !.track = Straight, !.bundle = b, !.axial = axial] :
             b \in Bundles4, axial \in BOOLEAN}
(* A sharp helm, then a slow turn to the new heading.                       *)
Uneven(sharp, n) ==
    MakeTrack([i \in 1..(n + 40) |-> IF i <= 16 THEN 340
                                     ELSE (340 + sharp + 3 * AtMost(i - 17, n)) % 360], 99, {})
Jobs5 == {[Plain EXCEPT !.track = Uneven(sharp, n)] : sharp \in {9, 20}, n \in {3, 9, 15}}
MCJobs == Jobs1 \cup Jobs2 \cup Jobs3 \cup Jobs4 \cup Jobs5
=============================================================================
