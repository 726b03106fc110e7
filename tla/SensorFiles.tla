---------------------------- MODULE SensorFiles ----------------------------
(***************************************************************************)
(* What the process_upload worker makes of one CSV file of a device: which *)
(* rows survive the corruption checks, the instant each is stamped with,   *)
(* and the records per second that are left.  Formats: E1, with a UTC      *)
(* column or milliseconds since boot, and that of the older S1 boxes, with *)
(* ISO instants of a clock that ran ahead.                                 *)
(*                                                                         *)
(* Time is counted in ticks, Hz to the second and Day to the day, so the   *)
(* worker's ISO texts, which it compares as texts, are numbers here.  A    *)
(* position is one coordinate.  A list of records sorted by its stamp is a *)
(* function of the stamp.                                                  *)
(***************************************************************************)
EXTENDS Integers, Sequences, FiniteSets

CONSTANTS
    Hz,             \* ticks of a second
    Day,            \* ticks of a day
    Warmup,         \* 5 minutes: how far before its name's time a row may be
    Drift,          \* 41 minutes: how far ahead the clock of an S1 box was
    OutlierMin,     \* records from which the median is trusted (10 in the code)
    OutlierDeg,     \* distance from the median that is implausible (1 degree)
    Blank, Garbled, \* an empty cell; one that does not parse
    None

ASSUME ClockAssumption == /\ Hz \in Nat \ {0} /\ Day \in Nat \ {0} /\ Day % Hz = 0
                          /\ Warmup \in Nat /\ Warmup % Hz = 0
                          /\ Drift \in Nat /\ Drift % Hz = 0

Sensors == {"gps", "imu", "pressure", "wind"}

(* A file: sensor of its suffix, day and clock of its name (start is None  *)
(* when the name has no time), whether it has a UTC column, whether an S1  *)
(* box wrote it, and its rows.  A row: at, when it was measured (no column: *)
(* only properties read it); clock, the UTC column or else the ticks since *)
(* boot; day, the gps_date column; place, speed and fix.  In an S1 file    *)
(* clock is the instant, and a Garbled day one whose text does not parse:  *)
(* clock is then the place of that text in the order of texts.             *)

Second(t) == t - (t % Hz)
Sampled(row) == row.clock \notin {Blank, Garbled}
Rows(file) == DOMAIN file.rows

-----------------------------------------------------------------------------
(* S1: what parses is corrected, what does not is kept as it stands, to    *)
(* the second; no row is dropped but one without an instant.               *)

S1Stamp(row) == IF row.day = Garbled THEN Second(row.clock) ELSE row.clock - Drift
S1Second(row) == Second(S1Stamp(row))
S1Rows(file) == {i \in Rows(file) : file.rows[i].clock # Blank}

\* A cell that does not parse is raised, and the file fails with it.
S1Converts(file) == \A i \in S1Rows(file) : file.rows[i].place # Garbled

-----------------------------------------------------------------------------
(* GPS: ten rows a second.                                                 *)

\* Python compares the texts: "...:27.100Z" sorts before "...:27Z".
BeforeStart(file, t) ==
    file.start # None /\ Second(t) <= file.day * Day + file.start - Warmup

RowDayOfFile(file, row) == IF row.day = Garbled THEN file.day ELSE row.day
RowDay(file, row) == row.day

GpsStamp(file, row) ==
    IF file.s1 THEN S1Stamp(row) ELSE RowDay(file, row) * Day + row.clock

Readable(row) == row.place # Garbled
Fixed(row) == row.fix

Valid(file) ==
    {i \in Rows(file) :
        LET row == file.rows[i] IN
        /\ Sampled(row)
        /\ RowDay(file, row) # Garbled
        /\ ~BeforeStart(file, GpsStamp(file, row))
        /\ Readable(row) /\ Fixed(row)}

\* The middle record of the list as it stands, without sorting it.
MedianUnsorted(file, kept) ==
    LET middle == CHOOSE i \in kept :
                     Cardinality({k \in kept : k < i}) = Cardinality(kept) \div 2
    IN file.rows[middle].place
\* sorted(...)[len // 2]
Median(file, kept) ==
    LET above(p) == Cardinality({i \in kept : file.rows[i].place > p})
        from(p) == Cardinality({i \in kept : file.rows[i].place >= p})
        half == Cardinality(kept) - Cardinality(kept) \div 2
    IN CHOOSE p \in {file.rows[i].place : i \in kept} :
          above(p) < half /\ half <= from(p)

Plausible(file, kept) ==
    IF file.s1 \/ Cardinality(kept) < OutlierMin THEN kept
    ELSE LET m == Median(file, kept)
         IN {i \in kept : file.rows[i].place - m \in -OutlierDeg..OutlierDeg}

First(S) == CHOOSE i \in S : \A k \in S : i <= k

Listed(file) == IF file.s1 THEN S1Rows(file) ELSE Valid(file)

\* The 10 Hz list; of two rows with one stamp the merge keeps the first.
TenHertz(file) ==
    LET kept == Plausible(file, Listed(file))
        at(t) == {i \in kept : GpsStamp(file, file.rows[i]) = t}
    IN [t \in {GpsStamp(file, file.rows[i]) : i \in kept} |-> file.rows[First(at(t))]]

\* The 1 Hz list: of each second the fastest plausible record.
Fastest(file, S) ==
    First({i \in S : \A k \in S : file.rows[k].speed <= file.rows[i].speed})
PerSecond(file, kept) ==
    LET in(s) == {i \in kept : Second(GpsStamp(file, file.rows[i])) = s}
    IN [s \in {Second(GpsStamp(file, file.rows[i])) : i \in kept} |->
            file.rows[Fastest(file, in(s))]]
OneHertz(file) == PerSecond(file, Plausible(file, Listed(file)))

-----------------------------------------------------------------------------
(* IMU, pressure and wind: the day is the file name's, whatever the clock. *)

Base(file) == IF file.start = None THEN 0 ELSE file.start
SensorStamp(file, row) ==
    IF file.s1 THEN S1Second(row)
    ELSE file.day * Day + Second(IF file.utc THEN row.clock ELSE (Base(file) + row.clock) % Day)

Seconds(file) == {SensorStamp(file, file.rows[i]) : i \in {i \in Rows(file) : Sampled(file.rows[i])}}
In(file, s) == {i \in Rows(file) : Sampled(file.rows[i]) /\ SensorStamp(file, file.rows[i]) = s}
Last(S) == CHOOSE i \in S : \A k \in S : k <= i

\* The IMU list averages every row of a second, the others take its last
\* row; a cell that does not parse is raised, and the file fails with it.
Used(file, s) == IF file.sensor = "imu" THEN In(file, s) ELSE {Last(In(file, s))}
Converts(file) == \A s \in Seconds(file) : \A i \in Used(file, s) : Readable(file.rows[i])
SensorRecords(file) == [s \in Seconds(file) |-> file.rows[Last(In(file, s))]]

\* S1 pressure and wind are listed row by row; the merge keeps the first of a
\* second.
S1Records(file) ==
    [s \in Seconds(file) |->
        file.rows[IF file.sensor = "imu" THEN Last(In(file, s)) ELSE First(In(file, s))]]

-----------------------------------------------------------------------------
Parses(file) ==
    IF file.s1 THEN S1Converts(file) ELSE file.sensor = "gps" \/ Converts(file)
Records(file) ==
    IF file.sensor = "gps" THEN OneHertz(file)
    ELSE IF file.s1 THEN S1Records(file) ELSE SensorRecords(file)
=============================================================================
