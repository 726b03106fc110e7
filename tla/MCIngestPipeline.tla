-------------------------- MODULE MCIngestPipeline --------------------------
(***************************************************************************)
(* Instances of IngestPipeline for TLC.  The files: a and b are two GPS    *)
(* files with overlapping time ranges, i an IMU file, c does not parse, d  *)
(* has no valid row, x has a suffix the worker does not know.              *)
(***************************************************************************)
EXTENDS IngestPipeline

CONSTANTS u1, u2, a, b, c, d, i, x, gps, imu

MCUploadOf == [f \in Files |-> IF f \in {c, i} THEN u2 ELSE u1]
MCSensorOf == [f \in Files |-> IF f = x THEN None ELSE IF f = i THEN imu ELSE gps]
MCOutcome == [f \in Files |-> IF f = c THEN "corrupt" ELSE IF f = d THEN "blank" ELSE "points"]
MCSpan == [f \in Files |-> CASE f = a -> [lo |-> 3, hi |-> 6]
                          [] f = b -> [lo |-> 1, hi |-> 7]
                          [] OTHER -> [lo |-> 4, hi |-> 5]]
MCFinal == [u \in Uploads |-> TRUE]
MCChunks == [u \in Uploads |-> u # u1]

NoReports == {}
DeviceFinal == [kind |-> "device", upload |-> u1, status |-> None, final |-> TRUE]
DeviceFailed == [kind |-> "device", upload |-> u1, status |-> "failed", final |-> None]
MCReports == {DeviceFinal, DeviceFailed}

Unreadable == {"read"}
Slow == {"slow"}
AllFaults == {"slow", "crash", "read", "put"}
=============================================================================
