--------------------------- MODULE SessionAnalysis ---------------------------
(***************************************************************************)
(* Re-analysis of one session: requests guarded by the reanalysis status   *)
(* of an upload start background tasks, a task sends the worker to work,   *)
(* the worker's callback replaces the session's statistics, maneuvers and  *)
(* analysis.  Meanwhile users trim the track and correct, reject, add and  *)
(* delete maneuvers.                                                       *)
(*                                                                         *)
(* Grain of atomicity: a request handler is a sequence of READ COMMITTED   *)
(* transactions; one that writes what it derived from a read is two steps. *)
(***************************************************************************)
EXTENDS Integers, FiniteSets

CONSTANTS
    Handlers,       \* requests the server handles at a time
    Workers,        \* invocations the worker runtime runs at a time (a number)
    MaxUploads,     \* bound: uploads of the session
    MaxJobs,        \* bound: analysis jobs
    MaxWrites,      \* bound: transactions that insert maneuvers
    MaxAttempts,    \* attempts of the worker's callback (3 in the code)
    Trims,          \* track-trim bounds a user may set
    NoTrim,         \* ... and the initial one
    Analyses,       \* [Trims -> set of results]: the windows the worker may detect, or
                    \* None when the trim leaves no GPS point ("No GPS data found")
    Manual,         \* windows a user may add
    Tolerance,      \* OVERLAP_TOLERANCE_SEC
    Spacing,        \* MIN_MANEUVER_SPACING_SEC
    Faults,         \* subset of {"slow", "fail"}: timeouts, invocations that fail
    None

Jobs == 1..MaxJobs
Uploads == 1..MaxUploads
Maybe(S) == S \cup {None}

Window == [lo : Int, hi : Int]
Windows == Manual \cup UNION UNION {Analyses[t] \ {None} : t \in Trims}

\* detect_maneuvers: the next maneuver starts Spacing after the end of the last.
Spaced(v, w) == v.hi + Spacing <= w.lo \/ w.hi + Spacing <= v.lo

ASSUME AnalysisAssumption ==
    /\ MaxUploads \in Nat /\ MaxJobs \in Nat /\ MaxWrites \in Nat
    /\ MaxAttempts \in Nat \ {0} /\ Workers \in Nat
    /\ Tolerance \in Nat /\ Spacing \in Nat
    /\ NoTrim \in Trims
    /\ Windows \subseteq Window
    /\ \A t \in Trims : \A found \in Analyses[t] \ {None} : \A v, w \in found : v = w \/ Spaced(v, w)
    /\ Faults \subseteq {"slow", "fail"}
    /\ None \notin Jobs /\ None # "running"

VARIABLES
    uploads,    \* how many uploads the session has; the latest has this number
    status,     \* [Uploads -> reanalysis_status]
    trim,       \* sessions.trim_start_time, trim_end_time
    rows,       \* session_maneuvers
    stats,      \* job whose summary session_stats holds
    shown,      \* job whose results the session_analysis row holds
    job,        \* [Jobs -> background task and worker invocation]
    handler,    \* [Handlers -> request record]
    writes      \* transactions that inserted maneuvers: names their rows

vars == <<uploads, status, trim, rows, stats, shown, job, handler, writes>>

Key == [by : 1..MaxWrites, win : Windows]
Row == [key : Key, source : {"detected", "manual"}, corrected : BOOLEAN,
        rejected : BOOLEAN, pending : BOOLEAN]
Detected(w, n) == [key |-> [by |-> n, win |-> w], source |-> "detected",
                   corrected |-> FALSE, rejected |-> FALSE, pending |-> FALSE]
Added(w, n) == [Detected(w, n) EXCEPT !.source = "manual", !.pending = TRUE]

FreeJob == [task |-> "free", work |-> "none", kind |-> None, upload |-> None,
            trim |-> None, found |-> {}, tries |-> 0]
Idle == [pc |-> "idle", kind |-> None, upload |-> None, trim |-> None, saw |-> None,
         job |-> None, try |-> None, seen |-> {}, key |-> None]

Init ==
    /\ uploads = 0
    /\ status = [u \in Uploads |-> None]
    /\ trim = NoTrim
    /\ rows = {}
    /\ stats = None /\ shown = None
    /\ job = [j \in Jobs |-> FreeJob]
    /\ handler = [h \in Handlers |-> Idle]
    /\ writes = 0

Busy == {j \in Jobs : job[j].work \in {"compute", "post", "wait"}}

\* Jobs are numbered in the order they start.
Fresh(j) == job[j].task = "free" /\ \A i \in 1..(j - 1) : job[i].task # "free"

\* A device opens an upload; nothing analyses it until a user asks.
NewUpload ==
    /\ uploads < MaxUploads
    /\ uploads' = uploads + 1
    /\ UNCHANGED <<status, trim, rows, stats, shown, job, handler, writes>>

\* register_gps_stream dispatches the analysis of an import itself.
ImportUpload(j) ==
    /\ uploads < MaxUploads /\ Fresh(j)
    /\ uploads' = uploads + 1
    /\ job' = [job EXCEPT ![j] = [FreeJob EXCEPT !.task = "queued", !.kind = "import",
                                    !.upload = uploads + 1, !.trim = NoTrim]]
    /\ UNCHANGED <<status, trim, rows, stats, shown, handler, writes>>

-----------------------------------------------------------------------------
(* Requests that start a job: reanalyze, trim, wind refresh.               *)

MayAsk(h) == handler[h].pc = "idle" /\ \E j \in Jobs : Fresh(j)

\* _latest_upload_or_404, and the bounds the job will apply.
ReadLatest(h, kind) ==
    handler' = [handler EXCEPT ![h] =
        IF uploads = 0 THEN Idle
        ELSE [Idle EXCEPT !.pc = "guard", !.kind = kind, !.upload = uploads,
                          !.trim = trim, !.saw = status[uploads]]]

Ask(h) ==
    /\ MayAsk(h)
    /\ \E kind \in {"reanalyze", "wind"} : ReadLatest(h, kind)
    /\ UNCHANGED <<uploads, status, trim, rows, stats, shown, job, writes>>

\* set_session_trim stores the bounds before it looks at the upload ...
SetTrim(h, t) ==
    /\ MayAsk(h)
    /\ trim # t /\ trim' = t
    /\ handler' = [handler EXCEPT ![h] = [Idle EXCEPT !.pc = "latest"]]
    /\ UNCHANGED <<uploads, status, rows, stats, shown, job, writes>>

\* ... and reads the session back.
AskTrimmed(h) ==
    /\ handler[h].pc = "latest"
    /\ ReadLatest(h, "reanalyze")
    /\ UNCHANGED <<uploads, status, trim, rows, stats, shown, job, writes>>

\* Mutant: the status is set without testing the one that was read.
GuardOpen(h) ==
    /\ handler[h].pc = "guard"
    /\ \E j \in Jobs :
          /\ Fresh(j)
          /\ status' = [status EXCEPT ![handler[h].upload] = "running"]
          /\ job' = [job EXCEPT ![j] = [FreeJob EXCEPT !.task = "queued",
                        !.kind = handler[h].kind, !.upload = handler[h].upload,
                        !.trim = handler[h].trim]]
    /\ handler' = [handler EXCEPT ![h] = Idle]
    /\ UNCHANGED <<uploads, trim, rows, stats, shown, writes>>

\* _start_reanalysis_job tests the status that was read: 409, or running.
Guard(h) ==
    /\ handler[h].pc = "guard"
    /\ \/ /\ handler[h].saw = "running"
          /\ UNCHANGED <<status, job>>
       \/ /\ handler[h].saw # "running"
          /\ \E j \in Jobs :
                /\ Fresh(j)
                /\ status' = [status EXCEPT ![handler[h].upload] = "running"]
                /\ job' = [job EXCEPT ![j] = [FreeJob EXCEPT !.task = "queued",
                        !.kind = handler[h].kind, !.upload = handler[h].upload,
                        !.trim = handler[h].trim]]
    /\ handler' = [handler EXCEPT ![h] = Idle]
    /\ UNCHANGED <<uploads, trim, rows, stats, shown, writes>>

-----------------------------------------------------------------------------
(* The background task.                                                    *)

\* The task is over; its status goes to the upload that was guarded.  The
\* analysis of an import runs without a guard.
End(j, result) ==
    /\ job' = [job EXCEPT ![j].task = "over"]
    /\ status' = IF job[j].kind = "import" THEN status
                 ELSE [status EXCEPT ![job[j].upload] = result]

\* dispatch_analysis; refresh_wind_cache looks the trim up when it runs.
Dispatch(j) ==
    /\ job[j].task = "queued" /\ Cardinality(Busy) < Workers
    /\ job' = [job EXCEPT ![j].task = "sent", ![j].work = "compute",
                          ![j].trim = IF job[j].kind = "wind" THEN trim ELSE @]
    /\ UNCHANGED <<uploads, status, trim, rows, stats, shown, handler, writes>>

\* The runtime is busy, or down: the refused connection is logged and
\* swallowed, and the task ends as if it had run.
DispatchRefused(j) ==
    /\ job[j].task = "queued" /\ (Cardinality(Busy) = Workers \/ "fail" \in Faults)
    /\ End(j, None)
    /\ UNCHANGED <<uploads, trim, rows, stats, shown, handler, writes>>

\* refresh_wind_cache raises when there is no GPS track to sample.
WindFails(j) ==
    /\ "fail" \in Faults
    /\ job[j].task = "queued" /\ job[j].kind = "wind"
    /\ End(j, "failed")
    /\ UNCHANGED <<uploads, trim, rows, stats, shown, handler, writes>>

\* The worker answers, with 200 or 207 alike, or WORKER_TIMEOUT_SEC passes.
TaskEnds(j) ==
    /\ job[j].task = "sent" /\ (job[j].work = "done" \/ "slow" \in Faults)
    /\ End(j, None)
    /\ UNCHANGED <<uploads, trim, rows, stats, shown, handler, writes>>

-----------------------------------------------------------------------------
(* The worker: process_analyze_prefix and its callback.                    *)

Compute(j) ==
    /\ job[j].work = "compute"
    /\ \/ \E found \in Analyses[job[j].trim] :
             job' = [job EXCEPT ![j].work = "post", ![j].found = found, ![j].tries = 1]
       \/ "fail" \in Faults /\ job' = [job EXCEPT ![j].work = "done"]
    /\ UNCHANGED <<uploads, status, trim, rows, stats, shown, handler, writes>>

PostTimeout(j) ==
    /\ "slow" \in Faults
    /\ job[j].work = "wait"
    /\ job' = IF job[j].tries < MaxAttempts
              THEN [job EXCEPT ![j].work = "post", ![j].tries = @ + 1]
              ELSE [job EXCEPT ![j].work = "done"]
    /\ UNCHANGED <<uploads, status, trim, rows, stats, shown, handler, writes>>

-----------------------------------------------------------------------------
(* The callback's handler: upsert_session_analysis.                        *)

\* Statistics are only written when the payload has a summary.
Serve(h, j) ==
    /\ handler[h].pc = "idle" /\ job[j].work = "post"
    /\ job' = [job EXCEPT ![j].work = "wait"]
    /\ stats' = IF job[j].found = None THEN stats ELSE j
    /\ handler' = [handler EXCEPT ![h] = [Idle EXCEPT
            !.pc = "maneuvers", !.job = j, !.try = job[j].tries]]
    /\ UNCHANGED <<uploads, status, trim, rows, shown, writes>>

Candidates(j) == IF job[j].found = None THEN {} ELSE job[j].found

\* Padded intervals overlap: the tolerance counts on both sides.
SameEvent(v, w) == v.lo - Tolerance <= w.hi + Tolerance /\ w.lo - Tolerance <= v.hi + Tolerance

\* Mutant: a rejected row is not preserved.
PreservedUnlessRejected(r) == r.source = "manual" \/ r.corrected

Preserved(r) == r.source = "manual" \/ r.corrected \/ r.rejected

\* Mutant: every candidate is inserted.
ReconcileAll(kept, found) == found

Reconcile(kept, found) == {w \in found : \A r \in kept : ~SameEvent(w, r.key.win)}

\* upsert_maneuvers reads the rows ...
ReadRows(h) ==
    /\ handler[h].pc = "maneuvers"
    /\ handler' = [handler EXCEPT ![h].pc = "replace", ![h].seen = rows]
    /\ UNCHANGED <<uploads, status, trim, rows, stats, shown, job, writes>>

\* Mutant: the rows of the last analysis are not deleted.
ReplaceRowsKeeps(h) ==
    /\ handler[h].pc = "replace" /\ writes < MaxWrites
    /\ LET kept == {r \in handler[h].seen : Preserved(r)} IN
       rows' = rows \cup {Detected(w, writes + 1) : w \in Reconcile(kept, Candidates(handler[h].job))}
    /\ writes' = writes + 1
    /\ handler' = [handler EXCEPT ![h].pc = "analysis", ![h].seen = {}]
    /\ UNCHANGED <<uploads, status, trim, stats, shown, job>>

\* ... deletes by id those it found replaceable, and inserts the candidates
\* that are not an event the user has touched.
ReplaceRows(h) ==
    /\ handler[h].pc = "replace" /\ writes < MaxWrites
    /\ LET kept == {r \in handler[h].seen : Preserved(r)}
           replaceable == {r.key : r \in handler[h].seen \ kept}
       IN rows' = {r \in rows : r.key \notin replaceable} \cup
                  {Detected(w, writes + 1) : w \in Reconcile(kept, Candidates(handler[h].job))}
    /\ writes' = writes + 1
    /\ handler' = [handler EXCEPT ![h].pc = "analysis", ![h].seen = {}]
    /\ UNCHANGED <<uploads, status, trim, stats, shown, job>>

\* Mutant: a callback whose client has gone is aborted half-way.
WriteAnalysisAborts(h) ==
    /\ handler[h].pc = "analysis"
    /\ LET j == handler[h].job IN
       IF job[j].work = "wait" /\ job[j].tries = handler[h].try
       THEN /\ shown' = j
            /\ job' = [job EXCEPT ![j].work = "done"]
       ELSE UNCHANGED <<shown, job>>
    /\ handler' = [handler EXCEPT ![h] = Idle]
    /\ UNCHANGED <<uploads, status, trim, rows, stats, writes>>

\* The answer counts only if the worker still waits for this attempt.
WriteAnalysis(h) ==
    /\ handler[h].pc = "analysis"
    /\ LET j == handler[h].job IN
       /\ shown' = j
       /\ job' = IF job[j].work = "wait" /\ job[j].tries = handler[h].try
                 THEN [job EXCEPT ![j].work = "done"] ELSE job
    /\ handler' = [handler EXCEPT ![h] = Idle]
    /\ UNCHANGED <<uploads, status, trim, rows, stats, writes>>

-----------------------------------------------------------------------------
(* Users edit maneuvers.                                                   *)

\* _require_maneuver, and which rows an operation accepts (400 otherwise).
Accepts(op, r) ==
    CASE op = "correct" -> TRUE
      [] op \in {"reject", "restore"} -> r.source = "detected"
      [] op = "delete" -> r.source = "manual"

Edits == {"correct", "reject", "restore", "delete"}

CheckEdit(h, op, r) ==
    /\ handler[h].pc = "idle" /\ r \in rows /\ Accepts(op, r)
    /\ handler' = [handler EXCEPT ![h] = [Idle EXCEPT !.pc = op, !.key = r.key]]
    /\ UNCHANGED <<uploads, status, trim, rows, stats, shown, job, writes>>

Edited(op, r) ==
    CASE op = "correct" -> {[r EXCEPT !.corrected = TRUE]}
      [] op = "reject" -> {[r EXCEPT !.rejected = TRUE]}
      [] op = "restore" -> {[r EXCEPT !.rejected = FALSE]}
      [] op = "delete" -> {}

\* Nothing happens to a row that has gone meanwhile.
ApplyEdit(h) ==
    /\ handler[h].pc \in Edits
    /\ rows' = UNION {IF r.key = handler[h].key THEN Edited(handler[h].pc, r) ELSE {r} : r \in rows}
    /\ handler' = [handler EXCEPT ![h] = Idle]
    /\ UNCHANGED <<uploads, status, trim, stats, shown, job, writes>>

\* add_maneuver: a placeholder row, and a task that has the worker fill it.
AddManeuver(h, w) ==
    /\ handler[h].pc = "idle" /\ uploads > 0 /\ writes < MaxWrites
    /\ rows' = rows \cup {Added(w, writes + 1)}
    /\ writes' = writes + 1
    /\ UNCHANGED <<uploads, status, trim, stats, shown, job, handler>>

\* maneuver_computed: 404 when the row was deleted.  "On failure the maneuver
\* row is left pending indefinitely": nothing obliges this to happen.
FillManeuver(h, r) ==
    /\ handler[h].pc = "idle" /\ r \in rows /\ r.pending
    /\ rows' = (rows \ {r}) \cup {[r EXCEPT !.pending = FALSE]}
    /\ UNCHANGED <<uploads, status, trim, stats, shown, job, handler, writes>>

-----------------------------------------------------------------------------
Request(h) ==
    \/ AskTrimmed(h) \/ Guard(h) \/ ReadRows(h) \/ ReplaceRows(h) \/ WriteAnalysis(h)
    \/ ApplyEdit(h)

Progress(j) ==
    \/ Dispatch(j) \/ DispatchRefused(j) \/ TaskEnds(j) \/ Compute(j)
    \/ \E h \in Handlers : Serve(h, j)

Next ==
    \/ NewUpload
    \/ \E j \in Jobs : ImportUpload(j) \/ Progress(j) \/ WindFails(j) \/ PostTimeout(j)
    \/ \E h \in Handlers :
          \/ Ask(h) \/ Request(h)
          \/ \E t \in Trims : SetTrim(h, t)
          \/ \E op \in Edits, r \in rows : CheckEdit(h, op, r)
          \/ \E w \in Manual : AddManeuver(h, w)
          \/ \E r \in rows : FillManeuver(h, r)

Spec == Init /\ [][Next]_vars

-----------------------------------------------------------------------------
(* Properties.                                                             *)

JobRecord == [task : {"free", "queued", "sent", "over"},
              work : {"none", "compute", "post", "wait", "done"},
              kind : Maybe({"import", "reanalyze", "wind"}), upload : Maybe(Uploads),
              trim : Maybe(Trims), found : Maybe(SUBSET Windows), tries : 0..MaxAttempts]
HandlerRecord == [pc : {"idle", "latest", "guard", "maneuvers", "replace", "analysis"} \cup Edits,
                  kind : Maybe({"reanalyze", "wind"}), upload : Maybe(Uploads),
                  trim : Maybe(Trims), saw : Maybe({"running", "failed"}), job : Maybe(Jobs),
                  try : Maybe(1..MaxAttempts), seen : SUBSET Row, key : Maybe(Key)]

\* Type invariant of the session's rows, its jobs and the requests.
TypeOK ==
    /\ uploads \in 0..MaxUploads
    /\ status \in [Uploads -> Maybe({"running", "failed"})]
    /\ trim \in Trims
    /\ rows \subseteq Row
    /\ stats \in Maybe(Jobs)
    /\ shown \in Maybe(Jobs)
    /\ job \in [Jobs -> JobRecord]
    /\ handler \in [Handlers -> HandlerRecord]
    /\ writes \in 0..MaxWrites

Touched(r) == r.source = "manual" \/ r.corrected \/ r.rejected

Removes(h, r) == handler[h].pc = "delete" /\ handler[h].key = r.key

\* upsert_maneuvers: a row a user has added, corrected or rejected only ever
\* goes away through the user's own delete, whatever is re-analysed.
UserRowsKept ==
    [][\A r \in rows : Touched(r) =>
            \/ \E s \in rows' : s.key = r.key
            \/ \E h \in Handlers : Removes(h, r)]_vars

\* "The session never accumulates duplicates across reanalyses": detected
\* rows of one event come from one analysis, also after rejects are undone,
\* callbacks are repeated and jobs overlap.
OneAnalysisPerEvent ==
    \A r, s \in rows :
        r.source = "detected" /\ s.source = "detected" /\ SameEvent(r.key.win, s.key.win)
            => r.key.by = s.key.by

\* A re-detected event is never inserted beside a row the user has touched.
UserRowsWin ==
    [][\A r \in rows' : (\A s \in rows : s.key # r.key) /\ r.source = "detected" =>
            \A p \in rows : Touched(p) => ~SameEvent(r.key.win, p.key.win)]_vars

Guarded(u) == {j \in Jobs : /\ job[j].task \in {"queued", "sent"}
                            /\ job[j].kind # "import" /\ job[j].upload = u}

\* _start_reanalysis_job: the status says running exactly while a guarded
\* task of the upload is in progress, and there is only one.
StatusTellsTask ==
    \A u \in Uploads : /\ status[u] = "running" <=> Guarded(u) # {}
                       /\ Cardinality(Guarded(u)) <= 1

AtRest == /\ \A h \in Handlers : handler[h].pc = "idle"
          /\ Busy = {}

\* The statistics shown belong to the analysis shown, not to another one,
\* unless that analysis found no track: then the older statistics stay.
OneAnalysisShown ==
    AtRest /\ shown # None => job[shown].found = None \/ stats = shown

\* MIN_MANEUVER_SPACING_SEC is the detector's own floor for "two maneuvers are
\* far enough apart to be distinct": reconcile drops no such candidate.
\* Not kept by the code: see README, section 6.
DistinctEventsKept ==
    \A h \in Handlers : handler[h].pc = "replace" =>
        LET kept == {r \in handler[h].seen : Preserved(r)} IN
        \A w \in Candidates(handler[h].job) :
            (\A r \in kept : Spaced(w, r.key.win)) => w \in Reconcile(kept, Candidates(handler[h].job))

\* get_reanalysis_status: null means "no job running, or the last one finished
\* successfully": then its result was stored.
\* Not kept by the code: see README, section 6.
NullMeansSuccess ==
    \A j \in Jobs : /\ job[j].task = "over" /\ job[j].kind # "import"
                    /\ \A i \in (j + 1)..MaxJobs : job[i].task = "free"
                    /\ status[job[j].upload] = None
                    => job[j].work = "done" /\ shown = j
=============================================================================
