--------------------------- MODULE IngestPipeline ---------------------------
(***************************************************************************)
(* How the files of one session's uploads become stream rows: a PUT fires  *)
(* the storage webhook, a background task holds a server thread while it   *)
(* invokes the process_upload worker, the worker merges the file into the  *)
(* sensor's blob and reports back to /api/system/ingest/complete, which    *)
(* runs as a sequence of database transactions on another thread.          *)
(*                                                                         *)
(* Grain of atomicity: one action per database transaction that only       *)
(* writes, two (read, commit) for a transaction that writes what it        *)
(* computed from a read.  The sessions run at READ COMMITTED without row   *)
(* locks, so other transactions commit in between.  Worker code is split   *)
(* at its object-store calls.                                              *)
(***************************************************************************)
EXTENDS Integers, FiniteSets

CONSTANTS
    Uploads,        \* session_uploads rows of the session
    Files,          \* raw objects, each belonging to one upload
    Sensors,        \* sensor types recognised from a filename
    Threads,        \* the server's thread pool: background tasks and handlers
    Workers,        \* invocations the worker runtime runs at a time
    UploadOf,       \* [Files -> Uploads]
    SensorOf,       \* [Files -> Sensors \cup {None}]; None: unknown suffix
    Outcome,        \* [Files -> {"points", "blank", "corrupt"}]
    Span,           \* [Files -> [lo: Nat, hi: Nat]], the file's time range
    OpenedAt,       \* the started_at the device declared
    FinalChunk,     \* [Uploads -> BOOLEAN], is_final of the opening request
    MaxPuts,        \* bound: PUTs (so storage events) per file
    MaxAttempts,    \* attempts of the worker's callback (3 in the code)
    Reports,        \* what devices and operators may report, see Report
    Faults,         \* what may go wrong: "slow" (Timeout), "crash" (Crash), and
                    \* the object store failing a "read" or a "put" of the worker
    None

Statuses == {"pending", "processing", "processed", "failed"}
Maybe(S) == S \cup {None}

\* PATCH /devices/me/session-uploads/{id} and POST /system/session-uploads/{id}/status.
Report == [kind : {"device", "system"}, upload : Uploads,
           status : Maybe(Statuses), final : Maybe(BOOLEAN)]

\* process_file ignores a file whose name carries no known sensor suffix.
SensorFiles == {f \in Files : SensorOf[f] # None}

\* POST /system/ingest/complete: one attempt of one run of a file.
Callback == [file : SensorFiles, run : 1..MaxPuts, attempt : 1..MaxAttempts,
             upload : Uploads, status : {"processed", "failed"},
             points : SUBSET Files, lo : Maybe(Nat), hi : Maybe(Nat)]

Request == Reports \cup Callback
IsCallback(q) == q \in Callback

Row == [upload : Uploads, sensor : Sensors, points : SUBSET Files, by : Callback]

ASSUME NoneAssumption ==
    /\ None \notin Nat \cup Statuses \cup Sensors \cup BOOLEAN \cup Request
    /\ \A S \in SUBSET Files : S # None
ASSUME ShapeAssumption ==
    /\ UploadOf \in [Files -> Uploads]
    /\ SensorOf \in [Files -> Maybe(Sensors)]
    /\ Outcome \in [Files -> {"points", "blank", "corrupt"}]
    /\ Span \in [Files -> [lo : Nat, hi : Nat]]
    /\ OpenedAt \in Nat
    /\ FinalChunk \in [Uploads -> BOOLEAN]
    /\ MaxPuts \in Nat /\ MaxAttempts \in Nat \ {0}
    /\ Faults \subseteq {"slow", "crash", "read", "put"}
\* A device may only report "failed" (422 otherwise); an operator does not
\* report "processed" by hand: that is the worker's callback.
ASSUME ReportAssumption ==
    /\ Reports \subseteq Report
    /\ \A q \in Reports : /\ q.status # "processed"
                          /\ q.kind = "device" => q.status \in {"failed", None}
                          /\ q.kind = "system" => q.status \in Statuses /\ q.final = None

VARIABLES
    session,    \* [live, status, lo, hi]: the sessions row
    upload,     \* [Uploads -> Statuses \cup {"absent", "gone"}]
    final,      \* [Uploads -> BOOLEAN]: is_final
    rows,       \* session_streams, a set of Row
    blob,       \* [Uploads -> [Sensors -> Maybe(SUBSET Files)]]: processed/uploads/*
    behind,     \* history: invocations about to write an object without its points
    puts,       \* [Files -> 0..MaxPuts]: how often the raw object was PUT
    events,     \* storage events the webhook has queued as background tasks
    worker,     \* [Workers -> invocation record]
    thread,     \* [Threads -> thread record]
    queue,      \* requests accepted by the server, waiting for a thread
    sent        \* reports already sent

vars == <<session, upload, final, rows, blob, behind, puts, events, worker, thread, queue, sent>>

Run == [file : Files, run : 1..MaxPuts]

FreeWorker == [pc |-> "idle", run |-> None, seen |-> {}, call |-> None]
FreeThread == [pc |-> "idle", req |-> None, worker |-> None, saw |-> None,
               rows |-> {}, lo |-> None, hi |-> None, next |-> None]

Init ==
    /\ session = [live |-> TRUE, status |-> "pending", lo |-> OpenedAt, hi |-> None]
    /\ upload = [u \in Uploads |-> "absent"]
    /\ final = FinalChunk
    /\ rows = {}
    /\ blob = [u \in Uploads |-> [s \in Sensors |-> None]]
    /\ behind = {}
    /\ puts = [f \in Files |-> 0]
    /\ events = {}
    /\ worker = [w \in Workers |-> FreeWorker]
    /\ thread = [t \in Threads |-> FreeThread]
    /\ queue = {}
    /\ sent = {}

-----------------------------------------------------------------------------
(* The device: open an upload, PUT its files, report a problem.            *)

OpenUpload(u) ==
    /\ session.live /\ upload[u] = "absent"
    /\ upload' = [upload EXCEPT ![u] = "pending"]
    /\ UNCHANGED <<session, final, rows, blob, behind, puts, events, worker, thread, queue, sent>>

\* The presigned URL authorises the PUT by itself, so it also succeeds after
\* the session is deleted.  A retried PUT fires a second event.
PutFile(f) ==
    /\ upload[UploadOf[f]] # "absent"
    /\ puts[f] < MaxPuts
    /\ puts' = [puts EXCEPT ![f] = @ + 1]
    /\ events' = events \cup {[file |-> f, run |-> puts[f] + 1]}
    /\ UNCHANGED <<session, upload, final, rows, blob, behind, worker, thread, queue, sent>>

SendReport(q) ==
    /\ q \in Reports \ sent
    /\ upload[q.upload] # "absent"
    /\ queue' = queue \cup {q}
    /\ sent' = sent \cup {q}
    /\ UNCHANGED <<session, upload, final, rows, blob, behind, puts, events, worker, thread>>

\* DELETE /sessions/{id}: one statement, cascading to uploads and streams.
DeleteSession ==
    /\ session.live
    /\ session' = [session EXCEPT !.live = FALSE]
    /\ upload' = [u \in Uploads |-> IF upload[u] = "absent" THEN "absent" ELSE "gone"]
    /\ rows' = {}
    /\ UNCHANGED <<final, blob, behind, puts, events, worker, thread, queue, sent>>

-----------------------------------------------------------------------------
(* The background task that invokes the worker.                            *)

\* _invoke_worker keeps its thread until the worker answers.
Invoke(t, e, w) ==
    /\ thread[t].pc = "idle" /\ worker[w].pc = "idle" /\ e \in events
    /\ events' = events \ {e}
    /\ thread' = [thread EXCEPT ![t] = [FreeThread EXCEPT !.pc = "invoke", !.worker = w]]
    /\ worker' = [worker EXCEPT ![w] = [FreeWorker EXCEPT !.pc = "parse", !.run = e]]
    /\ UNCHANGED <<session, upload, final, rows, blob, behind, puts, queue, sent>>

\* The runtime refuses an invocation beyond its capacity; the exception is
\* logged and the event is gone.
InvokeRefused(t, e) ==
    /\ thread[t].pc = "idle" /\ e \in events
    /\ \A w \in Workers : worker[w].pc # "idle"
    /\ events' = events \ {e}
    /\ UNCHANGED <<session, upload, final, rows, blob, behind, puts, worker, thread, queue, sent>>

Return(w) ==
    /\ worker[w].pc = "done"
    /\ worker' = [worker EXCEPT ![w] = FreeWorker]
    /\ thread' = [t \in Threads |->
                    IF thread[t].worker = w THEN FreeThread ELSE thread[t]]
    /\ UNCHANGED <<session, upload, final, rows, blob, behind, puts, events, queue, sent>>

\* WORKER_TIMEOUT_SEC: the task gives up, the invocation runs on.
InvokeTimeout(t) ==
    /\ "slow" \in Faults
    /\ thread[t].pc = "invoke"
    /\ thread' = [thread EXCEPT ![t] = FreeThread]
    /\ UNCHANGED <<session, upload, final, rows, blob, behind, puts, events, worker, queue, sent>>

\* The worker container dies (the RIE panics) and is restarted empty.
Crash(w) ==
    /\ "crash" \in Faults
    /\ worker[w].pc \notin {"idle", "done"}
    /\ worker' = [worker EXCEPT ![w] = [FreeWorker EXCEPT !.pc = "done"]]
    /\ behind' = behind \ {w}
    /\ UNCHANGED <<session, upload, final, rows, blob, puts, events, thread, queue, sent>>

-----------------------------------------------------------------------------
(* The worker: process_file.                                               *)

\* A callback for the run the worker is processing, first attempt.
Report1(w, status, points, lo, hi) ==
    [file |-> worker[w].run.file, run |-> worker[w].run.run, attempt |-> 1,
     upload |-> UploadOf[worker[w].run.file], status |-> status,
     points |-> points, lo |-> lo, hi |-> hi]

\* A raw object that cannot be read is reported like one that cannot be parsed.
Parse(w) ==
    /\ worker[w].pc = "parse"
    /\ LET f == worker[w].run.file IN
       \/ /\ SensorOf[f] = None
          /\ worker' = [worker EXCEPT ![w].pc = "done"]
       \/ /\ SensorOf[f] # None /\ (Outcome[f] = "corrupt" \/ "read" \in Faults)
          /\ worker' = [worker EXCEPT ![w].pc = "post",
                                      ![w].call = Report1(w, "failed", {}, None, None)]
       \/ /\ SensorOf[f] # None /\ Outcome[f] # "corrupt"
          /\ worker' = [worker EXCEPT ![w].pc = "read"]
    /\ UNCHANGED <<session, upload, final, rows, blob, behind, puts, events, thread, queue, sent>>

\* What process_file parsed from the raw object.
Parsed(f) == IF Outcome[f] = "points" THEN {f} ELSE {}

\* The object an invocation merges into, and what an object holds.
Object(w) == <<UploadOf[worker[w].run.file], SensorOf[worker[w].run.file]>>
Stored(o) == IF blob[o[1]][o[2]] = None THEN {} ELSE blob[o[1]][o[2]]

\* Mutant: the merge forgets what was already stored.
ReadBlobForgets(w) ==
    /\ worker[w].pc = "read"
    /\ worker' = [worker EXCEPT ![w].pc = "write", ![w].seen = {}]
    /\ behind' = behind \ {w}
    /\ UNCHANGED <<session, upload, final, rows, blob, puts, events, thread, queue, sent>>

\* Whatever the read raises, the worker goes on with an empty list: for want
\* of an object, and just so when there is one that cannot be read now.
ReadBlob(w) ==
    /\ worker[w].pc = "read"
    /\ \/ /\ worker' = [worker EXCEPT ![w].pc = "write", ![w].seen = Stored(Object(w))]
          /\ behind' = behind \ {w}
       \/ /\ "read" \in Faults /\ Stored(Object(w)) # {}
          /\ worker' = [worker EXCEPT ![w].pc = "write", ![w].seen = {}]
          /\ behind' = behind \cup {w}
    /\ UNCHANGED <<session, upload, final, rows, blob, puts, events, thread, queue, sent>>

\* Invocations that have read the object w now writes, and not yet written it.
Overtaken(w) ==
    {v \in Workers \ {w} : worker[v].pc = "write" /\ Object(v) = Object(w)}

\* Mutant: a failing put_object is ignored and the stream reported anyway.
WriteBlobUnstored(w) ==
    /\ worker[w].pc = "write"
    /\ LET merged == worker[w].seen \cup Parsed(worker[w].run.file) IN
       worker' = [worker EXCEPT ![w].pc = "post",
                                ![w].call = Report1(w, "processed", merged, None, None)]
    /\ UNCHANGED <<session, upload, final, rows, blob, behind, puts, events, thread, queue, sent>>

\* Mutant: the callback describes the file instead of the merged object.
WriteBlobReportsFile(w) ==
    /\ worker[w].pc = "write"
    /\ LET f == worker[w].run.file IN
       /\ blob' = [blob EXCEPT ![UploadOf[f]][SensorOf[f]] = worker[w].seen \cup Parsed(f)]
       /\ worker' = [worker EXCEPT ![w].pc = "post",
                ![w].call = Report1(w, "processed", Parsed(f), Span[f].lo, Span[f].hi)]
       /\ behind' = (behind \ {w}) \cup Overtaken(w)
    /\ UNCHANGED <<session, upload, final, rows, puts, events, thread, queue, sent>>

\* The merged points are sorted by time: first and last give the window.
WriteBlob(w) ==
    /\ worker[w].pc = "write"
    /\ LET f == worker[w].run.file
           merged == worker[w].seen \cup Parsed(f)
       IN /\ blob' = [blob EXCEPT ![UploadOf[f]][SensorOf[f]] = merged]
          /\ behind' = (behind \ {w}) \cup Overtaken(w)
          /\ \/ /\ merged = {}
                /\ worker' = [worker EXCEPT ![w].pc = "post",
                                ![w].call = Report1(w, "processed", {}, None, None)]
             \/ \E first, last \in merged :
                /\ \A g \in merged : Span[first].lo <= Span[g].lo /\ Span[g].hi <= Span[last].hi
                /\ worker' = [worker EXCEPT ![w].pc = "post",
                                ![w].call = Report1(w, "processed", merged,
                                                    Span[first].lo, Span[last].hi)]
             \* The put of the 10 Hz copy of a GPS file fails, or an answer is lost.
             \/ "put" \in Faults /\ worker' = [worker EXCEPT ![w].pc = "done"]
    /\ UNCHANGED <<session, upload, final, rows, puts, events, thread, queue, sent>>

\* A put_object that raises ends the file, and nobody is told.
PutFails(w) ==
    /\ "put" \in Faults
    /\ worker[w].pc = "write"
    /\ worker' = [worker EXCEPT ![w].pc = "done"]
    /\ behind' = behind \ {w}
    /\ UNCHANGED <<session, upload, final, rows, blob, puts, events, thread, queue, sent>>

\* _post_system: up to MaxAttempts attempts, each with a 30 second timeout.
Post(w) ==
    /\ worker[w].pc = "post"
    /\ queue' = queue \cup {worker[w].call}
    /\ worker' = [worker EXCEPT ![w].pc = "wait"]
    /\ UNCHANGED <<session, upload, final, rows, blob, behind, puts, events, thread, sent>>

\* Mutant: off by one in the number of attempts.
NextAttemptOneMore(rec) ==
    IF rec.call.attempt <= MaxAttempts
    THEN [rec EXCEPT !.pc = "post", !.call.attempt = @ + 1]
    ELSE [rec EXCEPT !.pc = "done"]

NextAttempt(rec) ==
    IF rec.call.attempt < MaxAttempts
    THEN [rec EXCEPT !.pc = "post", !.call.attempt = @ + 1]
    ELSE [rec EXCEPT !.pc = "done"]

\* Mutant: the server drops a request whose client has stopped waiting.
TimeoutCancels(w) ==
    /\ "slow" \in Faults
    /\ worker[w].pc = "wait"
    /\ worker' = [worker EXCEPT ![w] = NextAttempt(@)]
    /\ queue' = queue \ {worker[w].call}
    /\ UNCHANGED <<session, upload, final, rows, blob, behind, puts, events, thread, sent>>

\* Mutant: the callback is posted without a timeout.
NoTimeout(w) == FALSE /\ UNCHANGED vars

\* The worker stops waiting; the request stays with the server.
Timeout(w) ==
    /\ "slow" \in Faults
    /\ worker[w].pc = "wait"
    /\ worker' = [worker EXCEPT ![w] = NextAttempt(@)]
    /\ UNCHANGED <<session, upload, final, rows, blob, behind, puts, events, thread, queue, sent>>

-----------------------------------------------------------------------------
(* The request handlers.                                                   *)

\* The response reaches the worker only if it still waits for this attempt.
Reply(q, ok) ==
    worker' = [w \in Workers |->
        IF worker[w].pc = "wait" /\ worker[w].call = q
        THEN IF ok THEN [worker[w] EXCEPT !.pc = "done"] ELSE NextAttempt(worker[w])
        ELSE worker[w]]

Finish(t, ok) ==
    /\ thread' = [thread EXCEPT ![t] = FreeThread]
    /\ Reply(thread[t].req, ok)

Goto(t, pc) == thread' = [thread EXCEPT ![t].pc = pc]

Present(u) == upload[u] \notin {"absent", "gone"}

\* repos.ingest.get_upload: 404 when the row is gone, else the status read
\* here is the one ingest_complete tests later.
Load(t, q) ==
    /\ thread[t].pc = "idle" /\ q \in queue
    /\ queue' = queue \ {q}
    /\ \/ /\ ~Present(q.upload)
          /\ Reply(q, FALSE)
          /\ UNCHANGED thread
       \/ /\ Present(q.upload)
          /\ thread' = [thread EXCEPT ![t] = [FreeThread EXCEPT
                !.pc = IF ~IsCallback(q) THEN "report"
                       ELSE IF q.status = "processed" THEN "readRows" ELSE "status",
                !.req = q, !.saw = upload[q.upload]]]
          /\ UNCHANGED worker
    /\ UNCHANGED <<session, upload, final, rows, blob, behind, puts, events, sent>>

\* Mutant: the delete is a transaction of its own.
ReadRowsDeletes(t) ==
    /\ thread[t].pc = "readRows"
    /\ LET q == thread[t].req IN
       rows' = {r \in rows : r.upload # q.upload \/ r.sensor # SensorOf[q.file]}
    /\ Goto(t, "writeRows")
    /\ UNCHANGED <<session, upload, final, blob, behind, puts, events, worker, queue, sent>>

\* upsert_streams, first half: the rows of these sensors, to be deleted.
ReadRows(t) ==
    /\ thread[t].pc = "readRows"
    /\ LET q == thread[t].req IN
       thread' = [thread EXCEPT ![t].pc = "writeRows",
            ![t].rows = {r \in rows : r.upload = q.upload /\ r.sensor = SensorOf[q.file]}]
    /\ UNCHANGED <<session, upload, final, rows, blob, behind, puts, events, worker, queue, sent>>

\* Second half: delete what was read, insert, commit.  The foreign key
\* rejects the insert when the upload was deleted meanwhile.
WriteRows(t) ==
    /\ thread[t].pc = "writeRows"
    /\ LET q == thread[t].req IN
       \/ /\ Present(q.upload)
          /\ rows' = (rows \ thread[t].rows) \cup
                     {[upload |-> q.upload, sensor |-> SensorOf[q.file],
                       points |-> q.points, by |-> q]}
          /\ Goto(t, "status")
          /\ UNCHANGED worker
       \/ /\ ~Present(q.upload)
          /\ Finish(t, FALSE)
          /\ UNCHANGED rows
    /\ UNCHANGED <<session, upload, final, blob, behind, puts, events, queue, sent>>

\* Mutant: the status write does not look whether the row still exists.
SetUploadBlind(u, status) == upload' = [upload EXCEPT ![u] = status]

\* A status write to a deleted row is ignored (update_upload returns None).
SetUpload(u, status) ==
    upload' = IF Present(u) THEN [upload EXCEPT ![u] = status] ELSE upload

\* ingest_complete's status rule, on the status Load read.
Downgrades(q, saw) == q.status = "failed" /\ saw # "processed"

\* Mutant: the rollup is forgotten when there is no window to extend.
SetStatusNoRollup(t) ==
    /\ thread[t].pc = "status"
    /\ LET q == thread[t].req IN
       /\ IF q.status = "processed" \/ Downgrades(q, thread[t].saw)
          THEN SetUpload(q.upload, q.status)
          ELSE UNCHANGED upload
       /\ \/ /\ q.lo # None
             /\ Goto(t, "readWindow")
             /\ UNCHANGED worker
          \/ /\ q.lo = None
             /\ Finish(t, TRUE)
    /\ UNCHANGED <<session, final, rows, blob, behind, puts, events, queue, sent>>

SetStatus(t) ==
    /\ thread[t].pc = "status"
    /\ LET q == thread[t].req IN
       /\ IF q.status = "processed" \/ Downgrades(q, thread[t].saw)
          THEN SetUpload(q.upload, q.status)
          ELSE UNCHANGED upload
       /\ Goto(t, IF q.lo # None \/ q.hi # None THEN "readWindow" ELSE "readStatuses")
    /\ UNCHANGED <<session, final, rows, blob, behind, puts, events, worker, queue, sent>>

\* patch_session_upload and set_upload_status.
ApplyReport(t) ==
    /\ thread[t].pc = "report"
    /\ LET q == thread[t].req IN
       /\ IF q.status # None THEN SetUpload(q.upload, q.status) ELSE UNCHANGED upload
       /\ final' = IF Present(q.upload) /\ q.final # None
                   THEN [final EXCEPT ![q.upload] = q.final] ELSE final
       /\ \/ /\ q.status # None
             /\ Goto(t, "readStatuses")
             /\ UNCHANGED worker
          \/ /\ q.status = None
             /\ Finish(t, TRUE)
    /\ UNCHANGED <<session, rows, blob, behind, puts, events, queue, sent>>

\* extend_window, first half: which columns to write.
ReadWindow(t) ==
    /\ thread[t].pc = "readWindow"
    /\ LET q == thread[t].req IN
       thread' = [thread EXCEPT ![t].pc = "writeWindow",
          ![t].lo = IF q.lo # None /\ q.lo < session.lo THEN q.lo ELSE None,
          ![t].hi = IF q.hi # None /\ (session.hi = None \/ q.hi > session.hi)
                    THEN q.hi ELSE None]
    /\ UNCHANGED <<session, upload, final, rows, blob, behind, puts, events, worker, queue, sent>>

\* Only changed columns are written; an UPDATE that finds no row raises.
WriteWindow(t) ==
    /\ thread[t].pc = "writeWindow"
    /\ LET lo == thread[t].lo
           hi == thread[t].hi
       IN \/ /\ session.live \/ (lo = None /\ hi = None)
             /\ session' = [session EXCEPT !.lo = IF lo = None THEN @ ELSE lo,
                                           !.hi = IF hi = None THEN @ ELSE hi]
             /\ Goto(t, "readStatuses")
             /\ UNCHANGED worker
          \/ /\ ~session.live /\ (lo # None \/ hi # None)
             /\ Finish(t, FALSE)
             /\ UNCHANGED session
    /\ UNCHANGED <<upload, final, rows, blob, behind, puts, events, queue, sent>>

\* rollup_status: in-flight states dominate, failed only when nothing succeeded.
Aggregate(sts) ==
    IF sts = {} THEN "pending"
    ELSE IF "processing" \in sts THEN "processing"
    ELSE IF "pending" \in sts THEN (IF "processed" \in sts THEN "processing" ELSE "pending")
    ELSE IF "processed" \in sts THEN "processed"
    ELSE "failed"

UploadStatuses == {upload[u] : u \in {v \in Uploads : Present(v)}}

\* First half; an unchanged status is not written, a deleted session is skipped.
ReadStatuses(t) ==
    /\ thread[t].pc = "readStatuses"
    /\ LET new == Aggregate(UploadStatuses) IN
       \/ /\ session.live
          /\ thread' = [thread EXCEPT ![t].pc = "writeStatus",
                ![t].next = IF new = session.status THEN None ELSE new]
          /\ UNCHANGED worker
       \/ /\ ~session.live
          /\ Finish(t, TRUE)
    /\ UNCHANGED <<session, upload, final, rows, blob, behind, puts, events, queue, sent>>

WriteStatus(t) ==
    /\ thread[t].pc = "writeStatus"
    /\ LET new == thread[t].next IN
       /\ session' = IF session.live /\ new # None
                     THEN [session EXCEPT !.status = new] ELSE session
       /\ Finish(t, session.live \/ new = None)
    /\ UNCHANGED <<upload, final, rows, blob, behind, puts, events, queue, sent>>

-----------------------------------------------------------------------------
Handler(t) ==
    \/ ReadRows(t) \/ WriteRows(t) \/ SetStatus(t) \/ ApplyReport(t)
    \/ ReadWindow(t) \/ WriteWindow(t) \/ ReadStatuses(t) \/ WriteStatus(t)

WorkerStep(w) ==
    Parse(w) \/ ReadBlob(w) \/ WriteBlob(w) \/ PutFails(w) \/ Post(w) \/ Return(w)

Dispatch(t) ==
    \/ \E q \in queue : Load(t, q)
    \/ \E e \in events : InvokeRefused(t, e) \/ \E w \in Workers : Invoke(t, e, w)

Next ==
    \/ \E u \in Uploads : OpenUpload(u)
    \/ \E f \in Files : PutFile(f)
    \/ \E q \in Reports : SendReport(q)
    \/ DeleteSession
    \/ \E t \in Threads : Dispatch(t) \/ Handler(t) \/ InvokeTimeout(t)
    \/ \E w \in Workers : WorkerStep(w) \/ Timeout(w) \/ Crash(w)

\* The server runs its threads and the worker its invocation; an expired
\* timeout fires.  Nothing obliges a device or a user to act.
Fairness ==
    /\ \A t \in Threads : WF_vars(Handler(t)) /\ WF_vars(Dispatch(t))
    /\ \A w \in Workers : WF_vars(WorkerStep(w)) /\ WF_vars(Timeout(w))

Spec == Init /\ [][Next]_vars
FairSpec == Spec /\ Fairness

-----------------------------------------------------------------------------
(* Properties.                                                             *)

ThreadPC == {"idle", "invoke", "report", "readRows", "writeRows", "status",
             "readWindow", "writeWindow", "readStatuses", "writeStatus"}
WorkerPC == {"idle", "parse", "read", "write", "post", "wait", "done"}

WorkerRecord == [pc : WorkerPC, run : Maybe(Run), seen : SUBSET Files,
                 call : Maybe(Callback)]
ThreadRecord == [pc : ThreadPC, req : Maybe(Request), worker : Maybe(Workers),
                 saw : Maybe(Statuses), rows : SUBSET Row, lo : Maybe(Nat),
                 hi : Maybe(Nat), next : Maybe(Statuses)]

\* Type invariant: every variable holds a value its column, blob or request can have.
TypeOK ==
    /\ session \in [live : BOOLEAN, status : Statuses, lo : Nat, hi : Maybe(Nat)]
    /\ upload \in [Uploads -> Statuses \cup {"absent", "gone"}]
    /\ final \in [Uploads -> BOOLEAN]
    /\ rows \subseteq Row
    /\ blob \in [Uploads -> [Sensors -> Maybe(SUBSET Files)]]
    /\ behind \subseteq Workers
    /\ puts \in [Files -> 0..MaxPuts]
    /\ events \subseteq Run
    /\ worker \in [Workers -> WorkerRecord]
    /\ thread \in [Threads -> ThreadRecord]
    /\ queue \subseteq Request
    /\ sent \subseteq Reports

Quiet == /\ queue = {} /\ events = {}
         /\ \A t \in Threads : thread[t].pc = "idle"
         /\ \A w \in Workers : worker[w].pc = "idle"

\* An upload shown as processed has data to show: ingest_complete registers
\* the stream before it sets the status, and no retry or racing callback of
\* the same sensor ever leaves the upload without a row.
ProcessedHasStream ==
    \A u \in Uploads : upload[u] = "processed" => \E r \in rows : r.upload = u

\* Every registered stream's data_ref names an object the worker has stored,
\* whatever was retried, delayed or lost on the way.
RowsAreStored ==
    \A r \in rows : blob[r.upload][r.sensor] # None

\* ingest_complete: "a failed never downgrades an upload that already has
\* processed data" (reports of a device or an operator may).
\* Not kept by the code: see README, section 6.
NeverDowngraded ==
    [][\A u \in Uploads : upload[u] = "processed" /\ upload'[u] = "failed" =>
            \E t \in Threads : thread[t].pc = "report"]_vars

\* sessions.status "is the aggregate of the linked uploads' statuses", once
\* nothing is being processed any more; but for uploads that were opened since
\* and still wait for a file, which nothing adds to it before the next roll-up.
StatusIsAggregate ==
    Quiet /\ session.live =>
        session.status \in {Aggregate(UploadStatuses), Aggregate(UploadStatuses \ {"pending"})}

\* The worker merges "with anything already processed for this upload": at
\* rest the registered row describes exactly the stored object.
RowsDescribeBlobs ==
    Quiet => \A r \in rows : r.points = blob[r.upload][r.sensor]

\* "Merge with anything already processed for this upload": points leave an
\* object only by the write of an invocation that could not read them (the
\* worker takes any error for an absent object) or that another one has
\* overtaken since it read.  No retry, crash, repeated PUT or failing put does it.
MergeKeepsPoints ==
    [][\A u \in Uploads, s \in Sensors :
            \/ Stored(<<u, s>>) \subseteq Stored(<<u, s>>)'
            \/ \E w \in behind : /\ worker[w].pc = "write" /\ worker'[w].pc # "write"
                                 /\ Object(w) = <<u, s>>]_vars

\* device-protocol 4.2: the backend "only finalizes the session's stream once
\* it has received the is_final=true chunk".
\* Not kept by the code: see README, section 6.
FinalizedByFinalChunk ==
    session.live /\ session.status = "processed" =>
        \E u \in Uploads : Present(u) /\ final[u]

InFlight(f, n) ==
    \/ [file |-> f, run |-> n] \in events
    \/ \E w \in Workers : worker[w].run = [file |-> f, run |-> n]

\* Liveness: a PUT never stays in flight; the worker always gets rid of it,
\* even when its callbacks time out because no thread is free.
EveryPutSettles ==
    \A f \in Files, n \in 1..MaxPuts : InFlight(f, n) ~> ~InFlight(f, n)

\* Liveness: a readable file that an invocation has taken on is registered in
\* a stream row afterwards, unless the session is deleted: a callback the worker
\* gave up on is still handled.  Nothing is left of an event that the runtime
\* refused (InvokeRefused), hence "taken on"; and nobody retries for an
\* invocation that dies or that the object store fails: Faults without those.
FileIsRegistered ==
    \A f \in Files : \A n \in 1..MaxPuts :
        (/\ \E w \in Workers : worker[w].pc = "parse" /\ worker[w].run = [file |-> f, run |-> n]
         /\ Outcome[f] # "corrupt" /\ SensorOf[f] # None) ~>
            (~session.live \/ \E r \in rows : r.upload = UploadOf[f] /\ r.sensor = SensorOf[f]
                                            /\ Parsed(f) \subseteq r.points)

\* What the pipeline promises to readers of the session, see StreamCatalog.
Catalog == INSTANCE StreamCatalog WITH
    status <- upload,
    catalog <- [u \in Uploads |-> {r.sensor : r \in {x \in rows : x.upload = u}}]
CatalogSpec == Catalog!Spec
=============================================================================
