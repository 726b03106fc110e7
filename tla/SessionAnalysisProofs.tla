------------------------ MODULE SessionAnalysisProofs ------------------------
(***************************************************************************)
(* Type correctness of SessionAnalysis, and its five properties when the   *)
(* server handles one request at a time, for any uploads, jobs, trims,     *)
(* detector results, tolerance and faults: background tasks, invocations   *)
(* and repeated callbacks still overlap.                                   *)
(***************************************************************************)
EXTENDS SessionAnalysis, FiniteSetTheorems, TLAPS

\* The steps of a callback's handler.
Serving == {"maneuvers", "replace", "analysis"}

\* A job computes only when it was sent, with the trim it was given.
JobOK(r) ==
    /\ r.task \in {"free", "queued"} => r.work = "none"
    /\ r.task # "free" => r.trim \in Trims
    /\ r.work \in {"post", "wait"} => r.tries \in 1..MaxAttempts

\* What a request holds at each of its steps.
HandlerOK(r) ==
    /\ r.pc = "guard" => /\ r.kind \in {"reanalyze", "wind"}
                         /\ r.upload \in Uploads /\ r.trim \in Trims
    /\ r.pc \in Serving => r.job \in Jobs

TypeInv == /\ TypeOK
           /\ \A j \in Jobs : JobOK(job[j])
           /\ \A h \in Handlers : HandlerOK(handler[h])

\* One request at a time.
Serial == \A g, h \in Handlers : g = h

\* A row is named by the transaction that inserted it and its window.
KeysInv == /\ \A r \in rows : r.key.by <= writes
           /\ \A r, s \in rows : r.key = s.key => r = s

\* The rows a callback has read are still the rows it replaces.
SeenInv == \A h \in Handlers : handler[h].pc = "replace" => handler[h].seen = rows

\* One guarded task per running upload, and none where a request may start one.
StatusInv ==
    /\ \A u \in Uploads : status[u] = "running" <=> Guarded(u) # {}
    /\ \A u \in Uploads : \A i, j \in Guarded(u) : i = j
    /\ \A h \in Handlers : handler[h].pc = "guard" /\ handler[h].saw # "running"
                             => status[handler[h].upload] # "running"

\* A job whose results are stored, or being stored, has computed them.
Computed(j) == job[j].work \notin {"none", "compute"}
Stated(j) == job[j].found = None \/ stats = j
ShownInv ==
    /\ shown # None => Computed(shown)
    /\ \A h \in Handlers : handler[h].pc \in Serving => Computed(handler[h].job) /\ Stated(handler[h].job)
    /\ \/ \E h \in Handlers : handler[h].pc \in Serving
       \/ shown = None \/ Stated(shown)

SerialInv == KeysInv /\ OneAnalysisPerEvent /\ SeenInv /\ StatusInv /\ ShownInv
IInv == TypeInv /\ SerialInv

-----------------------------------------------------------------------------
(* Types.                                                                  *)

LEMMA Numbers ==
    /\ MaxUploads \in Nat /\ MaxWrites \in Nat /\ MaxAttempts \in Nat /\ MaxAttempts >= 1
    /\ Tolerance \in Nat
    /\ None \notin Jobs /\ None # "running" /\ NoTrim \in Trims
    /\ Windows \subseteq Window /\ Manual \subseteq Windows
BY AnalysisAssumption DEF Windows

LEMMA Detects ==
    ASSUME NEW t \in Trims, NEW found \in Analyses[t]
    PROVE  found \in Maybe(SUBSET Windows)
BY DEF Windows, Maybe

LEMMA IdleType == Idle \in HandlerRecord /\ HandlerOK(Idle) /\ Idle.pc = "idle"
<1>1. Idle.pc = "idle"
  BY DEF Idle
<1>2. Idle \in HandlerRecord
  BY DEF Idle, HandlerRecord, Maybe
<1> QED BY <1>1, <1>2 DEF HandlerOK, Serving

LEMMA FreeType == FreeJob \in JobRecord /\ JobOK(FreeJob) /\ FreeJob.task = "free" /\ FreeJob.work = "none"
<1>1. FreeJob.task = "free" /\ FreeJob.work = "none"
  BY DEF FreeJob
<1>2. FreeJob \in JobRecord
  BY Numbers DEF FreeJob, JobRecord, Maybe
<1> QED BY <1>1, <1>2 DEF JobOK

\* A step that turns one request, and one that turns one job.
Turns(h, r) == handler' = [handler EXCEPT ![h] = r]
Runs(j, r) == job' = [job EXCEPT ![j] = r]

LEMMA Kept ==
    ASSUME TypeInv,
           UNCHANGED handler \/ \E h \in Handlers : \E r \in HandlerRecord : Turns(h, r) /\ HandlerOK(r),
           UNCHANGED job \/ \E j \in Jobs : \E r \in JobRecord : Runs(j, r) /\ JobOK(r),
           uploads' \in 0..MaxUploads, status' \in [Uploads -> Maybe({"running", "failed"})],
           trim' \in Trims, rows' \subseteq Row, stats' \in Maybe(Jobs), shown' \in Maybe(Jobs),
           writes' \in 0..MaxWrites
    PROVE  TypeInv'
<1>1. handler' \in [Handlers -> HandlerRecord] /\ \A h \in Handlers : HandlerOK(handler'[h])
  <2>1. handler \in [Handlers -> HandlerRecord] /\ \A h \in Handlers : HandlerOK(handler[h])
    BY DEF TypeInv, TypeOK
  <2>2. CASE UNCHANGED handler
    BY <2>1, <2>2
  <2>3. CASE \E h \in Handlers : \E r \in HandlerRecord : Turns(h, r) /\ HandlerOK(r)
    <3>1. PICK h \in Handlers, r \in HandlerRecord : Turns(h, r) /\ HandlerOK(r)
      BY <2>3
    <3>2. \A g \in Handlers : handler'[g] = IF g = h THEN r ELSE handler[g]
      BY <2>1, <3>1 DEF Turns
    <3> QED BY <2>1, <3>1, <3>2 DEF Turns
  <2> QED BY <2>2, <2>3
<1>2. job' \in [Jobs -> JobRecord] /\ \A j \in Jobs : JobOK(job'[j])
  <2>1. job \in [Jobs -> JobRecord] /\ \A j \in Jobs : JobOK(job[j])
    BY DEF TypeInv, TypeOK
  <2>2. CASE UNCHANGED job
    BY <2>1, <2>2
  <2>3. CASE \E j \in Jobs : \E r \in JobRecord : Runs(j, r) /\ JobOK(r)
    <3>1. PICK j \in Jobs, r \in JobRecord : Runs(j, r) /\ JobOK(r)
      BY <2>3
    <3>2. \A i \in Jobs : job'[i] = IF i = j THEN r ELSE job[i]
      BY <2>1, <3>1 DEF Runs
    <3> QED BY <2>1, <3>1, <3>2 DEF Runs
  <2> QED BY <2>2, <2>3
<1> QED BY <1>1, <1>2 DEF TypeInv, TypeOK

LEMMA Parts ==
    ASSUME TypeInv
    PROVE  /\ uploads \in 0..MaxUploads /\ status \in [Uploads -> Maybe({"running", "failed"})]
           /\ trim \in Trims /\ rows \subseteq Row /\ stats \in Maybe(Jobs) /\ shown \in Maybe(Jobs)
           /\ writes \in 0..MaxWrites
           /\ \A j \in Jobs : job[j] \in JobRecord /\ JobOK(job[j])
           /\ \A h \in Handlers : handler[h] \in HandlerRecord /\ HandlerOK(handler[h])
BY DEF TypeInv, TypeOK

-----------------------------------------------------------------------------
(* Requests that start a job.                                              *)

LEMMA ReadsLatest ==
    ASSUME TypeInv, NEW h \in Handlers, NEW kind \in {"reanalyze", "wind"}, ReadLatest(h, kind)
    PROVE  \E r \in HandlerRecord : /\ Turns(h, r) /\ HandlerOK(r)
                                    /\ r.pc \in {"idle", "guard"}
                                    /\ r.pc = "guard" => r.upload \in Uploads /\ r.saw = status[r.upload]
<1>1. CASE uploads = 0
  BY <1>1, IdleType DEF ReadLatest, Turns
<1>2. CASE uploads # 0
  <2>0. PICK r : r = [Idle EXCEPT !.pc = "guard", !.kind = kind, !.upload = uploads,
                        !.trim = trim, !.saw = status[uploads]]
    OBVIOUS
  <2>1. Turns(h, r)
    BY <1>2, <2>0 DEF ReadLatest, Turns
  <2>2. uploads \in Uploads /\ status[uploads] \in Maybe({"running", "failed"}) /\ trim \in Trims
    BY <1>2, Numbers, Parts DEF Uploads
  <2>3. r.pc = "guard" /\ r.kind = kind /\ r.upload = uploads /\ r.trim = trim /\ r.saw = status[uploads]
    BY <2>0 DEF Idle
  <2>4. r \in HandlerRecord
    BY <2>0, <2>2 DEF Idle, HandlerRecord, Maybe
  <2>5. HandlerOK(r)
    BY <2>2, <2>3 DEF HandlerOK, Serving
  <2> QED BY <2>1, <2>2, <2>3, <2>4, <2>5
<1> QED BY <1>1, <1>2

LEMMA UploadsType ==
    ASSUME TypeInv, NewUpload \/ \E j \in Jobs : ImportUpload(j)
    PROVE  TypeInv'
<1>1. uploads' \in 0..MaxUploads /\ uploads + 1 \in Uploads
  BY Numbers, Parts DEF NewUpload, ImportUpload, Uploads
<1>2. CASE NewUpload
  BY <1>1, <1>2, Parts, Kept DEF NewUpload
<1>3. ASSUME NEW j \in Jobs, ImportUpload(j) PROVE TypeInv'
  <2>0. PICK r : r = [FreeJob EXCEPT !.task = "queued", !.kind = "import",
                        !.upload = uploads + 1, !.trim = NoTrim]
    OBVIOUS
  <2>1. r \in JobRecord /\ r.task = "queued" /\ r.work = "none" /\ r.trim = NoTrim
    <3>1. r = [task |-> "queued", work |-> "none", kind |-> "import", upload |-> uploads + 1,
               trim |-> NoTrim, found |-> {}, tries |-> 0]
      BY <2>0 DEF FreeJob
    <3> QED BY <1>1, <3>1, Numbers DEF JobRecord, Maybe
  <2>2. JobOK(r) /\ Runs(j, r)
    BY <1>3, <2>0, <2>1, Numbers DEF JobOK, ImportUpload, Runs
  <2>3. UNCHANGED <<status, trim, rows, stats, shown, handler, writes>>
    BY <1>3 DEF ImportUpload
  <2> QED BY <1>1, <2>1, <2>2, <2>3, Parts, Kept
<1> QED BY <1>2, <1>3

LEMMA AskType ==
    ASSUME TypeInv, NEW h \in Handlers, Ask(h) \/ AskTrimmed(h) \/ \E t \in Trims : SetTrim(h, t)
    PROVE  TypeInv'
<1>1. CASE Ask(h) \/ AskTrimmed(h)
  <2>1. /\ \E kind \in {"reanalyze", "wind"} : ReadLatest(h, kind)
        /\ UNCHANGED <<uploads, status, trim, rows, stats, shown, job, writes>>
    BY <1>1 DEF Ask, AskTrimmed
  <2>2. \E r \in HandlerRecord : Turns(h, r) /\ HandlerOK(r)
    BY <2>1, ReadsLatest
  <2> QED BY <2>1, <2>2, Parts, Kept
<1>2. ASSUME NEW t \in Trims, SetTrim(h, t) PROVE TypeInv'
  <2> DEFINE r == [Idle EXCEPT !.pc = "latest"]
  <2>1. r \in HandlerRecord /\ r.pc = "latest"
    BY DEF Idle, HandlerRecord, Maybe
  <2>2. HandlerOK(r)
    BY <2>1 DEF HandlerOK, Serving
  <2>3. Turns(h, r) /\ trim' = t /\ UNCHANGED <<uploads, status, rows, stats, shown, job, writes>>
    BY <1>2 DEF SetTrim, Turns
  <2> HIDE DEF r
  <2> QED BY <2>1, <2>2, <2>3, Parts, Kept
<1> QED BY <1>1, <1>2

\* What passing the guard does.
Starts(h, j, r) ==
    /\ handler[h].pc = "guard" /\ handler[h].saw # "running"
    /\ Fresh(j) /\ Runs(j, r)
    /\ r.task = "queued" /\ r.work = "none" /\ r.kind # "import" /\ r.upload = handler[h].upload
    /\ handler[h].upload \in Uploads
    /\ status' = [status EXCEPT ![handler[h].upload] = "running"]

LEMMA Guards ==
    ASSUME TypeInv, NEW h \in Handlers, Guard(h)
    PROVE  /\ Turns(h, Idle) /\ UNCHANGED <<uploads, trim, rows, stats, shown, writes>>
           /\ \/ UNCHANGED <<status, job>>
              \/ \E j \in Jobs : \E r \in JobRecord : JobOK(r) /\ Starts(h, j, r)
<1>1. Turns(h, Idle) /\ UNCHANGED <<uploads, trim, rows, stats, shown, writes>>
  BY DEF Guard, Turns
<1>2. CASE UNCHANGED <<status, job>>
  BY <1>1, <1>2
<1>3. CASE ~UNCHANGED <<status, job>>
  <2>1. PICK q : q = handler[h]
    OBVIOUS
  <2>2. q.pc = "guard" /\ q.saw # "running" /\ q \in HandlerRecord /\ HandlerOK(q)
    BY <1>3, <2>1, Parts DEF Guard
  <2>3. q.kind \in {"reanalyze", "wind"} /\ q.upload \in Uploads /\ q.trim \in Trims
    BY <2>2 DEF HandlerOK
  <2>4. PICK j \in Jobs : /\ Fresh(j)
                          /\ status' = [status EXCEPT ![q.upload] = "running"]
                          /\ job' = [job EXCEPT ![j] = [FreeJob EXCEPT !.task = "queued",
                                       !.kind = q.kind, !.upload = q.upload, !.trim = q.trim]]
    BY <1>3, <2>1 DEF Guard
  <2>5. PICK r : r = [FreeJob EXCEPT !.task = "queued", !.kind = q.kind, !.upload = q.upload, !.trim = q.trim]
    OBVIOUS
  <2>6. r \in JobRecord /\ r.task = "queued" /\ r.work = "none" /\ r.kind # "import"
        /\ r.upload = q.upload /\ r.trim = q.trim
    <3>1. r = [task |-> "queued", work |-> "none", kind |-> q.kind, upload |-> q.upload,
               trim |-> q.trim, found |-> {}, tries |-> 0]
      BY <2>5 DEF FreeJob
    <3> QED BY <2>3, <3>1, Numbers DEF JobRecord, Maybe
  <2>7. JobOK(r) /\ Starts(h, j, r)
    BY <2>1, <2>2, <2>3, <2>4, <2>5, <2>6 DEF JobOK, Starts, Runs
  <2> QED BY <1>1, <2>6, <2>7
<1> QED BY <1>2, <1>3

LEMMA GuardType == ASSUME TypeInv, NEW h \in Handlers, Guard(h) PROVE TypeInv'
<1>1. status' \in [Uploads -> Maybe({"running", "failed"})]
  BY Guards, Parts DEF Starts, Maybe
<1>2. /\ Turns(h, Idle) /\ UNCHANGED <<uploads, trim, rows, stats, shown, writes>>
      /\ UNCHANGED job \/ \E j \in Jobs : \E r \in JobRecord : JobOK(r) /\ Runs(j, r)
  BY Guards DEF Starts
<1> QED BY <1>1, <1>2, IdleType, Parts, Kept

-----------------------------------------------------------------------------
(* Tasks and invocations.                                                  *)

\* The task of a job is over, its invocation as it was.
Ended(j, r) == /\ Runs(j, r) /\ r.task = "over" /\ r.work = job[j].work
               /\ r.found = job[j].found /\ r.kind = job[j].kind /\ r.upload = job[j].upload

LEMMA Ends ==
    ASSUME TypeInv, NEW j \in Jobs, NEW result \in {None, "failed"}, End(j, result), job[j].task # "free"
    PROVE  /\ \E r \in JobRecord : JobOK(r) /\ Ended(j, r)
           /\ status' \in [Uploads -> Maybe({"running", "failed"})]
           /\ \A u \in Uploads : status'[u] = IF job[j].kind # "import" /\ u = job[j].upload
                                              THEN result ELSE status[u]
<1>1. PICK r : r = [job[j] EXCEPT !.task = "over"]
  OBVIOUS
<1>2. job[j] \in JobRecord /\ JobOK(job[j])
  BY Parts
<1>3. r \in JobRecord /\ r.task = "over" /\ r.work = job[j].work /\ r.found = job[j].found
      /\ r.kind = job[j].kind /\ r.upload = job[j].upload /\ r.trim = job[j].trim /\ r.tries = job[j].tries
  BY <1>1, <1>2 DEF JobRecord
<1>4. JobOK(r) /\ Runs(j, r)
  BY <1>1, <1>2, <1>3 DEF JobOK, End, Runs
<1>5. status \in [Uploads -> Maybe({"running", "failed"})]
  BY Parts
<1>6. status' = IF job[j].kind = "import" THEN status ELSE [status EXCEPT ![job[j].upload] = result]
  BY DEF End
<1>7. status' \in [Uploads -> Maybe({"running", "failed"})]
  BY <1>5, <1>6 DEF Maybe
<1>8. \A u \in Uploads : status'[u] = IF job[j].kind # "import" /\ u = job[j].upload
                                      THEN result ELSE status[u]
  BY <1>5, <1>6
<1> QED BY <1>3, <1>4, <1>7, <1>8 DEF Ended

LEMMA TaskEnding ==
    ASSUME NEW j \in Jobs, DispatchRefused(j) \/ TaskEnds(j) \/ WindFails(j)
    PROVE  /\ \E result \in {None, "failed"} : End(j, result)
           /\ job[j].task \in {"queued", "sent"}
           /\ UNCHANGED <<uploads, trim, rows, stats, shown, handler, writes>>
BY DEF DispatchRefused, TaskEnds, WindFails

LEMMA TaskEndingType ==
    ASSUME TypeInv, NEW j \in Jobs, DispatchRefused(j) \/ TaskEnds(j) \/ WindFails(j)
    PROVE  TypeInv'
<1>1. PICK result \in {None, "failed"} : End(j, result)
  BY TaskEnding
<1>2. job[j].task # "free" /\ UNCHANGED <<uploads, trim, rows, stats, shown, handler, writes>>
  BY TaskEnding
<1>3. /\ \E r \in JobRecord : JobOK(r) /\ Runs(j, r)
      /\ status' \in [Uploads -> Maybe({"running", "failed"})]
  BY <1>1, <1>2, Ends DEF Ended
<1> QED BY <1>2, <1>3, Parts, Kept

\* The invocation of a job goes on, for the same upload.
GoesOn(j, r) == /\ Runs(j, r) /\ r.kind = job[j].kind /\ r.upload = job[j].upload
                /\ job[j].task = r.task \/ (job[j].task = "queued" /\ r.task = "sent")
                /\ Computed(j) => r.work \in {"post", "wait", "done"} /\ r.found = job[j].found

LEMMA Dispatches ==
    ASSUME TypeInv, NEW j \in Jobs, Dispatch(j)
    PROVE  /\ \E r \in JobRecord : JobOK(r) /\ GoesOn(j, r)
           /\ UNCHANGED <<uploads, status, trim, rows, stats, shown, handler, writes>>
<1>1. job[j] \in JobRecord /\ JobOK(job[j]) /\ trim \in Trims /\ job[j].task = "queued"
  BY Parts DEF Dispatch
<1>2. PICK t : t = IF job[j].kind = "wind" THEN trim ELSE job[j].trim
  OBVIOUS
<1>3. PICK r : r = [job[j] EXCEPT !.task = "sent", !.work = "compute", !.trim = t]
  OBVIOUS
<1>4. t \in Trims
  BY <1>1, <1>2 DEF JobOK
<1>5. r \in JobRecord /\ r.task = "sent" /\ r.work = "compute" /\ r.trim = t
      /\ r.kind = job[j].kind /\ r.upload = job[j].upload
  BY <1>1, <1>3, <1>4 DEF JobRecord, Maybe
<1>6. Runs(j, r) /\ UNCHANGED <<uploads, status, trim, rows, stats, shown, handler, writes>>
  BY <1>2, <1>3 DEF Dispatch, Runs
<1>7. ~Computed(j)
  BY <1>1 DEF JobOK, Computed
<1> QED BY <1>1, <1>4, <1>5, <1>6, <1>7 DEF JobOK, GoesOn

LEMMA Computes ==
    ASSUME TypeInv, NEW j \in Jobs, Compute(j)
    PROVE  /\ \E r \in JobRecord : JobOK(r) /\ GoesOn(j, r)
           /\ UNCHANGED <<uploads, status, trim, rows, stats, shown, handler, writes>>
<1>1. /\ job[j] \in JobRecord /\ JobOK(job[j]) /\ job[j].work = "compute" /\ ~Computed(j)
      /\ UNCHANGED <<uploads, status, trim, rows, stats, shown, handler, writes>>
  BY Parts DEF Compute, Computed
<1>2. job[j].task \in {"sent", "over"} /\ job[j].trim \in Trims
  BY <1>1 DEF JobOK, JobRecord
<1>3. ASSUME NEW found \in Analyses[job[j].trim],
             job' = [job EXCEPT ![j].work = "post", ![j].found = found, ![j].tries = 1]
      PROVE  \E r \in JobRecord : JobOK(r) /\ GoesOn(j, r)
  <2>1. PICK r : r = [job[j] EXCEPT !.work = "post", !.found = found, !.tries = 1]
    OBVIOUS
  <2>2. found \in Maybe(SUBSET Windows)
    BY <1>2, Detects
  <2>3. r \in JobRecord /\ r.task = job[j].task /\ r.kind = job[j].kind /\ r.upload = job[j].upload
        /\ r.trim = job[j].trim /\ r.work = "post" /\ r.tries = 1
    <3>1. 1 \in 0..MaxAttempts
      BY Numbers
    <3>2. /\ r.task = job[j].task /\ r.kind = job[j].kind /\ r.upload = job[j].upload
          /\ r.trim = job[j].trim /\ r.work = "post" /\ r.tries = 1 /\ r.found = found
          /\ r = [task |-> r.task, work |-> r.work, kind |-> r.kind, upload |-> r.upload,
                  trim |-> r.trim, found |-> r.found, tries |-> r.tries]
      BY <1>1, <2>1 DEF JobRecord
    <3>3. r.task \in {"free", "queued", "sent", "over"} /\ r.kind \in Maybe({"import", "reanalyze", "wind"})
          /\ r.upload \in Maybe(Uploads) /\ r.trim \in Maybe(Trims)
      BY <1>1, <3>2 DEF JobRecord
    <3> QED BY <2>2, <3>1, <3>2, <3>3 DEF JobRecord
  <2>4. Runs(j, r)
    BY <1>3, <2>1 DEF Runs
  <2> QED BY <1>1, <1>2, <2>3, <2>4, Numbers DEF JobOK, GoesOn
<1>4. ASSUME job' = [job EXCEPT ![j].work = "done"]
      PROVE  \E r \in JobRecord : JobOK(r) /\ GoesOn(j, r)
  <2>1. PICK r : r = [job[j] EXCEPT !.work = "done"]
    OBVIOUS
  <2>2. r \in JobRecord /\ r.task = job[j].task /\ r.kind = job[j].kind /\ r.upload = job[j].upload
        /\ r.trim = job[j].trim /\ r.work = "done"
    BY <1>1, <2>1 DEF JobRecord
  <2>3. Runs(j, r)
    BY <1>4, <2>1 DEF Runs
  <2> QED BY <1>1, <1>2, <2>2, <2>3 DEF JobOK, GoesOn
<1> QED BY <1>1, <1>3, <1>4 DEF Compute

LEMMA TimesOut ==
    ASSUME TypeInv, NEW j \in Jobs, PostTimeout(j)
    PROVE  /\ \E r \in JobRecord : JobOK(r) /\ GoesOn(j, r)
           /\ UNCHANGED <<uploads, status, trim, rows, stats, shown, handler, writes>>
<1>1. PICK q : q = job[j]
  OBVIOUS
<1>2. /\ q \in JobRecord /\ JobOK(q) /\ q.work = "wait" /\ Computed(j)
      /\ UNCHANGED <<uploads, status, trim, rows, stats, shown, handler, writes>>
  BY <1>1, Parts DEF PostTimeout, Computed
<1>3. q.tries \in 1..MaxAttempts /\ q.task \notin {"free", "queued"}
  BY <1>2 DEF JobOK
<1>4. PICK r : /\ job' = [job EXCEPT ![j] = r]
               /\ \/ q.tries < MaxAttempts /\ r = [q EXCEPT !.work = "post", !.tries = q.tries + 1]
                  \/ r = [q EXCEPT !.work = "done"]
  <2> DEFINE again == [job[j] EXCEPT !.work = "post", !.tries = job[j].tries + 1]
             over == [job[j] EXCEPT !.work = "done"]
  <2>1. job' = IF job[j].tries < MaxAttempts THEN [job EXCEPT ![j] = again] ELSE [job EXCEPT ![j] = over]
    BY <1>1, <1>2, Parts DEF PostTimeout, JobRecord, TypeInv, TypeOK
  <2>2. again = [q EXCEPT !.work = "post", !.tries = q.tries + 1] /\ over = [q EXCEPT !.work = "done"]
    BY <1>1
  <2> HIDE DEF again, over
  <2> QED BY <1>1, <2>1, <2>2
<1>5. r \in JobRecord /\ r.task = q.task /\ r.kind = q.kind /\ r.upload = q.upload /\ r.trim = q.trim
      /\ r.found = q.found /\ r.work \in {"post", "done"} /\ r.tries \in 1..MaxAttempts
  <2>1. CASE q.tries < MaxAttempts /\ r = [q EXCEPT !.work = "post", !.tries = q.tries + 1]
    <3>1. q.tries + 1 \in 1..MaxAttempts
      BY <1>3, <2>1, Numbers
    <3>2. q.tries + 1 \in 0..MaxAttempts
      BY <3>1
    <3> QED BY <1>2, <2>1, <3>1, <3>2 DEF JobRecord
  <2>2. CASE r = [q EXCEPT !.work = "done"]
    BY <1>2, <1>3, <2>2 DEF JobRecord
  <2> QED BY <1>4, <2>1, <2>2
<1> QED BY <1>1, <1>2, <1>3, <1>4, <1>5 DEF JobOK, GoesOn, Runs

LEMMA JobType ==
    ASSUME TypeInv, NEW j \in Jobs, Dispatch(j) \/ Compute(j) \/ PostTimeout(j)
    PROVE  TypeInv'
<1>1. /\ \E r \in JobRecord : JobOK(r) /\ Runs(j, r)
      /\ UNCHANGED <<uploads, status, trim, rows, stats, shown, handler, writes>>
  BY Dispatches, Computes, TimesOut DEF GoesOn
<1> QED BY <1>1, Parts, Kept

-----------------------------------------------------------------------------
(* The callback's handler, and the edits.                                  *)

LEMMA Serves ==
    ASSUME TypeInv, NEW h \in Handlers, NEW j \in Jobs, Serve(h, j)
    PROVE  /\ \E r \in JobRecord : JobOK(r) /\ GoesOn(j, r)
           /\ \E r \in HandlerRecord : HandlerOK(r) /\ Turns(h, r) /\ r.pc = "maneuvers" /\ r.job = j
           /\ Computed(j) /\ handler[h].pc = "idle"
           /\ stats' = IF job[j].found = None THEN stats ELSE j
           /\ UNCHANGED <<uploads, status, trim, rows, shown, writes>>
<1>1. /\ job[j] \in JobRecord /\ JobOK(job[j]) /\ job[j].work = "post" /\ Computed(j) /\ handler[h].pc = "idle"
      /\ stats' = IF job[j].found = None THEN stats ELSE j
      /\ UNCHANGED <<uploads, status, trim, rows, shown, writes>>
  BY Parts DEF Serve, Computed
<1>2. job[j].tries \in 1..MaxAttempts /\ job[j].task \notin {"free", "queued"}
  BY <1>1 DEF JobOK
<1>3. \E r \in JobRecord : JobOK(r) /\ GoesOn(j, r)
  <2>1. PICK r : r = [job[j] EXCEPT !.work = "wait"]
    OBVIOUS
  <2>2. /\ r \in JobRecord /\ r.task = job[j].task /\ r.kind = job[j].kind /\ r.upload = job[j].upload
        /\ r.trim = job[j].trim /\ r.found = job[j].found /\ r.work = "wait" /\ r.tries = job[j].tries
    BY <1>1, <2>1 DEF JobRecord
  <2>3. Runs(j, r)
    BY <2>1 DEF Serve, Runs
  <2> QED BY <1>1, <1>2, <2>2, <2>3 DEF JobOK, GoesOn
<1>4. \E r \in HandlerRecord : HandlerOK(r) /\ Turns(h, r) /\ r.pc = "maneuvers" /\ r.job = j
  <2>1. PICK r : r = [Idle EXCEPT !.pc = "maneuvers", !.job = j, !.try = job[j].tries]
    OBVIOUS
  <2>2. r.pc = "maneuvers" /\ r.job = j /\ r \in HandlerRecord
    BY <1>2, <2>1 DEF Idle, HandlerRecord, Maybe
  <2> QED BY <2>1, <2>2 DEF HandlerOK, Serving, Serve, Turns
<1> QED BY <1>1, <1>3, <1>4

LEMMA Reads ==
    ASSUME TypeInv, NEW h \in Handlers, ReadRows(h)
    PROVE  /\ \E r \in HandlerRecord : HandlerOK(r) /\ Turns(h, r) /\ r.pc = "replace" /\ r.seen = rows
                                       /\ r.job = handler[h].job
           /\ handler[h].pc = "maneuvers"
           /\ UNCHANGED <<uploads, status, trim, rows, stats, shown, job, writes>>
<1>1. PICK r : r = [handler[h] EXCEPT !.pc = "replace", !.seen = rows]
  OBVIOUS
<1>2. handler[h] \in HandlerRecord /\ HandlerOK(handler[h]) /\ handler[h].pc = "maneuvers" /\ rows \subseteq Row
      /\ UNCHANGED <<uploads, status, trim, rows, stats, shown, job, writes>>
  BY Parts DEF ReadRows
<1>3. r \in HandlerRecord /\ r.pc = "replace" /\ r.seen = rows /\ r.job = handler[h].job
  BY <1>1, <1>2 DEF HandlerRecord
<1>4. Turns(h, r)
  BY <1>1, <1>2, Parts DEF ReadRows, Turns
<1> QED BY <1>2, <1>3, <1>4 DEF HandlerOK, Serving

LEMMA NewRows ==
    ASSUME TypeInv, NEW w \in Windows, writes < MaxWrites
    PROVE  /\ Detected(w, writes + 1) \in Row /\ Added(w, writes + 1) \in Row
           /\ Detected(w, writes + 1).key = [by |-> writes + 1, win |-> w]
           /\ Added(w, writes + 1).key = [by |-> writes + 1, win |-> w]
           /\ Detected(w, writes + 1).source = "detected" /\ Added(w, writes + 1).source = "manual"
           /\ writes + 1 \in 1..MaxWrites
<1>1. writes + 1 \in 1..MaxWrites
  BY Numbers, Parts
<1>2. [by |-> writes + 1, win |-> w] \in Key
  BY <1>1 DEF Key
<1> QED BY <1>1, <1>2 DEF Row, Detected, Added

LEMMA Replaces ==
    ASSUME TypeInv, NEW h \in Handlers, ReplaceRows(h)
    PROVE  /\ \E r \in HandlerRecord : HandlerOK(r) /\ Turns(h, r) /\ r.pc = "analysis"
                                       /\ r.job = handler[h].job
           /\ handler[h].pc = "replace" /\ writes < MaxWrites /\ writes' = writes + 1
           /\ Candidates(handler[h].job) \subseteq Windows
           /\ rows' \subseteq Row
           /\ UNCHANGED <<uploads, status, trim, stats, shown, job>>
<1>1. PICK r : r = [handler[h] EXCEPT !.pc = "analysis", !.seen = {}]
  OBVIOUS
<1>2. /\ handler[h] \in HandlerRecord /\ HandlerOK(handler[h]) /\ handler[h].pc = "replace"
      /\ writes < MaxWrites /\ writes' = writes + 1 /\ rows \subseteq Row
      /\ UNCHANGED <<uploads, status, trim, stats, shown, job>>
  BY Parts DEF ReplaceRows
<1>3. r \in HandlerRecord /\ r.pc = "analysis" /\ r.job = handler[h].job
  BY <1>1, <1>2 DEF HandlerRecord
<1>4. Turns(h, r)
  BY <1>1, <1>2, Parts DEF ReplaceRows, Turns
<1>5. handler[h].job \in Jobs
  BY <1>2 DEF HandlerOK, Serving
<1>6. Candidates(handler[h].job) \subseteq Windows
  BY <1>5, Parts DEF JobRecord, Maybe, Candidates
<1>7. \A w \in Candidates(handler[h].job) : Detected(w, writes + 1) \in Row
  BY <1>2, <1>6, NewRows
<1>8. rows' \subseteq Row
  BY <1>2, <1>7 DEF ReplaceRows, Reconcile
<1> QED BY <1>2, <1>3, <1>4, <1>6, <1>8 DEF HandlerOK, Serving

LEMMA Stores ==
    ASSUME TypeInv, NEW h \in Handlers, WriteAnalysis(h)
    PROVE  /\ Turns(h, Idle) /\ handler[h].pc = "analysis"
           /\ handler[h].job \in Jobs /\ shown' = handler[h].job
           /\ \/ UNCHANGED job
              \/ \E r \in JobRecord : JobOK(r) /\ GoesOn(handler[h].job, r)
           /\ UNCHANGED <<uploads, status, trim, rows, stats, writes>>
<1>1. PICK j : j = handler[h].job
  OBVIOUS
<1>2. /\ HandlerOK(handler[h]) /\ handler[h].pc = "analysis" /\ shown' = j /\ Turns(h, Idle)
      /\ UNCHANGED <<uploads, status, trim, rows, stats, writes>>
  BY <1>1, Parts DEF WriteAnalysis, Turns
<1>3. j \in Jobs
  BY <1>1, <1>2 DEF HandlerOK, Serving
<1>4. CASE UNCHANGED job
  BY <1>1, <1>2, <1>3, <1>4
<1>5. CASE job[j].work = "wait" /\ job' = [job EXCEPT ![j].work = "done"]
  <2>1. PICK r : r = [job[j] EXCEPT !.work = "done"]
    OBVIOUS
  <2>2. job[j] \in JobRecord /\ JobOK(job[j])
    BY <1>3, Parts
  <2>3. /\ r \in JobRecord /\ r.task = job[j].task /\ r.kind = job[j].kind /\ r.upload = job[j].upload
        /\ r.trim = job[j].trim /\ r.found = job[j].found /\ r.work = "done"
    BY <2>1, <2>2 DEF JobRecord
  <2>4. JobOK(r) /\ GoesOn(j, r)
    BY <1>5, <2>1, <2>2, <2>3 DEF JobOK, GoesOn, Runs
  <2> QED BY <1>1, <1>2, <1>3, <2>3, <2>4
<1> QED BY <1>1, <1>4, <1>5 DEF WriteAnalysis

LEMMA Checks ==
    ASSUME TypeInv, NEW h \in Handlers, NEW op \in Edits, NEW r \in rows, CheckEdit(h, op, r)
    PROVE  /\ \E q \in HandlerRecord : HandlerOK(q) /\ Turns(h, q) /\ q.pc \in Edits
           /\ handler[h].pc = "idle"
           /\ UNCHANGED <<uploads, status, trim, rows, stats, shown, job, writes>>
<1>1. PICK q : q = [Idle EXCEPT !.pc = op, !.key = r.key]
  OBVIOUS
<1>2. r.key \in Key
  BY Parts DEF Row
<1>3. q \in HandlerRecord /\ q.pc = op
  BY <1>1, <1>2 DEF Idle, HandlerRecord, Maybe
<1>4. HandlerOK(q)
  BY <1>3 DEF HandlerOK, Serving, Edits
<1> QED BY <1>1, <1>3, <1>4 DEF CheckEdit, Turns

\* An edit keeps which row it is and where it came from.
Alike(r, s) == s.key = r.key /\ s.source = r.source

LEMMA Applies ==
    ASSUME TypeInv, NEW h \in Handlers, ApplyEdit(h)
    PROVE  /\ Turns(h, Idle) /\ handler[h].pc \in Edits
           /\ rows' \subseteq Row
           /\ \A s \in rows' : \E r \in rows : Alike(r, s)
           /\ (\A q, r \in rows : q.key = r.key => q = r) => \A s, t \in rows' : s.key = t.key => s = t
           /\ \A r \in rows : (\E s \in rows' : s.key = r.key) \/ Removes(h, r)
           /\ UNCHANGED <<uploads, status, trim, stats, shown, job, writes>>
<1>1. PICK op, key : op = handler[h].pc /\ key = handler[h].key
  OBVIOUS
<1>2. /\ Turns(h, Idle) /\ op \in Edits /\ rows \subseteq Row
      /\ rows' = UNION {IF r.key = key THEN Edited(op, r) ELSE {r} : r \in rows}
      /\ UNCHANGED <<uploads, status, trim, stats, shown, job, writes>>
  BY <1>1, Parts DEF ApplyEdit, Turns
<1> DEFINE After(r) == IF r.key = key THEN Edited(op, r) ELSE {r}
<1>3. ASSUME NEW r \in rows
      PROVE  /\ \A s \in After(r) : s \in Row /\ Alike(r, s)
             /\ \A s, t \in After(r) : s = t
             /\ After(r) = {} => r.key = key /\ op = "delete"
  <2>1. r \in Row
    BY <1>2
  <2>2. CASE r.key # key
    BY <2>1, <2>2 DEF Alike
  <2>3. CASE r.key = key
    BY <1>2, <2>1, <2>3 DEF Edits, Edited, Alike, Row
  <2> QED BY <2>2, <2>3
<1>4. \A s : s \in rows' <=> \E r \in rows : s \in After(r)
  BY <1>2
<1> HIDE DEF After
<1>5. rows' \subseteq Row /\ \A s \in rows' : \E r \in rows : Alike(r, s)
  BY <1>3, <1>4
<1>6. (\A q, r \in rows : q.key = r.key => q = r) => \A s, t \in rows' : s.key = t.key => s = t
  BY <1>3, <1>4 DEF Alike
<1>7. \A r \in rows : (\E s \in rows' : s.key = r.key) \/ Removes(h, r)
  BY <1>1, <1>3, <1>4 DEF Alike, Removes
<1> QED BY <1>1, <1>2, <1>5, <1>6, <1>7

LEMMA Adds ==
    ASSUME TypeInv, NEW h \in Handlers, NEW w \in Manual, AddManeuver(h, w)
    PROVE  /\ rows' = rows \cup {Added(w, writes + 1)} /\ writes < MaxWrites /\ writes' = writes + 1
           /\ w \in Windows /\ rows' \subseteq Row /\ handler[h].pc = "idle"
           /\ UNCHANGED <<uploads, status, trim, stats, shown, job, handler>>
<1>1. w \in Windows /\ writes < MaxWrites /\ rows \subseteq Row
  BY Numbers, Parts DEF AddManeuver
<1>2. Added(w, writes + 1) \in Row
  BY <1>1, NewRows
<1> QED BY <1>1, <1>2 DEF AddManeuver

LEMMA Fills ==
    ASSUME TypeInv, NEW h \in Handlers, NEW r \in rows, FillManeuver(h, r)
    PROVE  /\ \E s \in Row : Alike(r, s) /\ rows' = (rows \ {r}) \cup {s}
           /\ handler[h].pc = "idle"
           /\ UNCHANGED <<uploads, status, trim, stats, shown, job, handler, writes>>
<1>1. PICK s : s = [r EXCEPT !.pending = FALSE]
  OBVIOUS
<1>2. s \in Row /\ Alike(r, s)
  BY <1>1, Parts DEF Row, Alike
<1> QED BY <1>1, <1>2 DEF FillManeuver

LEMMA CallbackType ==
    ASSUME TypeInv, NEW h \in Handlers,
           (\E j \in Jobs : Serve(h, j)) \/ ReadRows(h) \/ ReplaceRows(h) \/ WriteAnalysis(h)
    PROVE  TypeInv'
<1>1. ASSUME NEW j \in Jobs, Serve(h, j) PROVE TypeInv'
  <2>1. stats' \in Maybe(Jobs)
    BY <1>1, Serves, Parts DEF Maybe
  <2>2. /\ \E r \in JobRecord : JobOK(r) /\ Runs(j, r)
        /\ \E r \in HandlerRecord : HandlerOK(r) /\ Turns(h, r)
        /\ UNCHANGED <<uploads, status, trim, rows, shown, writes>>
    BY <1>1, Serves DEF GoesOn
  <2> QED BY <2>1, <2>2, Parts, Kept
<1>2. CASE ReadRows(h)
  BY <1>2, Reads, Parts, Kept
<1>3. CASE ReplaceRows(h)
  <2>1. writes' \in 0..MaxWrites
    BY <1>3, Replaces, Parts, Numbers
  <2> QED BY <1>3, <2>1, Replaces, Parts, Kept
<1>4. CASE WriteAnalysis(h)
  <2>1. /\ Turns(h, Idle) /\ shown' \in Maybe(Jobs)
        /\ UNCHANGED job \/ \E j \in Jobs : \E r \in JobRecord : Runs(j, r) /\ JobOK(r)
        /\ UNCHANGED <<uploads, status, trim, rows, stats, writes>>
    BY <1>4, Stores DEF GoesOn, Maybe
  <2> QED BY <2>1, IdleType, Parts, Kept
<1> QED BY <1>1, <1>2, <1>3, <1>4

LEMMA EditType ==
    ASSUME TypeInv, NEW h \in Handlers,
           \/ \E op \in Edits, r \in rows : CheckEdit(h, op, r)
           \/ ApplyEdit(h)
           \/ \E w \in Manual : AddManeuver(h, w)
           \/ \E r \in rows : FillManeuver(h, r)
    PROVE  TypeInv'
<1>1. ASSUME NEW op \in Edits, NEW r \in rows, CheckEdit(h, op, r) PROVE TypeInv'
  BY <1>1, Checks, Parts, Kept
<1>2. CASE ApplyEdit(h)
  BY <1>2, Applies, IdleType, Parts, Kept
<1>3. ASSUME NEW w \in Manual, AddManeuver(h, w) PROVE TypeInv'
  <2>1. writes' \in 0..MaxWrites
    BY <1>3, Adds, Parts, Numbers
  <2> QED BY <1>3, <2>1, Adds, Parts, Kept
<1>4. ASSUME NEW r \in rows, FillManeuver(h, r) PROVE TypeInv'
  <2>1. rows' \subseteq Row
    BY <1>4, Fills, Parts
  <2> QED BY <1>4, <2>1, Fills, Parts, Kept
<1> QED BY <1>1, <1>2, <1>3, <1>4

LEMMA TypeStart == Init => TypeInv
<1> SUFFICES ASSUME Init PROVE TypeInv
  OBVIOUS
<1>1. TypeOK
  BY Numbers, IdleType, FreeType DEF Init, TypeOK, Maybe
<1> QED BY <1>1, IdleType, FreeType DEF Init, TypeInv

LEMMA TypeKept == ASSUME TypeInv, [Next]_vars PROVE TypeInv'
<1>1. ASSUME NEW j \in Jobs, Progress(j) \/ WindFails(j) \/ PostTimeout(j) PROVE TypeInv'
  BY <1>1, TaskEndingType, JobType, CallbackType DEF Progress
<1>2. ASSUME NEW h \in Handlers, Request(h) PROVE TypeInv'
  BY <1>2, AskType, GuardType, CallbackType, EditType DEF Request
<1>3. CASE UNCHANGED vars
  <2>1. UNCHANGED <<uploads, status, trim, rows, stats, shown, job, handler, writes>>
    BY <1>3 DEF vars
  <2> QED BY <2>1, Parts, Kept
<1> QED BY <1>1, <1>2, <1>3, UploadsType, AskType, EditType DEF Next

-----------------------------------------------------------------------------
(* One request at a time.                                                  *)

LEMMA RowsFrame ==
    ASSUME SerialInv, UNCHANGED <<rows, writes>>,
           \A h \in Handlers : handler'[h].pc = "replace" => handler'[h].seen = rows
    PROVE  (KeysInv /\ OneAnalysisPerEvent /\ SeenInv)'
BY DEF SerialInv, KeysInv, OneAnalysisPerEvent, SeenInv

LEMMA StatusFrame ==
    ASSUME SerialInv, UNCHANGED status, \A u \in Uploads : Guarded(u)' = Guarded(u),
           \A h \in Handlers : handler'[h].pc = "guard" /\ handler'[h].saw # "running" =>
              status[handler'[h].upload] # "running"
    PROVE  StatusInv'
BY DEF SerialInv, StatusInv

LEMMA ShownFrame ==
    ASSUME TypeInv, SerialInv, UNCHANGED <<stats, shown>>,
           \A j \in Jobs : Computed(j) => Computed(j)' /\ job'[j].found = job[j].found,
           \A h \in Handlers : /\ handler'[h].pc \in Serving <=> handler[h].pc \in Serving
                               /\ handler[h].pc \in Serving => handler'[h].job = handler[h].job
    PROVE  ShownInv'
<1>1. \A h \in Handlers : handler[h].pc \in Serving => handler[h].job \in Jobs
  BY Parts DEF HandlerOK
<1>2. shown # None => shown \in Jobs
  BY Parts DEF Maybe
<1> QED BY <1>1, <1>2 DEF SerialInv, ShownInv, Stated, Computed

\* A step that changes one job only, which stays guarded or not as it was.
LEMMA SameGuarded ==
    ASSUME TypeInv, UNCHANGED job \/ \E j \in Jobs : \E r \in JobRecord : GoesOn(j, r)
    PROVE  /\ \A u \in Uploads : Guarded(u)' = Guarded(u)
           /\ \A j \in Jobs : Computed(j) => Computed(j)' /\ job'[j].found = job[j].found
<1>1. CASE UNCHANGED job
  BY <1>1 DEF Guarded, Computed
<1>2. ASSUME NEW j \in Jobs, NEW r \in JobRecord, GoesOn(j, r)
      PROVE  /\ \A u \in Uploads : Guarded(u)' = Guarded(u)
             /\ \A i \in Jobs : Computed(i) => Computed(i)' /\ job'[i].found = job[i].found
  <2>1. \A i \in Jobs : job'[i] = IF i = j THEN r ELSE job[i]
    BY <1>2 DEF GoesOn, Runs, TypeInv, TypeOK
  <2> QED BY <1>2, <2>1 DEF GoesOn, Guarded, Computed
<1> QED BY <1>1, <1>2

LEMMA Turned ==
    ASSUME TypeInv, NEW h \in Handlers, NEW r \in HandlerRecord, Turns(h, r)
    PROVE  \A g \in Handlers : handler'[g] = IF g = h THEN r ELSE handler[g]
BY DEF Turns, TypeInv, TypeOK

\* The uploads of the session, and the requests before they pass the guard.
LEMMA AsksSerial ==
    ASSUME TypeInv, SerialInv, NEW h \in Handlers, Ask(h) \/ AskTrimmed(h) \/ \E t \in Trims : SetTrim(h, t)
    PROVE  SerialInv'
<1>1. UNCHANGED <<status, rows, stats, shown, job, writes>>
  BY DEF Ask, AskTrimmed, SetTrim
<1>2. handler[h].pc \in {"idle", "latest"}
  BY DEF Ask, AskTrimmed, SetTrim, MayAsk
<1>3. \E r \in HandlerRecord : /\ Turns(h, r) /\ r.pc \in {"idle", "guard", "latest"}
                               /\ r.pc = "guard" => r.upload \in Uploads /\ r.saw = status[r.upload]
  <2>1. CASE Ask(h) \/ AskTrimmed(h)
    <3>1. PICK kind \in {"reanalyze", "wind"} : ReadLatest(h, kind)
      BY <2>1 DEF Ask, AskTrimmed
    <3> QED BY <3>1, ReadsLatest
  <2>2. CASE \E t \in Trims : SetTrim(h, t)
    <3> DEFINE r == [Idle EXCEPT !.pc = "latest"]
    <3>1. r \in HandlerRecord /\ r.pc = "latest"
      BY DEF Idle, HandlerRecord, Maybe
    <3>2. Turns(h, r)
      BY <2>2 DEF SetTrim, Turns
    <3> HIDE DEF r
    <3> QED BY <3>1, <3>2
  <2> QED BY <2>1, <2>2
<1>4. PICK r \in HandlerRecord : /\ Turns(h, r) /\ r.pc \in {"idle", "guard", "latest"}
                                 /\ r.pc = "guard" => r.upload \in Uploads /\ r.saw = status[r.upload]
  BY <1>3
<1>5. \A g \in Handlers : handler'[g] = IF g = h THEN r ELSE handler[g]
  BY <1>4, Turned
<1>6. (KeysInv /\ OneAnalysisPerEvent /\ SeenInv)'
  BY <1>1, <1>4, <1>5, RowsFrame DEF SerialInv, SeenInv
<1>7. StatusInv'
  BY <1>1, <1>4, <1>5, SameGuarded, StatusFrame DEF SerialInv, StatusInv
<1>8. ShownInv'
  BY <1>1, <1>2, <1>4, <1>5, SameGuarded, ShownFrame DEF Serving
<1> QED BY <1>6, <1>7, <1>8 DEF SerialInv

LEMMA UploadsSerial ==
    ASSUME TypeInv, SerialInv, NewUpload \/ \E j \in Jobs : ImportUpload(j)
    PROVE  SerialInv'
<1>1. UNCHANGED <<status, rows, stats, shown, handler, writes>>
  BY DEF NewUpload, ImportUpload
<1>2. /\ \A u \in Uploads : Guarded(u)' = Guarded(u)
      /\ \A j \in Jobs : Computed(j) => Computed(j)' /\ job'[j].found = job[j].found
  <2>1. CASE NewUpload
    BY <2>1, SameGuarded DEF NewUpload
  <2>2. ASSUME NEW j \in Jobs, ImportUpload(j)
        PROVE  /\ \A u \in Uploads : Guarded(u)' = Guarded(u)
               /\ \A i \in Jobs : Computed(i) => Computed(i)' /\ job'[i].found = job[i].found
    <3>1. PICK r : r = [FreeJob EXCEPT !.task = "queued", !.kind = "import",
                          !.upload = uploads + 1, !.trim = NoTrim]
      OBVIOUS
    <3>2. job' = [job EXCEPT ![j] = r] /\ job[j].task = "free" /\ r.kind = "import"
      BY <2>2, <3>1 DEF ImportUpload, Fresh, FreeJob
    <3>3. job[j].work = "none"
      BY <3>2, Parts DEF JobOK
    <3>4. job'[j] = r /\ \A i \in Jobs : i # j => job'[i] = job[i]
      BY <3>2 DEF TypeInv, TypeOK
    <3> QED BY <3>2, <3>3, <3>4 DEF Guarded, Computed
  <2> QED BY <2>1, <2>2
<1>3. (KeysInv /\ OneAnalysisPerEvent /\ SeenInv)'
  BY <1>1, RowsFrame DEF SerialInv, SeenInv
<1>4. StatusInv'
  BY <1>1, <1>2, StatusFrame DEF SerialInv, StatusInv
<1>5. ShownInv'
  BY <1>1, <1>2, ShownFrame
<1> QED BY <1>3, <1>4, <1>5 DEF SerialInv

LEMMA GuardSerial == ASSUME Serial, TypeInv, SerialInv, NEW h \in Handlers, Guard(h) PROVE SerialInv'
<1>1. Turns(h, Idle) /\ UNCHANGED <<uploads, trim, rows, stats, shown, writes>> /\ handler[h].pc = "guard"
  BY Guards DEF Guard
<1>2. \A g \in Handlers : handler'[g] = Idle /\ handler[g].pc = "guard"
  BY <1>1, IdleType, Turned DEF Serial
<1>3. (KeysInv /\ OneAnalysisPerEvent /\ SeenInv)'
  BY <1>1, <1>2, IdleType, RowsFrame
<1>4. CASE UNCHANGED <<status, job>>
  <2>1. StatusInv'
    BY <1>2, <1>4, IdleType, SameGuarded, StatusFrame
  <2>2. ShownInv'
    BY <1>1, <1>2, <1>4, IdleType, SameGuarded, ShownFrame DEF Serving
  <2> QED BY <1>3, <2>1, <2>2 DEF SerialInv
<1>5. ASSUME NEW j \in Jobs, NEW r \in JobRecord, Starts(h, j, r) PROVE SerialInv'
  <2>1. PICK v \in Uploads : v = handler[h].upload
    BY <1>5 DEF Starts
  <2>2. /\ job'[j] = r /\ \A i \in Jobs : i # j => job'[i] = job[i]
        /\ job[j].task = "free" /\ job[j].work = "none"
    BY <1>5, Parts DEF Starts, Runs, Fresh, TypeInv, TypeOK, JobOK
  <2>3. status[v] # "running" /\ Guarded(v) = {}
    BY <1>1, <1>5, <2>1 DEF Starts, SerialInv, StatusInv
  <2>4. \A u \in Uploads : Guarded(u)' = IF u = v THEN {j} ELSE Guarded(u)
    <3>1. ASSUME NEW u \in Uploads, NEW i \in Jobs
          PROVE  i \in Guarded(u)' <=> IF u = v THEN i = j ELSE i \in Guarded(u)
      <4>1. CASE i = j
        BY <1>5, <2>1, <2>2, <4>1 DEF Starts, Guarded
      <4>2. CASE i # j
        BY <2>2, <2>3, <4>2 DEF Guarded
      <4> QED BY <4>1, <4>2
    <3>2. \A u \in Uploads : Guarded(u)' \subseteq Jobs /\ Guarded(u) \subseteq Jobs
      BY DEF Guarded
    <3> QED BY <3>1, <3>2
  <2>5. \A u \in Uploads : status'[u] = IF u = v THEN "running" ELSE status[u]
    BY <1>5, <2>1, Parts DEF Starts
  <2>6. StatusInv'
    BY <1>2, <2>4, <2>5, IdleType DEF SerialInv, StatusInv
  <2>7. \A i \in Jobs : Computed(i) => Computed(i)' /\ job'[i].found = job[i].found
    BY <2>2 DEF Computed
  <2>8. ShownInv'
    BY <1>1, <1>2, <2>7, IdleType, ShownFrame DEF Serving
  <2> QED BY <1>3, <2>6, <2>8 DEF SerialInv
<1> QED BY <1>4, <1>5, Guards

\* Tasks and invocations: no row of the session changes.
LEMMA TaskEndingSerial ==
    ASSUME TypeInv, SerialInv, NEW j \in Jobs, DispatchRefused(j) \/ TaskEnds(j) \/ WindFails(j)
    PROVE  SerialInv'
<1>1. UNCHANGED <<rows, stats, shown, handler, writes>> /\ job[j].task \in {"queued", "sent"}
  BY TaskEnding
<1>2. PICK result \in {None, "failed"} : End(j, result)
  BY TaskEnding
<1>3. result # "running" /\ job[j].task # "free"
  BY <1>1, Numbers
<1>4. PICK r \in JobRecord : Ended(j, r)
  BY <1>2, <1>3, Ends
<1>5. \A u \in Uploads : status'[u] = IF job[j].kind # "import" /\ u = job[j].upload
                                      THEN result ELSE status[u]
  BY <1>2, <1>3, Ends
<1>6. job'[j] = r /\ \A i \in Jobs : i # j => job'[i] = job[i]
  BY <1>4 DEF Ended, Runs, TypeInv, TypeOK
<1>7. \A u \in Uploads : Guarded(u)' = Guarded(u) \ {j}
  BY <1>4, <1>6 DEF Ended, Guarded
<1>8. \A u \in Uploads : j \in Guarded(u) <=> job[j].kind # "import" /\ u = job[j].upload
  BY <1>1 DEF Guarded
<1>9. \A u \in Uploads : \A i, k \in Guarded(u) : i = k
  BY DEF SerialInv, StatusInv
<1>10. \A u \in Uploads : status[u] = "running" <=> Guarded(u) # {}
  BY DEF SerialInv, StatusInv
<1>11. \A u \in Uploads : /\ status'[u] = "running" <=> Guarded(u)' # {}
                          /\ status'[u] = "running" => status[u] = "running"
                          /\ \A i, k \in Guarded(u)' : i = k
  <2> TAKE u \in Uploads
  <2>1. CASE j \in Guarded(u)
    <3>1. Guarded(u)' = {}
      BY <1>7, <1>9, <2>1
    <3>2. status'[u] = result
      BY <1>5, <1>8, <2>1
    <3> QED BY <1>3, <3>1, <3>2
  <2>2. CASE j \notin Guarded(u)
    <3>1. Guarded(u)' = Guarded(u)
      BY <1>7, <2>2
    <3>2. status'[u] = status[u]
      BY <1>5, <1>8, <2>2
    <3> QED BY <1>9, <1>10, <3>1, <3>2
  <2> QED BY <2>1, <2>2
<1>12. \A h \in Handlers : handler[h].pc = "guard" => handler[h].upload \in Uploads
  BY Parts DEF HandlerOK
<1>13. StatusInv'
  BY <1>1, <1>11, <1>12 DEF SerialInv, StatusInv
<1>14. (KeysInv /\ OneAnalysisPerEvent /\ SeenInv)'
  BY <1>1, RowsFrame DEF SerialInv, SeenInv
<1>15. \A i \in Jobs : Computed(i) => Computed(i)' /\ job'[i].found = job[i].found
  BY <1>4, <1>6 DEF Computed, Ended
<1>16. ShownInv'
  BY <1>1, <1>15, ShownFrame
<1> QED BY <1>13, <1>14, <1>16 DEF SerialInv

LEMMA JobSerial ==
    ASSUME TypeInv, SerialInv, NEW j \in Jobs, Dispatch(j) \/ Compute(j) \/ PostTimeout(j)
    PROVE  SerialInv'
<1>1. /\ \E r \in JobRecord : GoesOn(j, r)
      /\ UNCHANGED <<uploads, status, trim, rows, stats, shown, handler, writes>>
  BY Dispatches, Computes, TimesOut
<1>2. (KeysInv /\ OneAnalysisPerEvent /\ SeenInv)'
  BY <1>1, RowsFrame DEF SerialInv, SeenInv
<1>3. StatusInv'
  BY <1>1, SameGuarded, StatusFrame DEF SerialInv, StatusInv
<1>4. ShownInv'
  BY <1>1, SameGuarded, ShownFrame
<1> QED BY <1>2, <1>3, <1>4 DEF SerialInv

\* The callback.
LEMMA ServesSerial ==
    ASSUME Serial, TypeInv, SerialInv, NEW h \in Handlers, NEW j \in Jobs, Serve(h, j)
    PROVE  SerialInv'
<1>1. PICK r \in HandlerRecord : Turns(h, r) /\ r.pc = "maneuvers" /\ r.job = j
  BY Serves
<1>2. /\ \E q \in JobRecord : GoesOn(j, q)
      /\ Computed(j) /\ stats' = IF job[j].found = None THEN stats ELSE j
      /\ UNCHANGED <<uploads, status, trim, rows, shown, writes>>
  BY Serves
<1>3. \A g \in Handlers : handler'[g] = r
  BY <1>1, Turned DEF Serial
<1>4. (KeysInv /\ OneAnalysisPerEvent /\ SeenInv)'
  BY <1>1, <1>2, <1>3, RowsFrame
<1>5. StatusInv'
  BY <1>1, <1>2, <1>3, SameGuarded, StatusFrame
<1>6. \A i \in Jobs : Computed(i) => Computed(i)' /\ job'[i].found = job[i].found
  BY <1>2, SameGuarded
<1>7. shown # None => shown \in Jobs
  BY Parts DEF Maybe
<1>8. Stated(j)'
  BY <1>2, <1>6 DEF Stated
<1>9. ShownInv'
  BY <1>1, <1>2, <1>3, <1>6, <1>7, <1>8 DEF SerialInv, ShownInv, Serving, Computed, Stated
<1> QED BY <1>4, <1>5, <1>9 DEF SerialInv

LEMMA ReadsSerial ==
    ASSUME Serial, TypeInv, SerialInv, NEW h \in Handlers, ReadRows(h)
    PROVE  SerialInv'
<1>1. PICK r \in HandlerRecord : Turns(h, r) /\ r.pc = "replace" /\ r.seen = rows /\ r.job = handler[h].job
  BY Reads
<1>2. handler[h].pc = "maneuvers" /\ UNCHANGED <<uploads, status, trim, rows, stats, shown, job, writes>>
  BY Reads
<1>3. \A g \in Handlers : handler'[g] = r /\ g = h
  BY <1>1, Turned DEF Serial
<1>4. (KeysInv /\ OneAnalysisPerEvent /\ SeenInv)'
  BY <1>1, <1>2, <1>3, RowsFrame
<1>5. StatusInv'
  BY <1>1, <1>2, <1>3, SameGuarded, StatusFrame
<1>6. ShownInv'
  BY <1>1, <1>2, <1>3, SameGuarded, ShownFrame DEF Serving
<1> QED BY <1>4, <1>5, <1>6 DEF SerialInv

\* What a callback makes of the rows: it leaves those a user has touched, drops
\* the others, and inserts its own apart from them.
LEMMA Reconciles ==
    ASSUME Serial, TypeInv, SerialInv, NEW h \in Handlers, ReplaceRows(h)
    PROVE  /\ \A r \in rows' :
                \/ r \in rows /\ Touched(r)
                \/ /\ \E w \in Windows : r = Detected(w, writes + 1)
                   /\ \A p \in rows : Touched(p) => ~SameEvent(r.key.win, p.key.win)
           /\ \A r \in rows : Touched(r) => r \in rows'
<1> DEFINE seen == handler[h].seen
           kept == {r \in seen : Preserved(r)}
           replaceable == {r.key : r \in seen \ kept}
           found == Candidates(handler[h].job)
<1>1. seen = rows /\ handler[h].pc = "replace"
  BY Replaces DEF SerialInv, SeenInv
<1>2. rows' = {r \in rows : r.key \notin replaceable} \cup {Detected(w, writes + 1) : w \in Reconcile(kept, found)}
  BY DEF ReplaceRows
<1>3. \A r \in rows : Preserved(r) <=> Touched(r)
  BY DEF Preserved, Touched
<1>4. \A r \in rows : r.key \notin replaceable <=> Touched(r)
  BY <1>1, <1>3 DEF SerialInv, KeysInv
<1>5. ASSUME NEW w \in Reconcile(kept, found)
      PROVE  /\ w \in Windows
             /\ \A p \in rows : Touched(p) => ~SameEvent(w, p.key.win)
  <2>1. w \in found /\ \A r \in kept : ~SameEvent(w, r.key.win)
    BY DEF Reconcile
  <2>2. found \subseteq Windows
    BY Replaces
  <2> QED BY <1>1, <1>3, <2>1, <2>2
<1>6. \A w \in Reconcile(kept, found) : Detected(w, writes + 1).key.win = w
  BY DEF Detected
<1> HIDE DEF seen, kept, replaceable, found
<1> QED BY <1>2, <1>4, <1>5, <1>6

LEMMA SameEventBoth ==
    ASSUME NEW v \in Windows, NEW w \in Windows
    PROVE  SameEvent(v, w) => SameEvent(w, v)
BY Numbers DEF Window, SameEvent

LEMMA ReplacesSerial ==
    ASSUME Serial, TypeInv, SerialInv, NEW h \in Handlers, ReplaceRows(h)
    PROVE  SerialInv'
<1>1. PICK q \in HandlerRecord : Turns(h, q) /\ q.pc = "analysis" /\ q.job = handler[h].job
  BY Replaces
<1>2. /\ handler[h].pc = "replace" /\ writes < MaxWrites /\ writes' = writes + 1
      /\ UNCHANGED <<uploads, status, trim, stats, shown, job>>
  BY Replaces
<1>3. \A g \in Handlers : handler'[g] = q /\ g = h
  BY <1>1, Turned DEF Serial
<1>4. writes \in Nat /\ \A r \in rows : r.key.by \in Nat /\ r.key.by <= writes /\ r.key.win \in Windows
  BY Parts, Numbers DEF SerialInv, KeysInv, Row, Key
<1> DEFINE New(r) == /\ \E w \in Windows : r = Detected(w, writes + 1)
                     /\ \A p \in rows : Touched(p) => ~SameEvent(r.key.win, p.key.win)
<1>5. \A r \in rows' : (r \in rows /\ Touched(r)) \/ New(r)
  BY Reconciles
<1>6. ASSUME NEW r, New(r) PROVE r.key.by = writes + 1 /\ r.key.win \in Windows
                                 /\ \A s : New(s) /\ r.key = s.key => r = s
  BY <1>6 DEF Detected
<1>7. \A r, p : New(r) /\ p \in rows /\ Touched(p) => ~SameEvent(r.key.win, p.key.win)
  OBVIOUS
<1> HIDE DEF New
<1>8. KeysInv'
  <2>1. \A r \in rows' : r.key.by <= writes'
    BY <1>2, <1>4, <1>5, <1>6
  <2>2. \A r, s \in rows : r.key = s.key => r = s
    BY DEF SerialInv, KeysInv
  <2>3. \A r, s \in rows' : r.key = s.key => r = s
    BY <1>4, <1>5, <1>6, <2>2
  <2> QED BY <2>1, <2>3 DEF KeysInv
<1>9. OneAnalysisPerEvent'
  <2> SUFFICES ASSUME NEW r \in rows', NEW s \in rows', r.source = "detected", s.source = "detected",
                      SameEvent(r.key.win, s.key.win)
               PROVE  r.key.by = s.key.by
    BY DEF OneAnalysisPerEvent, SameEvent
  <2>1. CASE r \in rows /\ s \in rows
    BY <2>1 DEF SerialInv, OneAnalysisPerEvent
  <2>2. CASE New(r) /\ New(s)
    BY <1>6, <2>2
  <2>3. CASE New(r) /\ s \in rows /\ Touched(s)
    BY <1>7, <2>3
  <2>4. CASE New(s) /\ r \in rows /\ Touched(r)
    <3>1. SameEvent(s.key.win, r.key.win)
      BY <1>4, <1>6, <2>4, SameEventBoth
    <3> QED BY <1>7, <2>4, <3>1
  <2> QED BY <1>5, <2>1, <2>2, <2>3, <2>4
<1>10. SeenInv'
  BY <1>1, <1>3 DEF SeenInv
<1>11. StatusInv'
  BY <1>1, <1>2, <1>3, SameGuarded, StatusFrame
<1>12. ShownInv'
  BY <1>1, <1>2, <1>3, SameGuarded, ShownFrame DEF Serving
<1> QED BY <1>8, <1>9, <1>10, <1>11, <1>12 DEF SerialInv

LEMMA StoresSerial ==
    ASSUME Serial, TypeInv, SerialInv, NEW h \in Handlers, WriteAnalysis(h)
    PROVE  SerialInv'
<1>1. PICK j \in Jobs : j = handler[h].job
  BY Stores
<1>2. /\ Turns(h, Idle) /\ handler[h].pc = "analysis" /\ shown' = j
      /\ UNCHANGED job \/ \E i \in Jobs : \E r \in JobRecord : GoesOn(i, r)
      /\ UNCHANGED <<uploads, status, trim, rows, stats, writes>>
  BY <1>1, Stores
<1>3. \A g \in Handlers : handler'[g] = Idle
  BY <1>2, IdleType, Turned DEF Serial
<1>4. (KeysInv /\ OneAnalysisPerEvent /\ SeenInv)'
  BY <1>2, <1>3, IdleType, RowsFrame
<1>5. StatusInv'
  BY <1>2, <1>3, IdleType, SameGuarded, StatusFrame
<1>6. Computed(j) /\ Stated(j)
  BY <1>1, <1>2 DEF SerialInv, ShownInv, Serving
<1>7. Computed(j)' /\ Stated(j)'
  BY <1>2, <1>6, SameGuarded DEF Stated
<1>8. ShownInv'
  BY <1>2, <1>3, <1>7, IdleType DEF ShownInv, Serving, Computed, Stated
<1> QED BY <1>4, <1>5, <1>8 DEF SerialInv

\* Edits keep which rows there are, or add one of the user's own.
LEMMA RowsAlike ==
    ASSUME SerialInv, writes' = writes, \A s \in rows' : \E r \in rows : Alike(r, s),
           (\A q, r \in rows : q.key = r.key => q = r) => \A s, t \in rows' : s.key = t.key => s = t
    PROVE  (KeysInv /\ OneAnalysisPerEvent)'
<1>1. KeysInv /\ OneAnalysisPerEvent
  BY DEF SerialInv
<1>2. KeysInv'
  BY <1>1 DEF KeysInv, Alike
<1>3. OneAnalysisPerEvent'
  <2> SUFFICES ASSUME NEW s \in rows', NEW t \in rows', s.source = "detected", t.source = "detected",
                      SameEvent(s.key.win, t.key.win)
               PROVE  s.key.by = t.key.by
    BY DEF OneAnalysisPerEvent, SameEvent
  <2>1. PICK p \in rows : Alike(p, s)
    OBVIOUS
  <2>2. PICK q \in rows : Alike(q, t)
    OBVIOUS
  <2> QED BY <1>1, <2>1, <2>2 DEF OneAnalysisPerEvent, Alike
<1> QED BY <1>2, <1>3

LEMMA ChecksSerial ==
    ASSUME Serial, TypeInv, SerialInv, NEW h \in Handlers, NEW op \in Edits, NEW r \in rows, CheckEdit(h, op, r)
    PROVE  SerialInv'
<1>1. PICK q \in HandlerRecord : Turns(h, q) /\ q.pc \in Edits
  BY Checks
<1>2. handler[h].pc = "idle" /\ UNCHANGED <<uploads, status, trim, rows, stats, shown, job, writes>>
  BY Checks
<1>3. \A g \in Handlers : handler'[g] = q /\ g = h
  BY <1>1, Turned DEF Serial
<1>4. q.pc \notin {"replace", "guard"} /\ q.pc \notin Serving
  BY <1>1 DEF Edits, Serving
<1>5. (KeysInv /\ OneAnalysisPerEvent /\ SeenInv)'
  BY <1>2, <1>3, <1>4, RowsFrame
<1>6. StatusInv'
  BY <1>2, <1>3, <1>4, SameGuarded, StatusFrame
<1>7. ShownInv'
  BY <1>2, <1>3, <1>4, SameGuarded, ShownFrame DEF Serving
<1> QED BY <1>5, <1>6, <1>7 DEF SerialInv

LEMMA AppliesSerial ==
    ASSUME Serial, TypeInv, SerialInv, NEW h \in Handlers, ApplyEdit(h)
    PROVE  SerialInv'
<1>1. Turns(h, Idle) /\ handler[h].pc \in Edits /\ UNCHANGED <<uploads, status, trim, stats, shown, job, writes>>
  BY Applies
<1>2. (KeysInv /\ OneAnalysisPerEvent)'
  BY <1>1, Applies, RowsAlike
<1>3. \A g \in Handlers : handler'[g] = Idle /\ g = h
  BY <1>1, IdleType, Turned DEF Serial
<1>4. SeenInv'
  BY <1>3, IdleType DEF SeenInv
<1>5. StatusInv'
  BY <1>1, <1>3, IdleType, SameGuarded, StatusFrame
<1>6. ShownInv'
  BY <1>1, <1>3, IdleType, SameGuarded, ShownFrame DEF Serving, Edits
<1> QED BY <1>2, <1>4, <1>5, <1>6 DEF SerialInv

LEMMA AddsSerial ==
    ASSUME Serial, TypeInv, SerialInv, NEW h \in Handlers, NEW w \in Manual, AddManeuver(h, w)
    PROVE  SerialInv'
<1>1. /\ rows' = rows \cup {Added(w, writes + 1)} /\ writes < MaxWrites /\ writes' = writes + 1
      /\ w \in Windows /\ handler[h].pc = "idle"
      /\ UNCHANGED <<uploads, status, trim, stats, shown, job, handler>>
  BY Adds
<1>2. PICK r : r = Added(w, writes + 1)
  OBVIOUS
<1>3. r.key.by = writes + 1 /\ r.source = "manual"
  BY <1>2 DEF Added, Detected
<1>4. writes \in Nat /\ \A s \in rows : s.key.by \in Nat /\ s.key.by <= writes
  BY Parts, Numbers DEF SerialInv, KeysInv, Row, Key
<1>5. KeysInv'
  <2>1. \A s, t \in rows : s.key = t.key => s = t
    BY DEF SerialInv, KeysInv
  <2> QED BY <1>1, <1>2, <1>3, <1>4, <2>1 DEF KeysInv
<1>6. OneAnalysisPerEvent'
  BY <1>1, <1>2, <1>3 DEF SerialInv, OneAnalysisPerEvent, SameEvent
<1>7. SeenInv'
  BY <1>1 DEF SeenInv, Serial
<1>8. StatusInv'
  BY <1>1, SameGuarded, StatusFrame DEF SerialInv, StatusInv
<1>9. ShownInv'
  BY <1>1, SameGuarded, ShownFrame
<1> QED BY <1>5, <1>6, <1>7, <1>8, <1>9 DEF SerialInv

LEMMA FillsSerial ==
    ASSUME Serial, TypeInv, SerialInv, NEW h \in Handlers, NEW r \in rows, FillManeuver(h, r)
    PROVE  SerialInv'
<1>1. PICK s \in Row : Alike(r, s) /\ rows' = (rows \ {r}) \cup {s}
  BY Fills
<1>2. handler[h].pc = "idle" /\ UNCHANGED <<uploads, status, trim, stats, shown, job, handler, writes>>
  BY Fills
<1>3. \A t \in rows' : \E q \in rows : Alike(q, t)
  BY <1>1 DEF Alike
<1>4. (\A q, p \in rows : q.key = p.key => q = p) => \A p, t \in rows' : p.key = t.key => p = t
  BY <1>1 DEF Alike
<1>5. (KeysInv /\ OneAnalysisPerEvent)'
  BY <1>2, <1>3, <1>4, RowsAlike
<1>6. SeenInv'
  BY <1>2 DEF SeenInv, Serial
<1>7. StatusInv'
  BY <1>2, SameGuarded, StatusFrame DEF SerialInv, StatusInv
<1>8. ShownInv'
  BY <1>2, SameGuarded, ShownFrame
<1> QED BY <1>5, <1>6, <1>7, <1>8 DEF SerialInv

LEMMA Stutters == ASSUME TypeInv, SerialInv, UNCHANGED vars PROVE SerialInv'
<1>1. UNCHANGED <<uploads, status, trim, rows, stats, shown, job, handler, writes>>
  BY DEF vars
<1>2. (KeysInv /\ OneAnalysisPerEvent /\ SeenInv)'
  BY <1>1, RowsFrame DEF SerialInv, SeenInv
<1>3. StatusInv'
  BY <1>1, SameGuarded, StatusFrame DEF SerialInv, StatusInv
<1>4. ShownInv'
  BY <1>1, SameGuarded, ShownFrame
<1> QED BY <1>2, <1>3, <1>4 DEF SerialInv

LEMMA SerialStart == Init => SerialInv
<1> SUFFICES ASSUME Init PROVE SerialInv
  OBVIOUS
<1>1. rows = {} /\ \A h \in Handlers : handler[h] = Idle
  BY DEF Init
<1>2. KeysInv /\ OneAnalysisPerEvent /\ SeenInv
  BY <1>1, IdleType DEF KeysInv, OneAnalysisPerEvent, SeenInv
<1>3. \A u \in Uploads : status[u] = None /\ Guarded(u) = {}
  BY FreeType DEF Init, Guarded
<1>4. StatusInv
  BY <1>1, <1>3, IdleType, Numbers DEF StatusInv
<1>5. ShownInv
  BY <1>1, IdleType DEF Init, ShownInv, Serving
<1> QED BY <1>2, <1>4, <1>5 DEF SerialInv

LEMMA SerialKept == ASSUME Serial, TypeInv, SerialInv, [Next]_vars PROVE SerialInv'
<1>1. ASSUME NEW j \in Jobs, Progress(j) \/ WindFails(j) \/ PostTimeout(j) PROVE SerialInv'
  BY <1>1, TaskEndingSerial, JobSerial, ServesSerial DEF Progress
<1>2. ASSUME NEW h \in Handlers, Request(h) PROVE SerialInv'
  BY <1>2, AsksSerial, GuardSerial, ReadsSerial, ReplacesSerial, StoresSerial, AppliesSerial DEF Request
<1>3. ASSUME NEW h \in Handlers,
             \/ Ask(h) \/ \E t \in Trims : SetTrim(h, t)
             \/ \E op \in Edits, r \in rows : CheckEdit(h, op, r)
             \/ \E w \in Manual : AddManeuver(h, w)
             \/ \E r \in rows : FillManeuver(h, r)
      PROVE  SerialInv'
  BY <1>3, AsksSerial, ChecksSerial, AddsSerial, FillsSerial
<1> QED BY <1>1, <1>2, <1>3, UploadsSerial, Stutters DEF Next

LEMMA Always == ASSUME Serial PROVE Spec => []IInv
<1>1. Init => IInv
  BY TypeStart, SerialStart DEF IInv
<1>2. IInv /\ [Next]_vars => IInv'
  BY TypeKept, SerialKept DEF IInv
<1> QED BY <1>1, <1>2, PTL DEF Spec

-----------------------------------------------------------------------------
(* The theorems.                                                           *)

\* The session's rows, its jobs and the requests have their types, however
\* many requests the server handles at once.
THEOREM TypeSafety == Spec => []TypeOK
<1>1. TypeInv /\ [Next]_vars => TypeInv'
  BY TypeKept
<1>2. TypeInv => TypeOK
  BY DEF TypeInv
<1> QED BY <1>1, <1>2, TypeStart, PTL DEF Spec

\* Detected rows of one event come from one analysis.
THEOREM AnalysesDoNotMix == ASSUME Serial PROVE Spec => []OneAnalysisPerEvent
<1>1. IInv => OneAnalysisPerEvent
  BY DEF IInv, SerialInv
<1> QED BY <1>1, Always, PTL

\* The status of an upload says running exactly while a guarded task of it is
\* in progress, of which there is one.
THEOREM StatusIsTrue == ASSUME Serial PROVE Spec => []StatusTellsTask
<1>1. ASSUME IInv PROVE StatusTellsTask
  <2>1. ASSUME NEW u \in Uploads PROVE Cardinality(Guarded(u)) <= 1
    <3>1. \A i, j \in Guarded(u) : i = j
      BY <1>1 DEF IInv, SerialInv, StatusInv
    <3>2. CASE Guarded(u) = {}
      BY <3>2, FS_EmptySet
    <3>3. ASSUME NEW j \in Guarded(u) PROVE Cardinality(Guarded(u)) <= 1
      <4>1. Guarded(u) = {j}
        BY <3>1
      <4>2. Cardinality({j}) = 1
        BY FS_Singleton
      <4> QED BY <4>1, <4>2
    <3> QED BY <3>2, <3>3
  <2> QED BY <1>1, <2>1 DEF IInv, SerialInv, StatusInv, StatusTellsTask
<1> QED BY <1>1, Always, PTL

\* The statistics shown are those of the analysis shown, if it found a track.
THEOREM ShownTogether == ASSUME Serial PROVE Spec => []OneAnalysisShown
<1>1. IInv => OneAnalysisShown
  BY DEF IInv, SerialInv, ShownInv, Stated, OneAnalysisShown, AtRest, Serving
<1> QED BY <1>1, Always, PTL

\* A step that changes rows is a callback's, or a user's.
LEMMA RowsChange ==
    ASSUME TypeInv, Next
    PROVE  \/ UNCHANGED rows
           \/ \E h \in Handlers : \/ ReplaceRows(h) \/ ApplyEdit(h)
                                  \/ \E w \in Manual : AddManeuver(h, w)
                                  \/ \E r \in rows : FillManeuver(h, r)
<1>1. \A j \in Jobs : Progress(j) \/ WindFails(j) \/ PostTimeout(j) \/ ImportUpload(j) => UNCHANGED rows
  BY DEF Progress, Dispatch, DispatchRefused, TaskEnds, Compute, Serve, WindFails, PostTimeout, ImportUpload
<1>2. \A h \in Handlers : \/ Ask(h) \/ AskTrimmed(h) \/ Guard(h) \/ ReadRows(h) \/ WriteAnalysis(h)
                          \/ \E t \in Trims : SetTrim(h, t)
                          \/ \E op \in Edits, r \in rows : CheckEdit(h, op, r)
                          => UNCHANGED rows
  BY DEF Ask, AskTrimmed, Guard, ReadRows, WriteAnalysis, SetTrim, CheckEdit
<1> QED BY <1>1, <1>2 DEF Next, NewUpload, Request

\* A row a user has added, corrected or rejected goes only by the user's delete.
THEOREM UsersKeepTheirRows == ASSUME Serial PROVE Spec => UserRowsKept
<1> DEFINE KeptOf(r) == \/ \E s \in rows' : s.key = r.key
                        \/ \E h \in Handlers : Removes(h, r)
<1>1. ASSUME IInv, Next, NEW r \in rows, Touched(r) PROVE KeptOf(r)
  <2>1. TypeInv /\ SerialInv
    BY <1>1 DEF IInv
  <2>2. CASE UNCHANGED rows
    BY <2>2
  <2>3. ASSUME NEW h \in Handlers, ReplaceRows(h) PROVE KeptOf(r)
    BY <1>1, <2>1, <2>3, Reconciles
  <2>4. ASSUME NEW h \in Handlers, ApplyEdit(h) PROVE KeptOf(r)
    BY <2>1, <2>4, Applies
  <2>5. ASSUME NEW h \in Handlers, NEW w \in Manual, AddManeuver(h, w) PROVE KeptOf(r)
    BY <2>5 DEF AddManeuver
  <2>6. ASSUME NEW h \in Handlers, NEW q \in rows, FillManeuver(h, q) PROVE KeptOf(r)
    BY <2>1, <2>6, Fills DEF Alike
  <2> QED BY <1>1, <2>1, <2>2, <2>3, <2>4, <2>5, <2>6, RowsChange
<1>2. IInv /\ [Next]_vars => [\A r \in rows : Touched(r) => KeptOf(r)]_vars
  BY <1>1
<1>3. Spec => []IInv
  BY Always
<1> QED BY <1>2, <1>3, PTL DEF Spec, UserRowsKept

\* A re-detected event is never inserted beside a row the user has touched.
THEOREM UsersRowsWin == ASSUME Serial PROVE Spec => UserRowsWin
<1> DEFINE Apart(r) == (\A s \in rows : s.key # r.key) /\ r.source = "detected" =>
                          \A p \in rows : Touched(p) => ~SameEvent(r.key.win, p.key.win)
<1>1. ASSUME IInv, Next, NEW r \in rows' PROVE Apart(r)
  <2>1. TypeInv /\ SerialInv
    BY <1>1 DEF IInv
  <2>2. CASE UNCHANGED rows
    BY <2>2
  <2>3. ASSUME NEW h \in Handlers, ReplaceRows(h) PROVE Apart(r)
    BY <2>1, <2>3, Reconciles
  <2>4. ASSUME NEW h \in Handlers, ApplyEdit(h) PROVE Apart(r)
    BY <2>1, <2>4, Applies DEF Alike
  <2>5. ASSUME NEW h \in Handlers, NEW w \in Manual, AddManeuver(h, w) PROVE Apart(r)
    <3>1. rows' = rows \cup {Added(w, writes + 1)} /\ Added(w, writes + 1).source = "manual"
      BY <2>5 DEF AddManeuver, Added, Detected
    <3> QED BY <3>1
  <2>6. ASSUME NEW h \in Handlers, NEW q \in rows, FillManeuver(h, q) PROVE Apart(r)
    BY <2>1, <2>6, Fills DEF Alike
  <2> QED BY <1>1, <2>1, <2>2, <2>3, <2>4, <2>5, <2>6, RowsChange
<1>2. IInv /\ [Next]_vars => [\A r \in rows' : Apart(r)]_vars
  BY <1>1
<1>3. Spec => []IInv
  BY Always
<1> QED BY <1>2, <1>3, PTL DEF Spec, UserRowsWin
=============================================================================
