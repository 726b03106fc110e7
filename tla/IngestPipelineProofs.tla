------------------------ MODULE IngestPipelineProofs ------------------------
(***************************************************************************)
(* What is proved of IngestPipeline.  For every instance and with all its  *)
(* faults: the types, also of the locals that the program counters keep;   *)
(* an upload shown as processed has a stream row, every row names a stored *)
(* object, the pipeline implements StreamCatalog, and points leave an      *)
(* object only by an invocation that could not or did not read them.  For  *)
(* one invocation at a time with prompt answers: rows describe their       *)
(* objects, and the status is the uploads' aggregate.                      *)
(***************************************************************************)
EXTENDS IngestPipeline, TLAPS

Busy == {"parse", "read", "write", "post", "wait"}
Ingesting == {"readRows", "writeRows", "status", "readWindow", "writeWindow"}
Handling == Ingesting \cup {"report", "readStatuses", "writeStatus"}

\* What the program counter says of an invocation's and a handler's locals.
WorkerInv ==
    \A w \in Workers :
        /\ worker[w].pc \in Busy => worker[w].run \in Run
        /\ worker[w].pc \in {"read", "write"} => SensorOf[worker[w].run.file] # None
        /\ worker[w].pc \in {"post", "wait"} => worker[w].call \in Callback

ThreadInv ==
    \A t \in Threads :
        /\ thread[t].pc \in Handling => thread[t].req \in Request
        /\ thread[t].pc \in Ingesting => thread[t].req \in Callback
        /\ thread[t].pc = "report" => thread[t].req \in Reports

Typed == TypeOK /\ WorkerInv /\ ThreadInv

USE NoneAssumption, ShapeAssumption, ReportAssumption

LEMMA AggregateIsStatus == ASSUME NEW S PROVE Aggregate(S) \in Statuses
BY DEF Aggregate, Statuses

LEMMA NextAttemptTyped ==
    ASSUME NEW rec \in WorkerRecord, rec.call \in Callback
    PROVE  /\ NextAttempt(rec) \in WorkerRecord
           /\ NextAttempt(rec).run = rec.run
           /\ NextAttempt(rec).call \in Callback
           /\ NextAttempt(rec).pc \in {"post", "done"}
<1>1. CASE rec.call.attempt < MaxAttempts
  <2>1. rec.call.attempt + 1 \in 1..MaxAttempts
    BY <1>1 DEF Callback
  <2>2. [rec.call EXCEPT !.attempt = @ + 1] \in Callback
    BY <2>1 DEF Callback
  <2>3. NextAttempt(rec) = [rec EXCEPT !.pc = "post", !.call = [rec.call EXCEPT !.attempt = @ + 1]]
    BY <1>1 DEF NextAttempt, WorkerRecord
  <2> QED BY <2>2, <2>3 DEF WorkerRecord, WorkerPC, Maybe
<1>2. CASE ~(rec.call.attempt < MaxAttempts)
  BY <1>2 DEF NextAttempt, WorkerRecord, WorkerPC
<1> QED BY <1>1, <1>2

LEMMA TypedInit == Init => Typed
BY DEF Init, Typed, TypeOK, WorkerInv, ThreadInv, Statuses, Maybe, WorkerRecord, ThreadRecord,
       FreeWorker, FreeThread, WorkerPC, ThreadPC, Busy, Ingesting, Handling

\* A step that changes one invocation and no thread.
LEMMA OneWorker ==
    ASSUME Typed, NEW w \in Workers, NEW rec \in WorkerRecord,
           worker' = [worker EXCEPT ![w] = rec],
           rec.pc \in Busy => rec.run \in Run,
           rec.pc \in {"read", "write"} => SensorOf[rec.run.file] # None,
           rec.pc \in {"post", "wait"} => rec.call \in Callback
    PROVE  worker' \in [Workers -> WorkerRecord] /\ WorkerInv'
BY DEF Typed, TypeOK, WorkerInv

\* A step that changes one thread and no invocation.
LEMMA OneThread ==
    ASSUME Typed, NEW t \in Threads, NEW rec \in ThreadRecord,
           thread' = [thread EXCEPT ![t] = rec],
           rec.pc \in Handling => rec.req \in Request,
           rec.pc \in Ingesting => rec.req \in Callback,
           rec.pc = "report" => rec.req \in Reports
    PROVE  thread' \in [Threads -> ThreadRecord] /\ ThreadInv'
BY DEF Typed, TypeOK, ThreadInv

LEMMA FreeRecords == FreeWorker \in WorkerRecord /\ FreeThread \in ThreadRecord
BY DEF FreeWorker, FreeThread, WorkerRecord, ThreadRecord, WorkerPC, ThreadPC, Maybe

LEMMA ReplyTyped ==
    ASSUME Typed, NEW q, NEW ok \in BOOLEAN, Reply(q, ok)
    PROVE  worker' \in [Workers -> WorkerRecord] /\ WorkerInv'
<1>1. ASSUME NEW w \in Workers
      PROVE  /\ worker'[w] \in WorkerRecord
             /\ worker'[w].pc \in Busy => worker'[w].run \in Run
             /\ worker'[w].pc \in {"read", "write"} => SensorOf[worker'[w].run.file] # None
             /\ worker'[w].pc \in {"post", "wait"} => worker'[w].call \in Callback
  <2>0. /\ worker[w] \in WorkerRecord
        /\ worker[w].pc \in Busy => worker[w].run \in Run
        /\ worker[w].pc \in {"read", "write"} => SensorOf[worker[w].run.file] # None
        /\ worker[w].pc \in {"post", "wait"} => worker[w].call \in Callback
    BY DEF Typed, TypeOK, WorkerInv
  <2>1. CASE worker[w].pc = "wait" /\ worker[w].call = q /\ ok
    <3>1. worker'[w] = [worker[w] EXCEPT !.pc = "done"]
      BY <2>1 DEF Reply
    <3> QED BY <2>0, <3>1 DEF WorkerRecord, WorkerPC, Busy
  <2>2. CASE worker[w].pc = "wait" /\ worker[w].call = q /\ ~ok
    <3>1. worker'[w] = NextAttempt(worker[w])
      BY <2>2 DEF Reply
    <3> QED BY <2>0, <2>2, <3>1, NextAttemptTyped DEF Busy
  <2>3. CASE ~(worker[w].pc = "wait" /\ worker[w].call = q)
    <3>1. worker'[w] = worker[w]
      BY <2>3 DEF Reply
    <3> QED BY <2>0, <3>1
  <2> QED BY <2>1, <2>2, <2>3
<1>2. worker' = [w \in Workers |-> worker'[w]]
  BY DEF Reply
<1> QED BY <1>1, <1>2 DEF WorkerInv

LEMMA FinishTyped ==
    ASSUME Typed, NEW t \in Threads, NEW ok \in BOOLEAN, Finish(t, ok)
    PROVE  /\ worker' \in [Workers -> WorkerRecord] /\ WorkerInv'
           /\ thread' \in [Threads -> ThreadRecord] /\ ThreadInv'
<1>1. worker' \in [Workers -> WorkerRecord] /\ WorkerInv'
  BY ReplyTyped DEF Finish
<1>2. thread' \in [Threads -> ThreadRecord] /\ ThreadInv'
  BY OneThread, FreeRecords DEF Finish, FreeThread, Handling, Ingesting
<1> QED BY <1>1, <1>2

LEMMA GotoTyped ==
    ASSUME Typed, NEW t \in Threads, NEW pc \in ThreadPC, Goto(t, pc),
           pc \in Handling => thread[t].req \in Request,
           pc \in Ingesting => thread[t].req \in Callback,
           pc = "report" => thread[t].req \in Reports
    PROVE  thread' \in [Threads -> ThreadRecord] /\ ThreadInv'
<1> DEFINE rec == [thread[t] EXCEPT !.pc = pc]
<1>0. thread[t] \in ThreadRecord
  BY DEF Typed, TypeOK
<1>1. rec \in ThreadRecord /\ rec.pc = pc /\ rec.req = thread[t].req
  BY <1>0 DEF ThreadRecord
<1>2. thread' = [thread EXCEPT ![t] = rec]
  BY DEF Goto
<1> HIDE DEF rec
<1> QED BY <1>1, <1>2, OneThread

\* Steps of the device and of the background task.
LEMMA TypedEnvironment ==
    ASSUME Typed,
           \/ \E u \in Uploads : OpenUpload(u)
           \/ \E f \in Files : PutFile(f)
           \/ \E q \in Reports : SendReport(q)
           \/ DeleteSession
    PROVE  Typed'
<1>1. ASSUME NEW u \in Uploads, OpenUpload(u) PROVE Typed'
  BY <1>1 DEF OpenUpload, Typed, TypeOK, WorkerInv, ThreadInv, Statuses
<1>2. ASSUME NEW f \in Files, PutFile(f) PROVE Typed'
  <2>1. puts[f] + 1 \in 1..MaxPuts
    BY <1>2 DEF PutFile, Typed, TypeOK
  <2>2. puts' \in [Files -> 0..MaxPuts]
    BY <1>2, <2>1 DEF PutFile, Typed, TypeOK
  <2>3. events' \subseteq Run
    BY <1>2, <2>1 DEF PutFile, Typed, TypeOK, Run
  <2> QED BY <1>2, <2>2, <2>3 DEF PutFile, Typed, TypeOK, WorkerInv, ThreadInv
<1>3. ASSUME NEW q \in Reports, SendReport(q) PROVE Typed'
  BY <1>3 DEF SendReport, Typed, TypeOK, WorkerInv, ThreadInv, Request
<1>4. CASE DeleteSession
  BY <1>4 DEF DeleteSession, Typed, TypeOK, WorkerInv, ThreadInv
<1> QED BY <1>1, <1>2, <1>3, <1>4

LEMMA TypedInvocation ==
    ASSUME Typed,
           \/ \E t \in Threads :
                 \/ \E e \in events : InvokeRefused(t, e) \/ \E w \in Workers : Invoke(t, e, w)
                 \/ InvokeTimeout(t)
           \/ \E w \in Workers : Return(w) \/ Crash(w)
    PROVE  Typed'
<1>1. ASSUME NEW t \in Threads, NEW e \in events, InvokeRefused(t, e) PROVE Typed'
  BY <1>1 DEF InvokeRefused, Typed, TypeOK, WorkerInv, ThreadInv
<1>2. ASSUME NEW t \in Threads, NEW e \in events, NEW w \in Workers, Invoke(t, e, w) PROVE Typed'
  <2> DEFINE trec == [FreeThread EXCEPT !.pc = "invoke", !.worker = w]
             wrec == [FreeWorker EXCEPT !.pc = "parse", !.run = e]
  <2>1. e \in Run
    BY DEF Typed, TypeOK
  <2>2. trec \in ThreadRecord /\ trec.pc = "invoke"
    BY DEF FreeThread, ThreadRecord, ThreadPC, Maybe
  <2>3. wrec \in WorkerRecord /\ wrec.pc = "parse" /\ wrec.run = e
    BY <2>1 DEF FreeWorker, WorkerRecord, WorkerPC, Maybe
  <2>4. thread' = [thread EXCEPT ![t] = trec] /\ worker' = [worker EXCEPT ![w] = wrec]
    BY <1>2 DEF Invoke
  <2> HIDE DEF trec, wrec
  <2>5. worker' \in [Workers -> WorkerRecord] /\ WorkerInv'
    BY <2>1, <2>3, <2>4, OneWorker
  <2>6. thread' \in [Threads -> ThreadRecord] /\ ThreadInv'
    BY <2>2, <2>4, OneThread DEF Handling, Ingesting
  <2> QED BY <1>2, <2>5, <2>6 DEF Invoke, Typed, TypeOK
<1>3. ASSUME NEW t \in Threads, InvokeTimeout(t) PROVE Typed'
  <2>1. thread' \in [Threads -> ThreadRecord] /\ ThreadInv'
    BY <1>3, OneThread, FreeRecords DEF InvokeTimeout, FreeThread, Handling, Ingesting
  <2> QED BY <1>3, <2>1 DEF InvokeTimeout, Typed, TypeOK, WorkerInv
<1>4. ASSUME NEW w \in Workers, Return(w) PROVE Typed'
  <2>1. worker' \in [Workers -> WorkerRecord] /\ WorkerInv'
    BY <1>4, OneWorker, FreeRecords DEF Return, FreeWorker, Busy
  <2>2. thread' \in [Threads -> ThreadRecord] /\ ThreadInv'
    BY <1>4, FreeRecords DEF Return, Typed, TypeOK, ThreadInv, FreeThread, Handling, Ingesting
  <2> QED BY <1>4, <2>1, <2>2 DEF Return, Typed, TypeOK
<1>5. ASSUME NEW w \in Workers, Crash(w) PROVE Typed'
  <2> DEFINE rec == [FreeWorker EXCEPT !.pc = "done"]
  <2>1. rec \in WorkerRecord /\ rec.pc = "done"
    BY DEF FreeWorker, WorkerRecord, WorkerPC, Maybe
  <2>2. worker' = [worker EXCEPT ![w] = rec]
    BY <1>5 DEF Crash
  <2> HIDE DEF rec
  <2>3. worker' \in [Workers -> WorkerRecord] /\ WorkerInv'
    BY <2>1, <2>2, OneWorker DEF Busy
  <2> QED BY <1>5, <2>3 DEF Crash, Typed, TypeOK, ThreadInv
<1> QED BY <1>1, <1>2, <1>3, <1>4, <1>5

\* process_file and its callback.
LEMMA CallTyped ==
    ASSUME Typed, NEW w \in Workers, worker[w].pc \in {"parse", "read", "write"},
           SensorOf[worker[w].run.file] # None,
           NEW st \in {"processed", "failed"}, NEW pts \in SUBSET Files,
           NEW lo \in Maybe(Nat), NEW hi \in Maybe(Nat)
    PROVE  [worker[w] EXCEPT !.pc = "post", !.call = Report1(w, st, pts, lo, hi)]
               \in WorkerRecord
           /\ Report1(w, st, pts, lo, hi) \in Callback
<1>1. worker[w] \in WorkerRecord /\ worker[w].run \in Run
  BY DEF Typed, TypeOK, WorkerInv, Busy
<1>2. Report1(w, st, pts, lo, hi) \in Callback
  BY <1>1 DEF Report1, Callback, Run, SensorFiles
<1> HIDE DEF Report1
<1> QED BY <1>1, <1>2 DEF WorkerRecord, WorkerPC, Maybe

\* An invocation that ends, whatever it was at.
LEMMA EndTyped ==
    ASSUME Typed, NEW w \in Workers, worker' = [worker EXCEPT ![w].pc = "done"]
    PROVE  worker' \in [Workers -> WorkerRecord] /\ WorkerInv'
<1> DEFINE rec == [worker[w] EXCEPT !.pc = "done"]
<1>0. worker[w] \in WorkerRecord
  BY DEF Typed, TypeOK
<1>1. rec \in WorkerRecord /\ rec.pc = "done"
  BY <1>0 DEF WorkerRecord, WorkerPC
<1>2. worker' = [worker EXCEPT ![w] = rec]
  OBVIOUS
<1> HIDE DEF rec
<1> QED BY <1>1, <1>2, OneWorker DEF Busy

LEMMA TypedWorker ==
    ASSUME Typed, NEW w \in Workers,
           Parse(w) \/ ReadBlob(w) \/ WriteBlob(w) \/ PutFails(w) \/ Post(w) \/ Timeout(w)
    PROVE  Typed'
<1>0. worker[w] \in WorkerRecord
      /\ (worker[w].pc \in Busy => worker[w].run \in Run)
      /\ (worker[w].pc \in {"read", "write"} => SensorOf[worker[w].run.file] # None)
      /\ (worker[w].pc \in {"post", "wait"} => worker[w].call \in Callback)
  BY DEF Typed, TypeOK, WorkerInv
<1>1. CASE Parse(w)
  <2> DEFINE f == worker[w].run.file
  <2>0. worker[w].pc = "parse" /\ worker[w].run \in Run /\ f \in Files
    BY <1>0, <1>1 DEF Parse, Busy, Run
  <2>1. worker' \in [Workers -> WorkerRecord] /\ WorkerInv'
    <3>1. CASE SensorOf[f] = None /\ worker' = [worker EXCEPT ![w].pc = "done"]
      <4> DEFINE rec == [worker[w] EXCEPT !.pc = "done"]
      <4>1. rec \in WorkerRecord /\ rec.pc = "done"
        BY <1>0 DEF WorkerRecord, WorkerPC
      <4>2. worker' = [worker EXCEPT ![w] = rec]
        BY <3>1
      <4> HIDE DEF rec
      <4> QED BY <4>1, <4>2, OneWorker DEF Busy
    <3>2. CASE /\ SensorOf[f] # None
               /\ worker' = [worker EXCEPT ![w].pc = "post",
                                 ![w].call = Report1(w, "failed", {}, None, None)]
      <4> DEFINE rec == [worker[w] EXCEPT !.pc = "post", !.call = Report1(w, "failed", {}, None, None)]
      <4>1. rec \in WorkerRecord /\ Report1(w, "failed", {}, None, None) \in Callback
        BY <2>0, <3>2, CallTyped DEF Maybe
      <4>2. worker' = [worker EXCEPT ![w] = rec]
        BY <3>2
      <4>3. rec.pc = "post" /\ rec.run = worker[w].run
            /\ rec.call = Report1(w, "failed", {}, None, None)
        BY <1>0 DEF WorkerRecord
      <4> HIDE DEF rec
      <4> QED BY <2>0, <4>1, <4>2, <4>3, OneWorker
    <3>3. CASE SensorOf[f] # None /\ worker' = [worker EXCEPT ![w].pc = "read"]
      <4> DEFINE rec == [worker[w] EXCEPT !.pc = "read"]
      <4>1. rec \in WorkerRecord /\ rec.pc = "read" /\ rec.run = worker[w].run
        BY <1>0 DEF WorkerRecord, WorkerPC
      <4>2. worker' = [worker EXCEPT ![w] = rec]
        BY <3>3
      <4>3. SensorOf[rec.run.file] # None
        BY <3>3, <4>1
      <4> HIDE DEF rec
      <4> QED BY <2>0, <4>1, <4>2, <4>3, OneWorker
    <3> QED BY <1>1, <3>1, <3>2, <3>3 DEF Parse
  <2> QED BY <1>1, <2>1 DEF Parse, Typed, TypeOK, ThreadInv
<1>2. CASE ReadBlob(w)
  <2> DEFINE f == worker[w].run.file
  <2>0. /\ worker[w].pc = "read" /\ worker[w].run \in Run /\ f \in Files
        /\ SensorOf[f] \in Sensors
    BY <1>0, <1>2 DEF ReadBlob, Busy, Run, Maybe
  <2>1. Stored(Object(w)) \in SUBSET Files
    BY <2>0 DEF Stored, Object, Typed, TypeOK, Maybe
  <2>2. PICK seen \in SUBSET Files : worker' = [worker EXCEPT ![w].pc = "write", ![w].seen = seen]
    BY <1>2, <2>1 DEF ReadBlob
  <2> DEFINE rec == [worker[w] EXCEPT !.pc = "write", !.seen = seen]
  <2>3. rec \in WorkerRecord /\ rec.pc = "write" /\ rec.run = worker[w].run
    BY <1>0, <2>2 DEF WorkerRecord, WorkerPC
  <2>4. worker' = [worker EXCEPT ![w] = rec]
    BY <2>2
  <2> HIDE DEF rec
  <2>5. worker' \in [Workers -> WorkerRecord] /\ WorkerInv'
    BY <1>0, <2>0, <2>3, <2>4, OneWorker
  <2>6. behind' \subseteq Workers
    BY <1>2 DEF ReadBlob, Typed, TypeOK
  <2> QED BY <1>2, <2>5, <2>6 DEF ReadBlob, Typed, TypeOK, ThreadInv
<1>3. CASE WriteBlob(w)
  <2> DEFINE f == worker[w].run.file
             merged == worker[w].seen \cup Parsed(f)
  <2>0. /\ worker[w].pc = "write" /\ worker[w].run \in Run /\ f \in Files
        /\ SensorOf[f] \in Sensors /\ SensorOf[f] # None /\ merged \in SUBSET Files
    <3>1. worker[w].pc = "write"
      BY <1>3 DEF WriteBlob
    <3>2. worker[w].seen \in SUBSET Files /\ worker[w].run \in Run /\ SensorOf[f] # None
      BY <1>0, <3>1 DEF WorkerRecord, Busy
    <3> QED BY <3>1, <3>2 DEF Run, Maybe, Parsed
  <2>1. blob' \in [Uploads -> [Sensors -> Maybe(SUBSET Files)]]
    <3>1. blob' = [blob EXCEPT ![UploadOf[f]][SensorOf[f]] = merged]
      BY <1>3 DEF WriteBlob
    <3> HIDE DEF merged
    <3> QED BY <2>0, <3>1 DEF Typed, TypeOK, Maybe
  <2>2. behind' \subseteq Workers
    BY <1>3 DEF WriteBlob, Overtaken, Typed, TypeOK
  <2>3. ASSUME NEW pts \in SUBSET Files, NEW lo \in Maybe(Nat), NEW hi \in Maybe(Nat),
               worker' = [worker EXCEPT ![w].pc = "post",
                                        ![w].call = Report1(w, "processed", pts, lo, hi)]
        PROVE  worker' \in [Workers -> WorkerRecord] /\ WorkerInv'
    <3> DEFINE rec == [worker[w] EXCEPT !.pc = "post",
                                        !.call = Report1(w, "processed", pts, lo, hi)]
    <3>1. rec \in WorkerRecord /\ Report1(w, "processed", pts, lo, hi) \in Callback
      BY <2>0, CallTyped
    <3>2. rec.pc = "post" /\ rec.run = worker[w].run /\ rec.call \in Callback
      BY <1>0, <3>1 DEF WorkerRecord
    <3>3. worker' = [worker EXCEPT ![w] = rec]
      BY <2>3
    <3> HIDE DEF rec
    <3> QED BY <2>0, <3>1, <3>2, <3>3, OneWorker
  <2>4. worker' \in [Workers -> WorkerRecord] /\ WorkerInv'
    <3>1. CASE worker' = [worker EXCEPT ![w].pc = "post",
                            ![w].call = Report1(w, "processed", {}, None, None)]
      BY <2>3, <3>1 DEF Maybe
    <3>2. ASSUME NEW first \in merged, NEW last \in merged,
                 worker' = [worker EXCEPT ![w].pc = "post",
                    ![w].call = Report1(w, "processed", merged, Span[first].lo, Span[last].hi)]
          PROVE  worker' \in [Workers -> WorkerRecord] /\ WorkerInv'
      <4>1. Span[first].lo \in Maybe(Nat) /\ Span[last].hi \in Maybe(Nat)
        BY <2>0, <3>2 DEF Maybe
      <4> HIDE DEF merged
      <4> QED BY <2>0, <2>3, <3>2, <4>1
    <3>3. CASE worker' = [worker EXCEPT ![w].pc = "done"]
      BY <3>3, EndTyped
    <3> QED BY <1>3, <3>1, <3>2, <3>3 DEF WriteBlob
  <2> QED BY <1>3, <2>1, <2>2, <2>4 DEF WriteBlob, Typed, TypeOK, ThreadInv
<1>7. CASE PutFails(w)
  BY <1>7, EndTyped DEF PutFails, Typed, TypeOK, ThreadInv
<1>4. CASE Post(w)
  <2> DEFINE rec == [worker[w] EXCEPT !.pc = "wait"]
  <2>0. worker[w].pc = "post" /\ worker[w].call \in Callback /\ worker[w].run \in Run
    BY <1>0, <1>4 DEF Post, Busy
  <2>1. rec \in WorkerRecord /\ rec.pc = "wait" /\ rec.run = worker[w].run
        /\ rec.call = worker[w].call
    BY <1>0 DEF WorkerRecord, WorkerPC
  <2>2. worker' = [worker EXCEPT ![w] = rec]
    BY <1>4 DEF Post
  <2> HIDE DEF rec
  <2>3. worker' \in [Workers -> WorkerRecord] /\ WorkerInv'
    BY <2>0, <2>1, <2>2, OneWorker
  <2> QED BY <1>4, <2>0, <2>3 DEF Post, Typed, TypeOK, ThreadInv, Request
<1>5. CASE Timeout(w)
  <2>0. worker[w].pc = "wait" /\ worker[w].call \in Callback /\ worker[w].run \in Run
    BY <1>0, <1>5 DEF Timeout, Busy
  <2>1. worker' = [worker EXCEPT ![w] = NextAttempt(worker[w])]
    BY <1>5 DEF Timeout
  <2>2. worker' \in [Workers -> WorkerRecord] /\ WorkerInv'
    BY <1>0, <2>0, <2>1, NextAttemptTyped, OneWorker
  <2> QED BY <1>5, <2>2 DEF Timeout, Typed, TypeOK, ThreadInv
<1> QED BY <1>1, <1>2, <1>3, <1>4, <1>5, <1>7

\* One leaf per transaction of a request handler.
LEMMA TypedHandler ==
    ASSUME Typed, NEW t \in Threads,
           (\E q \in queue : Load(t, q)) \/ Handler(t)
    PROVE  Typed'
<1>0. /\ thread[t] \in ThreadRecord
      /\ thread[t].pc \in Handling => thread[t].req \in Request
      /\ thread[t].pc \in Ingesting => thread[t].req \in Callback
      /\ thread[t].pc = "report" => thread[t].req \in Reports
  BY DEF Typed, TypeOK, ThreadInv
<1>a. \A q \in Request : q.upload \in Uploads /\ q.status \in Maybe(Statuses)
  BY DEF Request, Report, Callback, Maybe, Statuses
<1>b. \A q \in Callback : /\ q.status \in Statuses
                         /\ q.lo \in Maybe(Nat) /\ q.hi \in Maybe(Nat)
                         /\ q.file \in Files /\ SensorOf[q.file] \in Sensors
                         /\ q.points \in SUBSET Files
  BY DEF Callback, Statuses, SensorFiles, Maybe
<1>1. ASSUME NEW q \in queue, Load(t, q) PROVE Typed'
  <2>0. q \in Request /\ queue' \subseteq Request
    BY <1>1 DEF Load, Typed, TypeOK
  <2>1. CASE Reply(q, FALSE) /\ UNCHANGED thread
    BY <1>1, <2>0, <2>1, ReplyTyped DEF Load, Typed, TypeOK, ThreadInv
  <2>2. CASE Present(q.upload) /\ UNCHANGED worker
    <3> DEFINE pc == IF ~IsCallback(q) THEN "report"
                     ELSE IF q.status = "processed" THEN "readRows" ELSE "status"
               rec == [FreeThread EXCEPT !.pc = pc, !.req = q, !.saw = upload[q.upload]]
    <3>1. upload[q.upload] \in Statuses
      BY <1>a, <2>0, <2>2 DEF Present, Typed, TypeOK
    <3>2. pc \in ThreadPC /\ (pc \in Ingesting => q \in Callback) /\ (pc = "report" => q \in Reports)
      BY <2>0 DEF ThreadPC, Ingesting, IsCallback, Request
    <3> HIDE DEF pc
    <3>3. rec \in ThreadRecord /\ rec.pc = pc /\ rec.req = q
      BY <2>0, <3>1, <3>2 DEF FreeThread, ThreadRecord, Maybe
    <3>4. thread' = [thread EXCEPT ![t] = rec]
      BY <1>1, <2>2 DEF Load, pc
    <3> HIDE DEF rec
    <3>5. thread' \in [Threads -> ThreadRecord] /\ ThreadInv'
      BY <2>0, <3>2, <3>3, <3>4, OneThread
    <3> QED BY <1>1, <2>0, <2>2, <3>5 DEF Load, Typed, TypeOK, WorkerInv
  <2> QED BY <1>1, <2>1, <2>2 DEF Load
<1>2. CASE ReadRows(t)
  <2> DEFINE q == thread[t].req
             seen == {r \in rows : r.upload = q.upload /\ r.sensor = SensorOf[q.file]}
             rec == [thread[t] EXCEPT !.pc = "writeRows", !.rows = seen]
  <2>0. thread[t].pc = "readRows" /\ thread[t].req \in Callback
    BY <1>0, <1>2 DEF ReadRows, Ingesting
  <2>1. seen \in SUBSET Row
    BY DEF Typed, TypeOK
  <2> HIDE DEF seen
  <2>2. rec \in ThreadRecord /\ rec.pc = "writeRows" /\ rec.req = thread[t].req
    BY <1>0, <2>1 DEF ThreadRecord, ThreadPC
  <2>3. thread' = [thread EXCEPT ![t] = rec]
    BY <1>2 DEF ReadRows, seen
  <2> HIDE DEF rec
  <2>4. thread' \in [Threads -> ThreadRecord] /\ ThreadInv'
    BY <2>0, <2>2, <2>3, OneThread DEF Request
  <2> QED BY <1>2, <2>4 DEF ReadRows, Typed, TypeOK, WorkerInv
<1>3. CASE WriteRows(t)
  <2> DEFINE q == thread[t].req
             new == [upload |-> q.upload, sensor |-> SensorOf[q.file],
                     points |-> q.points, by |-> q]
  <2>0. thread[t].pc = "writeRows" /\ q \in Callback /\ q \in Request
    BY <1>0, <1>3 DEF WriteRows, Ingesting, Request
  <2>1. CASE rows' = (rows \ thread[t].rows) \cup {new} /\ Goto(t, "status") /\ UNCHANGED worker
    <3>1. new \in Row
      BY <1>a, <1>b, <2>0 DEF Row
    <3>2. rows' \subseteq Row
      BY <2>1, <3>1 DEF Typed, TypeOK
    <3>3. thread' \in [Threads -> ThreadRecord] /\ ThreadInv'
      BY <2>0, <2>1, GotoTyped DEF ThreadPC
    <3> QED BY <1>3, <2>1, <3>2, <3>3 DEF WriteRows, Typed, TypeOK, WorkerInv
  <2>2. CASE Finish(t, FALSE) /\ UNCHANGED rows
    BY <1>3, <2>2, FinishTyped DEF WriteRows, Typed, TypeOK
  <2> QED BY <1>3, <2>1, <2>2 DEF WriteRows
<1>4. CASE SetStatus(t)
  <2> DEFINE q == thread[t].req
  <2>0. thread[t].pc = "status" /\ q \in Callback /\ q \in Request
    BY <1>0, <1>4 DEF SetStatus, Ingesting, Request
  <2>1. upload' \in [Uploads -> Statuses \cup {"absent", "gone"}]
    BY <1>4, <1>a, <1>b, <2>0 DEF SetStatus, SetUpload, Typed, TypeOK
  <2>2. thread' \in [Threads -> ThreadRecord] /\ ThreadInv'
    <3> DEFINE pc == IF q.lo # None \/ q.hi # None THEN "readWindow" ELSE "readStatuses"
    <3>1. pc \in ThreadPC /\ Goto(t, pc)
      BY <1>4 DEF SetStatus, ThreadPC
    <3>2. pc # "report"
      OBVIOUS
    <3> HIDE DEF pc
    <3> QED BY <2>0, <3>1, <3>2, GotoTyped
  <2> QED BY <1>4, <2>1, <2>2 DEF SetStatus, Typed, TypeOK, WorkerInv
<1>5. CASE ApplyReport(t)
  <2> DEFINE q == thread[t].req
  <2>0. thread[t].pc = "report" /\ q \in Reports /\ q \in Request /\ q.final \in Maybe(BOOLEAN)
    BY <1>0, <1>5 DEF ApplyReport, Request, Report
  <2>1. upload' \in [Uploads -> Statuses \cup {"absent", "gone"}]
    BY <1>5, <1>a, <2>0 DEF ApplyReport, SetUpload, Typed, TypeOK, Maybe
  <2>2. final' \in [Uploads -> BOOLEAN]
    BY <1>5, <1>a, <2>0 DEF ApplyReport, Typed, TypeOK, Maybe
  <2>3. CASE Goto(t, "readStatuses") /\ UNCHANGED worker
    <3>1. thread' \in [Threads -> ThreadRecord] /\ ThreadInv'
      BY <2>0, <2>3, GotoTyped DEF ThreadPC, Ingesting
    <3> QED BY <1>5, <2>1, <2>2, <2>3, <3>1 DEF ApplyReport, Typed, TypeOK, WorkerInv
  <2>4. CASE Finish(t, TRUE)
    BY <1>5, <2>1, <2>2, <2>4, FinishTyped DEF ApplyReport, Typed, TypeOK
  <2> QED BY <1>5, <2>3, <2>4 DEF ApplyReport
<1>6. CASE ReadWindow(t)
  <2> DEFINE q == thread[t].req
             lo == IF q.lo # None /\ q.lo < session.lo THEN q.lo ELSE None
             hi == IF q.hi # None /\ (session.hi = None \/ q.hi > session.hi)
                   THEN q.hi ELSE None
             rec == [thread[t] EXCEPT !.pc = "writeWindow", !.lo = lo, !.hi = hi]
  <2>0. thread[t].pc = "readWindow" /\ q \in Callback
    BY <1>0, <1>6 DEF ReadWindow, Ingesting
  <2>1. lo \in Maybe(Nat) /\ hi \in Maybe(Nat)
    BY <1>b, <2>0 DEF Maybe
  <2> HIDE DEF lo, hi
  <2>2. rec \in ThreadRecord /\ rec.pc = "writeWindow" /\ rec.req = thread[t].req
    BY <1>0, <2>1 DEF ThreadRecord, ThreadPC
  <2>3. thread' = [thread EXCEPT ![t] = rec]
    BY <1>6 DEF ReadWindow, lo, hi
  <2> HIDE DEF rec
  <2>4. thread' \in [Threads -> ThreadRecord] /\ ThreadInv'
    BY <2>0, <2>2, <2>3, OneThread DEF Request
  <2> QED BY <1>6, <2>4 DEF ReadWindow, Typed, TypeOK, WorkerInv
<1>7. CASE WriteWindow(t)
  <2>0. thread[t].pc = "writeWindow" /\ thread[t].req \in Request
        /\ thread[t].lo \in Maybe(Nat) /\ thread[t].hi \in Maybe(Nat)
    <3>1. thread[t].pc = "writeWindow"
      BY <1>7 DEF WriteWindow
    <3>2. thread[t].lo \in Maybe(Nat) /\ thread[t].hi \in Maybe(Nat)
      BY <1>0 DEF ThreadRecord
    <3> QED BY <1>0, <3>1, <3>2 DEF Handling, Ingesting
  <2>1. CASE /\ session' = [session EXCEPT
                    !.lo = IF thread[t].lo = None THEN @ ELSE thread[t].lo,
                    !.hi = IF thread[t].hi = None THEN @ ELSE thread[t].hi]
             /\ Goto(t, "readStatuses") /\ UNCHANGED worker
    <3>1. session' \in [live : BOOLEAN, status : Statuses, lo : Nat, hi : Maybe(Nat)]
      BY <2>0, <2>1 DEF Typed, TypeOK, Maybe
    <3>2. thread' \in [Threads -> ThreadRecord] /\ ThreadInv'
      BY <2>0, <2>1, GotoTyped DEF ThreadPC, Ingesting
    <3> QED BY <1>7, <2>1, <3>1, <3>2 DEF WriteWindow, Typed, TypeOK, WorkerInv
  <2>2. CASE Finish(t, FALSE) /\ UNCHANGED session
    BY <1>7, <2>2, FinishTyped DEF WriteWindow, Typed, TypeOK
  <2> QED BY <1>7, <2>1, <2>2 DEF WriteWindow
<1>8. CASE ReadStatuses(t)
  <2> DEFINE new == Aggregate(UploadStatuses)
             next == IF new = session.status THEN None ELSE new
             rec == [thread[t] EXCEPT !.pc = "writeStatus", !.next = next]
  <2>0. thread[t].pc = "readStatuses" /\ thread[t].req \in Request
    BY <1>0, <1>8 DEF ReadStatuses, Handling
  <2>1. CASE thread' = [thread EXCEPT ![t].pc = "writeStatus", ![t].next = next] /\ UNCHANGED worker
    <3>1. next \in Maybe(Statuses)
      BY AggregateIsStatus DEF Maybe
    <3>2. thread' = [thread EXCEPT ![t] = rec]
      BY <2>1
    <3> HIDE DEF next
    <3>3. rec \in ThreadRecord /\ rec.pc = "writeStatus" /\ rec.req = thread[t].req
      BY <1>0, <3>1 DEF ThreadRecord, ThreadPC
    <3> HIDE DEF rec
    <3>4. thread' \in [Threads -> ThreadRecord] /\ ThreadInv'
      BY <2>0, <3>2, <3>3, OneThread DEF Ingesting
    <3> QED BY <1>8, <2>1, <3>4 DEF ReadStatuses, Typed, TypeOK, WorkerInv
  <2>2. CASE Finish(t, TRUE)
    BY <1>8, <2>2, FinishTyped DEF ReadStatuses, Typed, TypeOK
  <2> QED BY <1>8, <2>1, <2>2 DEF ReadStatuses
<1>9. CASE WriteStatus(t)
  <2>1. thread[t].next \in Maybe(Statuses)
    BY <1>0 DEF ThreadRecord
  <2>2. session' \in [live : BOOLEAN, status : Statuses, lo : Nat, hi : Maybe(Nat)]
    BY <1>9, <2>1 DEF WriteStatus, Typed, TypeOK, Maybe
  <2>3. (session.live \/ thread[t].next = None) \in BOOLEAN
    BY DEF Typed, TypeOK
  <2>4. Finish(t, session.live \/ thread[t].next = None)
    BY <1>9 DEF WriteStatus
  <2> QED BY <1>9, <2>2, <2>3, <2>4, FinishTyped DEF WriteStatus, Typed, TypeOK
<1> QED BY <1>1, <1>2, <1>3, <1>4, <1>5, <1>6, <1>7, <1>8, <1>9 DEF Handler

LEMMA TypedNext == Typed /\ [Next]_vars => Typed'
<1> SUFFICES ASSUME Typed, [Next]_vars PROVE Typed'
  OBVIOUS
<1>1. CASE Next
  <2>1. CASE \/ \E u \in Uploads : OpenUpload(u)
             \/ \E f \in Files : PutFile(f)
             \/ \E q \in Reports : SendReport(q)
             \/ DeleteSession
    BY <2>1, TypedEnvironment
  <2>2. ASSUME NEW t \in Threads, Dispatch(t) \/ Handler(t) \/ InvokeTimeout(t) PROVE Typed'
    BY <2>2, TypedInvocation, TypedHandler DEF Dispatch
  <2>3. ASSUME NEW w \in Workers, WorkerStep(w) \/ Timeout(w) \/ Crash(w) PROVE Typed'
    BY <2>3, TypedInvocation, TypedWorker DEF WorkerStep
  <2> QED BY <1>1, <2>1, <2>2, <2>3 DEF Next
<1>2. CASE UNCHANGED vars
  BY <1>2 DEF vars, Typed, TypeOK, WorkerInv, ThreadInv
<1> QED BY <1>1, <1>2

\* Every row, request, blob and local always holds a value of its type, and
\* the locals a handler or an invocation still needs are set.
THEOREM TypeCorrect == Spec => []Typed
BY TypedInit, TypedNext, PTL DEF Spec

\* The type invariant alone.
THEOREM TypeSafety == Spec => []TypeOK
BY TypeCorrect, PTL DEF Typed
-----------------------------------------------------------------------------
(* An upload shown as processed has a stream row.                          *)

HasRow(u) == \E r \in rows : r.upload = u

\* What the steps of a handler rely on, besides the types of its locals.
HandlerOk(t) ==
    LET q == thread[t].req IN
    /\ thread[t].pc \in Handling => upload[q.upload] # "absent"
    /\ thread[t].pc \in {"readRows", "writeRows"} => q.status = "processed"
    /\ thread[t].pc = "writeRows" =>
            \A r \in thread[t].rows : r.upload = q.upload /\ r.sensor = SensorOf[q.file]
    /\ thread[t].pc = "status" /\ q.status = "processed" /\ Present(q.upload) =>
            HasRow(q.upload)

StreamInv == ProcessedHasStream /\ \A t \in Threads : HandlerOk(t)

\* A step after which no upload has lost its place: what a handler knows of
\* its upload stays true.
Benign ==
    \A u \in Uploads : upload[u] # "absent" =>
        /\ upload'[u] # "absent"
        /\ (Present(u))' => Present(u) /\ (HasRow(u) => (HasRow(u))')

LEMMA RequestUpload ==
    ASSUME Typed, NEW t \in Threads, thread[t].pc \in Handling
    PROVE  thread[t].req.upload \in Uploads
BY DEF Typed, TypeOK, ThreadInv, Request, Report, Callback

LEMMA Carry ==
    ASSUME Typed, NEW t \in Threads, HandlerOk(t), thread'[t] = thread[t], Benign
    PROVE  HandlerOk(t)'
<1> DEFINE q == thread[t].req
<1>1. CASE thread[t].pc \notin Handling
  BY <1>1 DEF HandlerOk, Handling, Ingesting
<1>2. CASE thread[t].pc \in Handling
  <2>1. q \in Request /\ q.upload \in Uploads
    BY <1>2, RequestUpload DEF Typed, ThreadInv
  <2>2. upload[q.upload] # "absent"
    BY <1>2 DEF HandlerOk
  <2>3. upload'[q.upload] # "absent"
        /\ ((Present(q.upload))' => Present(q.upload) /\ (HasRow(q.upload) => (HasRow(q.upload))'))
    BY <2>1, <2>2 DEF Benign
  <2> QED BY <2>3 DEF HandlerOk, Present, HasRow
<1> QED BY <1>1, <1>2

LEMMA StreamInit == Init => StreamInv
BY DEF Init, StreamInv, ProcessedHasStream, HandlerOk, FreeThread, Handling, Ingesting

\* A step that leaves uploads and rows alone and only frees threads.
LEMMA StreamQuiet ==
    ASSUME Typed, StreamInv, UNCHANGED <<upload, rows>>,
           \A t \in Threads : thread'[t] = thread[t] \/ thread'[t].pc \notin Handling
    PROVE  StreamInv'
<1>1. Benign
  BY DEF Benign, Present, HasRow
<1>2. ASSUME NEW t \in Threads PROVE HandlerOk(t)'
  <2>1. CASE thread'[t] = thread[t]
    BY <1>1, <2>1, Carry DEF StreamInv
  <2>2. CASE thread'[t].pc \notin Handling
    BY <2>2 DEF HandlerOk, Handling, Ingesting
  <2> QED BY <2>1, <2>2
<1>3. ProcessedHasStream'
  BY DEF StreamInv, ProcessedHasStream
<1> QED BY <1>2, <1>3 DEF StreamInv

\* A step of one handler.
LEMMA StreamOne ==
    ASSUME Typed, StreamInv, NEW t \in Threads, Benign, ProcessedHasStream', HandlerOk(t)',
           \A t2 \in Threads \ {t} : thread'[t2] = thread[t2]
    PROVE  StreamInv'
<1>1. ASSUME NEW t2 \in Threads PROVE HandlerOk(t2)'
  BY Carry DEF StreamInv
<1> QED BY <1>1 DEF StreamInv

LEMMA Others ==
    ASSUME Typed, NEW t \in Threads, NEW rec, thread' = [thread EXCEPT ![t] = rec]
    PROVE  thread'[t] = rec /\ \A t2 \in Threads \ {t} : thread'[t2] = thread[t2]
BY DEF Typed, TypeOK

\* Finish and Goto, seen from HandlerOk.
LEMMA FinishFrees ==
    ASSUME Typed, NEW t \in Threads, NEW ok, Finish(t, ok)
    PROVE  \A t2 \in Threads : thread'[t2] = thread[t2] \/ thread'[t2].pc \notin Handling
BY Others DEF Finish, FreeThread, Handling, Ingesting

LEMMA GotoMoves ==
    ASSUME Typed, NEW t \in Threads, NEW pc, Goto(t, pc)
    PROVE  /\ thread'[t].pc = pc /\ thread'[t].req = thread[t].req
           /\ \A t2 \in Threads \ {t} : thread'[t2] = thread[t2]
<1> DEFINE rec == [thread[t] EXCEPT !.pc = pc]
<1>1. thread[t] \in ThreadRecord
  BY DEF Typed, TypeOK
<1>2. rec.pc = pc /\ rec.req = thread[t].req
  BY <1>1 DEF ThreadRecord
<1>3. thread' = [thread EXCEPT ![t] = rec]
  BY DEF Goto
<1> HIDE DEF rec
<1> QED BY <1>2, <1>3, Others

\* Steps outside the handlers.
LEMMA StreamEnvironment ==
    ASSUME Typed, StreamInv,
           \/ \E u \in Uploads : OpenUpload(u)
           \/ \E f \in Files : PutFile(f)
           \/ \E q \in Reports : SendReport(q)
           \/ DeleteSession
           \/ \E t \in Threads :
                 \/ \E e \in events : InvokeRefused(t, e) \/ \E w \in Workers : Invoke(t, e, w)
                 \/ InvokeTimeout(t)
           \/ \E w \in Workers : WorkerStep(w) \/ Timeout(w) \/ Crash(w)
    PROVE  StreamInv'
<1>1. ASSUME NEW u \in Uploads, OpenUpload(u) PROVE StreamInv'
  <2>1. Benign
    BY <1>1 DEF OpenUpload, Benign, Present, HasRow, Typed, TypeOK
  <2>2. \A t \in Threads : HandlerOk(t)'
    BY <1>1, <2>1, Carry DEF OpenUpload, StreamInv
  <2>3. ProcessedHasStream'
    BY <1>1 DEF OpenUpload, StreamInv, ProcessedHasStream, Typed, TypeOK
  <2> QED BY <2>2, <2>3 DEF StreamInv
<1>2. CASE DeleteSession
  <2>1. Benign
    BY <1>2 DEF DeleteSession, Benign, Present
  <2>2. \A t \in Threads : HandlerOk(t)'
    BY <1>2, <2>1, Carry DEF DeleteSession, StreamInv
  <2>3. ProcessedHasStream'
    BY <1>2 DEF DeleteSession, ProcessedHasStream
  <2> QED BY <2>2, <2>3 DEF StreamInv
<1>3. ASSUME NEW f \in Files, PutFile(f) PROVE StreamInv'
  BY <1>3, StreamQuiet DEF PutFile
<1>4. ASSUME NEW q \in Reports, SendReport(q) PROVE StreamInv'
  BY <1>4, StreamQuiet DEF SendReport
<1>5. ASSUME NEW t \in Threads, NEW e \in events, InvokeRefused(t, e) PROVE StreamInv'
  BY <1>5, StreamQuiet DEF InvokeRefused
<1>6. ASSUME NEW t \in Threads, NEW e \in events, NEW w \in Workers, Invoke(t, e, w)
      PROVE  StreamInv'
  <2> DEFINE rec == [FreeThread EXCEPT !.pc = "invoke", !.worker = w]
  <2>1. rec.pc \notin Handling
    BY DEF FreeThread, Handling, Ingesting
  <2>2. thread' = [thread EXCEPT ![t] = rec]
    BY <1>6 DEF Invoke
  <2> HIDE DEF rec
  <2>3. \A t2 \in Threads : thread'[t2] = thread[t2] \/ thread'[t2].pc \notin Handling
    BY <2>1, <2>2, Others
  <2> QED BY <1>6, <2>3, StreamQuiet DEF Invoke
<1>7. ASSUME NEW t \in Threads, InvokeTimeout(t) PROVE StreamInv'
  <2>1. \A t2 \in Threads : thread'[t2] = thread[t2] \/ thread'[t2].pc \notin Handling
    BY <1>7, Others DEF InvokeTimeout, FreeThread, Handling, Ingesting
  <2> QED BY <1>7, <2>1, StreamQuiet DEF InvokeTimeout
<1>8. ASSUME NEW w \in Workers, Return(w) PROVE StreamInv'
  <2>1. \A t2 \in Threads : thread'[t2] = thread[t2] \/ thread'[t2].pc \notin Handling
    BY <1>8 DEF Return, FreeThread, Handling, Ingesting
  <2> QED BY <1>8, <2>1, StreamQuiet DEF Return
<1>9. ASSUME NEW w \in Workers,
             \/ Parse(w) \/ ReadBlob(w) \/ WriteBlob(w) \/ PutFails(w)
             \/ Post(w) \/ Timeout(w) \/ Crash(w)
      PROVE  StreamInv'
  BY <1>9, StreamQuiet DEF Parse, ReadBlob, WriteBlob, PutFails, Post, Timeout, Crash
<1> QED BY <1>1, <1>2, <1>3, <1>4, <1>5, <1>6, <1>7, <1>8, <1>9 DEF WorkerStep

LEMMA StreamHandler ==
    ASSUME Typed, StreamInv, NEW t \in Threads,
           (\E q \in queue : Load(t, q)) \/ Handler(t)
    PROVE  StreamInv'
<1> DEFINE q == thread[t].req
<1>0. thread[t] \in ThreadRecord /\ HandlerOk(t)
      /\ (thread[t].pc \in Handling => q \in Request /\ q.upload \in Uploads)
      /\ (thread[t].pc \in Ingesting => q \in Callback)
      /\ (thread[t].pc = "report" => q \in Reports)
  BY RequestUpload DEF Typed, TypeOK, ThreadInv, StreamInv
<1>1. ASSUME NEW p \in queue, Load(t, p) PROVE StreamInv'
  <2>1. CASE UNCHANGED thread
    BY <1>1, <2>1, StreamQuiet DEF Load
  <2>2. CASE Present(p.upload) /\ UNCHANGED worker
    <3> DEFINE pc == IF ~IsCallback(p) THEN "report"
                     ELSE IF p.status = "processed" THEN "readRows" ELSE "status"
               rec == [FreeThread EXCEPT !.pc = pc, !.req = p, !.saw = upload[p.upload]]
    <3>1. rec.pc = pc /\ rec.req = p
      BY DEF FreeThread
    <3>2. CASE thread' = [thread EXCEPT ![t] = rec]
      <4>1. /\ pc # "writeRows"
            /\ pc = "readRows" => p.status = "processed"
            /\ pc = "status" => p.status # "processed"
        OBVIOUS
      <4> HIDE DEF pc, rec
      <4>2. thread'[t] = rec /\ \A t2 \in Threads \ {t} : thread'[t2] = thread[t2]
        BY <3>2, Others
      <4>3. HandlerOk(t)'
        BY <1>1, <2>2, <3>1, <4>1, <4>2 DEF Load, HandlerOk, Present
      <4>4. Benign /\ ProcessedHasStream'
        BY <1>1 DEF Load, Benign, Present, HasRow, StreamInv, ProcessedHasStream
      <4> QED BY <4>2, <4>3, <4>4, StreamOne
    <3>3. thread' = thread \/ thread' = [thread EXCEPT ![t] = rec]
      BY <1>1 DEF Load
    <3> QED BY <2>1, <3>2, <3>3
  <2> QED BY <1>1, <2>1, <2>2 DEF Load
<1>2. CASE ReadRows(t)
  <2> DEFINE seen == {r \in rows : r.upload = q.upload /\ r.sensor = SensorOf[q.file]}
             rec == [thread[t] EXCEPT !.pc = "writeRows", !.rows = seen]
  <2>1. rec.pc = "writeRows" /\ rec.req = q /\ rec.rows = seen
    BY <1>0 DEF ThreadRecord
  <2>2. thread' = [thread EXCEPT ![t] = rec]
    BY <1>2 DEF ReadRows
  <2>a. \A r \in seen : r.upload = q.upload /\ r.sensor = SensorOf[q.file]
    OBVIOUS
  <2> HIDE DEF rec, seen
  <2>3. thread'[t] = rec /\ \A t2 \in Threads \ {t} : thread'[t2] = thread[t2]
    BY <2>2, Others
  <2>4. thread[t].pc = "readRows"
    BY <1>2 DEF ReadRows
  <2>5. HandlerOk(t)'
    BY <1>0, <1>2, <2>1, <2>a, <2>3, <2>4 DEF ReadRows, HandlerOk, Handling, Ingesting
  <2>6. Benign /\ ProcessedHasStream'
    BY <1>2 DEF ReadRows, Benign, Present, HasRow, StreamInv, ProcessedHasStream
  <2> QED BY <2>3, <2>5, <2>6, StreamOne
<1>3. CASE WriteRows(t)
  <2> DEFINE new == [upload |-> q.upload, sensor |-> SensorOf[q.file],
                     points |-> q.points, by |-> q]
  <2>1. CASE /\ rows' = (rows \ thread[t].rows) \cup {new} /\ Goto(t, "status")
             /\ UNCHANGED upload
    <3>0. thread[t].pc = "writeRows" /\ q.upload \in Uploads /\ upload[q.upload] # "absent"
          /\ \A r \in thread[t].rows : r.upload = q.upload
      BY <1>0, <1>3 DEF WriteRows, HandlerOk, Handling, Ingesting
    <3>1. new \in rows' /\ new.upload = q.upload
      BY <2>1
    <3>2. \A r \in rows : r.upload # q.upload => r \in rows'
      BY <2>1, <3>0
    <3> HIDE DEF new
    <3>3. \A u \in Uploads : HasRow(u) => (HasRow(u))'
      BY <3>1, <3>2 DEF HasRow
    <3>4. Benign
      BY <2>1, <3>3 DEF Benign, Present
    <3>5. ProcessedHasStream'
      BY <2>1, <3>3 DEF StreamInv, ProcessedHasStream, HasRow
    <3>6. (HasRow(q.upload))'
      BY <3>1, <2>1, GotoMoves DEF HasRow
    <3>7. thread'[t].pc = "status" /\ thread'[t].req = q
          /\ \A t2 \in Threads \ {t} : thread'[t2] = thread[t2]
      BY <2>1, GotoMoves
    <3>8. HandlerOk(t)'
      BY <2>1, <3>0, <3>1, <3>7 DEF HandlerOk, HasRow
    <3> QED BY <3>4, <3>5, <3>7, <3>8, StreamOne
  <2>2. CASE Finish(t, FALSE) /\ UNCHANGED rows
    BY <1>3, <2>2, FinishFrees, StreamQuiet DEF WriteRows
  <2> QED BY <1>3, <2>1, <2>2 DEF WriteRows
<1>4. CASE SetStatus(t)
  <2> DEFINE pc == IF q.lo # None \/ q.hi # None THEN "readWindow" ELSE "readStatuses"
  <2>0. thread[t].pc = "status" /\ q \in Callback /\ q.upload \in Uploads
        /\ upload[q.upload] # "absent" /\ UNCHANGED rows
        /\ (q.status = "processed" /\ Present(q.upload) => HasRow(q.upload))
    BY <1>0, <1>4 DEF SetStatus, HandlerOk, Handling, Ingesting
  <2>1. q.status = "processed" \/ q.status = "failed"
    BY <2>0 DEF Callback
  <2>2. \A u \in Uploads : upload'[u] = upload[u] \/ (u = q.upload /\ Present(u) /\ upload'[u] = q.status)
    BY <1>4, <2>0 DEF SetStatus, SetUpload, Typed, TypeOK
  <2>3. Benign
    BY <2>0, <2>1, <2>2 DEF Benign, Present, HasRow
  <2>4. ProcessedHasStream'
    BY <2>0, <2>1, <2>2 DEF StreamInv, ProcessedHasStream, HasRow
  <2>5. Goto(t, pc) /\ pc \in {"readWindow", "readStatuses"}
    BY <1>4 DEF SetStatus
  <2> HIDE DEF pc
  <2>6. thread'[t].pc = pc /\ thread'[t].req = q
        /\ \A t2 \in Threads \ {t} : thread'[t2] = thread[t2]
    BY <2>5, GotoMoves
  <2>7. HandlerOk(t)'
    BY <2>0, <2>3, <2>5, <2>6 DEF HandlerOk, Benign
  <2> QED BY <2>3, <2>4, <2>6, <2>7, StreamOne
<1>5. CASE ApplyReport(t)
  <2>0. thread[t].pc = "report" /\ q \in Reports /\ q.upload \in Uploads
        /\ upload[q.upload] # "absent" /\ UNCHANGED rows
    BY <1>0, <1>5 DEF ApplyReport, HandlerOk, Handling
  <2>1. q.status \in Maybe(Statuses) /\ q.status # "processed"
    BY <2>0 DEF Report
  <2>2. \A u \in Uploads : upload'[u] = upload[u]
            \/ (u = q.upload /\ Present(u) /\ upload'[u] = q.status /\ q.status \in Statuses)
    BY <1>5, <2>0, <2>1 DEF ApplyReport, SetUpload, Typed, TypeOK, Maybe
  <2>3. Benign
    BY <2>0, <2>1, <2>2 DEF Benign, Present, HasRow, Statuses
  <2>4. ProcessedHasStream'
    BY <2>0, <2>1, <2>2 DEF StreamInv, ProcessedHasStream
  <2>5. \/ thread'[t].pc = "readStatuses" /\ thread'[t].req = q
        \/ thread'[t].pc \notin Handling
    <3>1. CASE Goto(t, "readStatuses")
      BY <3>1, GotoMoves
    <3>2. CASE thread' = [thread EXCEPT ![t] = FreeThread]
      <4>1. FreeThread.pc \notin Handling
        BY DEF FreeThread, Handling, Ingesting
      <4> QED BY <3>2, <4>1, Others
    <3>3. Goto(t, "readStatuses") \/ Finish(t, TRUE)
      BY <1>5 DEF ApplyReport
    <3>4. Goto(t, "readStatuses") \/ thread' = [thread EXCEPT ![t] = FreeThread]
      BY <3>3 DEF Finish
    <3> QED BY <3>1, <3>2, <3>4
  <2>6. \A t2 \in Threads \ {t} : thread'[t2] = thread[t2]
    BY <1>5, GotoMoves, Others DEF ApplyReport, Finish
  <2>7. HandlerOk(t)'
    BY <2>0, <2>3, <2>5 DEF HandlerOk, Benign, Handling, Ingesting
  <2> QED BY <2>3, <2>4, <2>6, <2>7, StreamOne
<1>6. CASE ReadWindow(t) \/ WriteWindow(t) \/ ReadStatuses(t) \/ WriteStatus(t)
  <2>0. thread[t].pc \in Handling /\ UNCHANGED <<upload, rows>>
    BY <1>6 DEF ReadWindow, WriteWindow, ReadStatuses, WriteStatus, Handling, Ingesting
  <2>1. CASE \A t2 \in Threads : thread'[t2] = thread[t2] \/ thread'[t2].pc \notin Handling
    BY <2>0, <2>1, StreamQuiet
  <2>2. CASE /\ thread'[t].pc \in {"writeWindow", "readStatuses", "writeStatus"}
             /\ thread'[t].req = q
             /\ \A t2 \in Threads \ {t} : thread'[t2] = thread[t2]
    <3>1. Benign /\ ProcessedHasStream'
      BY <2>0 DEF Benign, Present, HasRow, StreamInv, ProcessedHasStream
    <3>2. HandlerOk(t)'
      BY <1>0, <2>0, <2>2 DEF HandlerOk
    <3> QED BY <2>2, <3>1, <3>2, StreamOne
  <2>3. ASSUME NEW rec, thread' = [thread EXCEPT ![t] = rec], rec.req = q,
               rec.pc \in {"writeWindow", "readStatuses", "writeStatus"}
        PROVE  StreamInv'
    BY <2>2, <2>3, Others
  <2>4. CASE ReadWindow(t)
    <3> DEFINE lo == IF q.lo # None /\ q.lo < session.lo THEN q.lo ELSE None
               hi == IF q.hi # None /\ (session.hi = None \/ q.hi > session.hi)
                     THEN q.hi ELSE None
               rec == [thread[t] EXCEPT !.pc = "writeWindow", !.lo = lo, !.hi = hi]
    <3>1. thread' = [thread EXCEPT ![t] = rec]
      BY <2>4 DEF ReadWindow
    <3> HIDE DEF lo, hi
    <3>2. rec.pc = "writeWindow" /\ rec.req = q
      BY <1>0 DEF ThreadRecord
    <3> HIDE DEF rec
    <3> QED BY <2>3, <3>1, <3>2
  <2>5. CASE WriteWindow(t)
    BY <2>1, <2>2, <2>5, FinishFrees, GotoMoves DEF WriteWindow
  <2>6. CASE ReadStatuses(t)
    <3>1. CASE Finish(t, TRUE)
      BY <2>1, <3>1, FinishFrees
    <3>2. CASE ~Finish(t, TRUE)
      <4> DEFINE new == Aggregate(UploadStatuses)
                 next == IF new = session.status THEN None ELSE new
                 rec == [thread[t] EXCEPT !.pc = "writeStatus", !.next = next]
      <4>1. thread' = [thread EXCEPT ![t] = rec]
        BY <2>6, <3>2 DEF ReadStatuses
      <4> HIDE DEF new, next
      <4>2. rec.pc = "writeStatus" /\ rec.req = q
        BY <1>0 DEF ThreadRecord
      <4> HIDE DEF rec
      <4> QED BY <2>3, <4>1, <4>2
    <3> QED BY <3>1, <3>2
  <2>7. CASE WriteStatus(t)
    BY <2>1, <2>7, FinishFrees DEF WriteStatus
  <2> QED BY <1>6, <2>4, <2>5, <2>6, <2>7
<1> QED BY <1>1, <1>2, <1>3, <1>4, <1>5, <1>6 DEF Handler

LEMMA StreamNext == Typed /\ StreamInv /\ [Next]_vars => StreamInv'
<1> SUFFICES ASSUME Typed, StreamInv, [Next]_vars PROVE StreamInv'
  OBVIOUS
<1>1. CASE Next
  BY <1>1, StreamEnvironment, StreamHandler DEF Next, Dispatch
<1>2. CASE UNCHANGED vars
  BY <1>2, StreamQuiet DEF vars
<1> QED BY <1>1, <1>2

\* ingest_complete registers a sensor's stream before it sets the status, in
\* transactions of their own; with any number of threads, workers, retries,
\* reports and a delete in between, an upload shown as processed has a row.
THEOREM ProcessedAlwaysHasStream == Spec => []ProcessedHasStream
<1>1. Typed /\ Typed' /\ StreamInv /\ [Next]_vars => StreamInv'
  BY StreamNext
<1>2. StreamInv => ProcessedHasStream
  BY DEF StreamInv
<1> QED BY <1>1, <1>2, TypeCorrect, StreamInit, PTL DEF Spec

-----------------------------------------------------------------------------
(* Rows name stored objects.                                               *)

StoredCall(q) == q.status = "processed" => blob[q.upload][SensorOf[q.file]] # None

\* Wherever a "processed" callback is, its object has been written.
StoredInv ==
    /\ RowsAreStored
    /\ \A q \in queue \cap Callback : StoredCall(q)
    /\ \A w \in Workers : worker[w].pc \in {"post", "wait"} => StoredCall(worker[w].call)
    /\ \A t \in Threads : thread[t].pc \in Ingesting => StoredCall(thread[t].req)

BlobKept == \A u \in Uploads, s \in Sensors : blob[u][s] # None => blob'[u][s] # None

LEMMA CallbackFields ==
    ASSUME NEW q \in Callback
    PROVE  q.upload \in Uploads /\ q.file \in Files /\ SensorOf[q.file] \in Sensors
BY DEF Callback, SensorFiles, Maybe

LEMMA StoredInit == Init => StoredInv
BY DEF Init, StoredInv, RowsAreStored, FreeThread, FreeWorker, Ingesting

\* What each conjunct needs from a step.
LEMMA StoredStep ==
    ASSUME Typed, StoredInv, BlobKept,
           \A q \in queue' \cap Callback : q \in queue \/ StoredCall(q)',
           \A w \in Workers : worker'[w].pc \in {"post", "wait"} =>
                \/ (StoredCall(worker[w].call))'
                \/ /\ worker[w].pc \in {"post", "wait"}
                   /\ worker'[w].call.file = worker[w].call.file
                   /\ worker'[w].call.upload = worker[w].call.upload
                   /\ worker'[w].call.status = worker[w].call.status,
           \A t \in Threads : thread'[t].pc \in Ingesting =>
                \/ (StoredCall(thread[t].req))'
                \/ thread[t].pc \in Ingesting /\ thread'[t].req = thread[t].req,
           \A r \in rows' : r \in rows \/ blob'[r.upload][r.sensor] # None
    PROVE  StoredInv'
<1>1. RowsAreStored'
  <2>1. \A r \in rows : r.upload \in Uploads /\ r.sensor \in Sensors
    BY DEF Typed, TypeOK, Row
  <2> QED BY <2>1 DEF StoredInv, RowsAreStored, BlobKept
<1>2. ASSUME NEW q \in Callback, StoredCall(q) PROVE StoredCall(q)'
  BY <1>2, CallbackFields DEF StoredCall, BlobKept
<1>3. \A q \in queue' \cap Callback : StoredCall(q)'
  BY <1>2 DEF StoredInv
<1>4. ASSUME NEW w \in Workers, worker'[w].pc \in {"post", "wait"}
      PROVE  (StoredCall(worker[w].call))'
  <2>1. CASE /\ worker[w].pc \in {"post", "wait"}
             /\ worker'[w].call.file = worker[w].call.file
             /\ worker'[w].call.upload = worker[w].call.upload
             /\ worker'[w].call.status = worker[w].call.status
    <3>1. worker[w].call \in Callback /\ StoredCall(worker[w].call)
      BY <2>1 DEF Typed, WorkerInv, StoredInv
    <3> QED BY <2>1, <3>1, CallbackFields DEF StoredCall, BlobKept
  <2> QED BY <1>4, <2>1
<1>5. ASSUME NEW t \in Threads, thread'[t].pc \in Ingesting
      PROVE  (StoredCall(thread[t].req))'
  <2>1. CASE thread[t].pc \in Ingesting /\ thread'[t].req = thread[t].req
    <3>1. thread[t].req \in Callback /\ StoredCall(thread[t].req)
      BY <2>1 DEF Typed, ThreadInv, StoredInv
    <3> QED BY <2>1, <3>1, CallbackFields DEF StoredCall, BlobKept
  <2> QED BY <1>5, <2>1
<1> QED BY <1>1, <1>3, <1>4, <1>5 DEF StoredInv

\* The reply of a handler leaves every call what it was.
LEMMA ReplyKeepsCalls ==
    ASSUME Typed, NEW q, NEW ok, Reply(q, ok), NEW w \in Workers,
           worker'[w].pc \in {"post", "wait"}
    PROVE  /\ worker[w].pc \in {"post", "wait"}
           /\ worker'[w].call.file = worker[w].call.file
           /\ worker'[w].call.upload = worker[w].call.upload
           /\ worker'[w].call.status = worker[w].call.status
<1>0. worker[w] \in WorkerRecord /\ (worker[w].pc \in {"post", "wait"} => worker[w].call \in Callback)
  BY DEF Typed, TypeOK, WorkerInv
<1>1. CASE worker'[w] = worker[w]
  BY <1>1
<1>2. CASE worker[w].pc = "wait" /\ worker'[w] = [worker[w] EXCEPT !.pc = "done"]
  BY <1>0, <1>2 DEF WorkerRecord
<1>3. CASE worker[w].pc = "wait" /\ worker'[w] = NextAttempt(worker[w])
  BY <1>0, <1>3 DEF NextAttempt, WorkerRecord, Callback
<1> QED BY <1>1, <1>2, <1>3 DEF Reply

LEMMA StoredOutside ==
    ASSUME Typed, StoredInv,
           \/ \E u \in Uploads : OpenUpload(u)
           \/ \E f \in Files : PutFile(f)
           \/ \E q \in Reports : SendReport(q)
           \/ DeleteSession
           \/ \E t \in Threads :
                 \/ \E e \in events : InvokeRefused(t, e) \/ \E w \in Workers : Invoke(t, e, w)
                 \/ InvokeTimeout(t)
           \/ \E w \in Workers : Return(w) \/ Crash(w)
    PROVE  StoredInv'
<1>1. BlobKept
  BY DEF BlobKept, OpenUpload, PutFile, SendReport, DeleteSession, InvokeRefused, Invoke,
         InvokeTimeout, Return, Crash
<1>2. \A q \in queue' \cap Callback : q \in queue \/ StoredCall(q)'
  <2>1. \A q \in queue' : q \in queue \/ q \in Reports
    BY DEF OpenUpload, PutFile, SendReport, DeleteSession, InvokeRefused, Invoke,
           InvokeTimeout, Return, Crash
  <2> QED BY <2>1 DEF StoredCall
<1>3. \A r \in rows' : r \in rows
  BY DEF OpenUpload, PutFile, SendReport, DeleteSession, InvokeRefused, Invoke,
         InvokeTimeout, Return, Crash
<1>4. ASSUME NEW w \in Workers, worker'[w].pc \in {"post", "wait"}
      PROVE  worker'[w] = worker[w]
  <2>1. CASE \E v \in Workers : Return(v) \/ Crash(v)
    BY <1>4, <2>1 DEF Return, Crash, FreeWorker, Typed, TypeOK
  <2>2. CASE \E t \in Threads, e \in events, v \in Workers : Invoke(t, e, v)
    <3> PICK t \in Threads, e \in events, v \in Workers : Invoke(t, e, v)
      BY <2>2
    <3> DEFINE rec == [FreeWorker EXCEPT !.pc = "parse", !.run = e]
    <3>1. rec.pc = "parse"
      BY DEF FreeWorker
    <3>2. worker' = [worker EXCEPT ![v] = rec]
      BY DEF Invoke
    <3> HIDE DEF rec
    <3> QED BY <1>4, <3>1, <3>2 DEF Typed, TypeOK
  <2> QED BY <2>1, <2>2 DEF OpenUpload, PutFile, SendReport, DeleteSession, InvokeRefused,
              InvokeTimeout
<1>5. ASSUME NEW t \in Threads, thread'[t].pc \in Ingesting
      PROVE  thread'[t] = thread[t]
  <2>1. CASE \E t2 \in Threads, e \in events, v \in Workers : Invoke(t2, e, v)
    <3> PICK t2 \in Threads, e \in events, v \in Workers : Invoke(t2, e, v)
      BY <2>1
    <3> DEFINE rec == [FreeThread EXCEPT !.pc = "invoke", !.worker = v]
    <3>1. rec.pc = "invoke"
      BY DEF FreeThread
    <3>2. thread' = [thread EXCEPT ![t2] = rec]
      BY DEF Invoke
    <3> HIDE DEF rec
    <3> QED BY <1>5, <3>1, <3>2 DEF Typed, TypeOK, Ingesting
  <2>2. CASE \E t2 \in Threads : InvokeTimeout(t2)
    BY <1>5, <2>2 DEF InvokeTimeout, FreeThread, Ingesting, Typed, TypeOK
  <2>3. CASE \E v \in Workers : Return(v)
    BY <1>5, <2>3 DEF Return, FreeThread, Ingesting
  <2> QED BY <2>1, <2>2, <2>3 DEF OpenUpload, PutFile, SendReport, DeleteSession,
              InvokeRefused, Crash
<1>6. \A w \in Workers : worker'[w].pc \in {"post", "wait"} =>
        /\ worker[w].pc \in {"post", "wait"}
        /\ worker'[w].call = worker[w].call
  BY <1>4
<1>7. \A t \in Threads : thread'[t].pc \in Ingesting =>
        thread[t].pc \in Ingesting /\ thread'[t].req = thread[t].req
  BY <1>5
<1> QED BY <1>1, <1>2, <1>3, <1>6, <1>7, StoredStep

LEMMA StoredWorker ==
    ASSUME Typed, StoredInv, NEW w \in Workers,
           Parse(w) \/ ReadBlob(w) \/ WriteBlob(w) \/ PutFails(w) \/ Post(w) \/ Timeout(w)
    PROVE  StoredInv'
<1> DEFINE f == worker[w].run.file
<1>0. worker[w] \in WorkerRecord
      /\ (worker[w].pc \in Busy => f \in Files)
      /\ (worker[w].pc \in {"post", "wait"} => worker[w].call \in Callback)
  BY DEF Typed, TypeOK, WorkerInv, Run
<1>1. UNCHANGED <<thread, rows>>
  BY DEF Parse, ReadBlob, WriteBlob, PutFails, Post, Timeout
<1>2. \A t \in Threads : thread'[t].pc \in Ingesting =>
        thread[t].pc \in Ingesting /\ thread'[t].req = thread[t].req
  BY <1>1
<1>3. ASSUME NEW rec, worker' = [worker EXCEPT ![w] = rec]
      PROVE  worker'[w] = rec /\ \A v \in Workers \ {w} : worker'[v] = worker[v]
  BY <1>3 DEF Typed, TypeOK
<1>4. CASE Parse(w)
  <2>1. \/ worker'[w].pc \in {"done", "read"}
        \/ worker'[w].call.status = "failed"
    <3>1. CASE worker' = [worker EXCEPT ![w].pc = "done"]
      BY <1>0, <3>1 DEF Typed, TypeOK, WorkerRecord
    <3>2. CASE worker' = [worker EXCEPT ![w].pc = "read"]
      BY <1>0, <3>2 DEF Typed, TypeOK, WorkerRecord
    <3>3. CASE worker' = [worker EXCEPT ![w].pc = "post",
                                        ![w].call = Report1(w, "failed", {}, None, None)]
      <4>1. Report1(w, "failed", {}, None, None).status = "failed"
        BY DEF Report1
      <4> HIDE DEF Report1
      <4> QED BY <1>0, <3>3, <4>1 DEF Typed, TypeOK, WorkerRecord
    <3> QED BY <1>4, <3>1, <3>2, <3>3 DEF Parse
  <2>2. \A v \in Workers \ {w} : worker'[v] = worker[v]
    BY <1>4 DEF Parse, Typed, TypeOK
  <2>3. BlobKept /\ queue' = queue
    BY <1>4 DEF Parse, BlobKept
  <2>4. \A v \in Workers : worker'[v].pc \in {"post", "wait"} =>
            \/ (StoredCall(worker[v].call))'
            \/ worker[v].pc \in {"post", "wait"} /\ worker'[v].call = worker[v].call
    BY <2>1, <2>2 DEF StoredCall
  <2> QED BY <1>1, <1>2, <2>3, <2>4, StoredStep
<1>5. CASE ReadBlob(w)
  <2>1. worker'[w].pc = "write"
    BY <1>0, <1>5 DEF ReadBlob, Typed, TypeOK, WorkerRecord
  <2>2. \A v \in Workers \ {w} : worker'[v] = worker[v]
    BY <1>5 DEF ReadBlob, Typed, TypeOK
  <2>3. BlobKept /\ queue' = queue
    BY <1>5 DEF ReadBlob, BlobKept
  <2>4. \A v \in Workers : worker'[v].pc \in {"post", "wait"} =>
            worker[v].pc \in {"post", "wait"} /\ worker'[v].call = worker[v].call
    BY <2>1, <2>2
  <2> QED BY <1>1, <1>2, <2>3, <2>4, StoredStep
<1>6. CASE WriteBlob(w)
  <2> DEFINE merged == worker[w].seen \cup Parsed(f)
  <2>0. /\ f \in Files /\ UploadOf[f] \in Uploads /\ SensorOf[f] \in Sensors
        /\ merged \in SUBSET Files
    <3>1. worker[w].pc = "write"
      BY <1>6 DEF WriteBlob
    <3>2. SensorOf[f] # None /\ f \in Files /\ worker[w].seen \in SUBSET Files
      BY <1>0, <3>1 DEF Typed, WorkerInv, Busy, WorkerRecord
    <3> QED BY <3>2 DEF Maybe, Parsed
  <2>1. blob' = [blob EXCEPT ![UploadOf[f]][SensorOf[f]] = merged] /\ merged # None
    BY <1>6, <2>0 DEF WriteBlob
  <2> HIDE DEF merged
  <2>2. BlobKept /\ blob'[UploadOf[f]][SensorOf[f]] # None
    BY <2>0, <2>1 DEF BlobKept, Typed, TypeOK
  <2>3. \/ worker' = [worker EXCEPT ![w].pc = "done"]
        \/ \E pts, lo, hi : worker' = [worker EXCEPT ![w].pc = "post",
                                     ![w].call = Report1(w, "processed", pts, lo, hi)]
    BY <1>6 DEF WriteBlob
  <2>4. \/ worker'[w].pc = "done"
        \/ worker'[w].call.upload = UploadOf[f] /\ worker'[w].call.file = f
    <3>1. \A pts, lo, hi : /\ Report1(w, "processed", pts, lo, hi).upload = UploadOf[f]
                          /\ Report1(w, "processed", pts, lo, hi).file = f
      BY DEF Report1
    <3> HIDE DEF Report1
    <3> QED BY <1>0, <2>3, <3>1 DEF Typed, TypeOK, WorkerRecord
  <2>5. \A v \in Workers \ {w} : worker'[v] = worker[v]
    BY <2>3 DEF Typed, TypeOK
  <2>6. queue' = queue
    BY <1>6 DEF WriteBlob
  <2>7. \A v \in Workers : worker'[v].pc \in {"post", "wait"} =>
            \/ (StoredCall(worker[v].call))'
            \/ worker[v].pc \in {"post", "wait"} /\ worker'[v].call = worker[v].call
    BY <2>2, <2>4, <2>5 DEF StoredCall
  <2> QED BY <1>1, <1>2, <2>2, <2>6, <2>7, StoredStep
<1>9. CASE PutFails(w)
  <2>1. /\ worker'[w].pc = "done" /\ \A v \in Workers \ {w} : worker'[v] = worker[v]
        /\ BlobKept /\ queue' = queue
    BY <1>9 DEF PutFails, BlobKept, Typed, TypeOK, WorkerRecord
  <2>2. \A v \in Workers : worker'[v].pc \in {"post", "wait"} =>
            worker[v].pc \in {"post", "wait"} /\ worker'[v].call = worker[v].call
    BY <2>1
  <2> QED BY <1>1, <1>2, <2>1, <2>2, StoredStep
<1>7. CASE Post(w)
  <2>0. worker[w].pc = "post" /\ worker[w].call \in Callback /\ StoredCall(worker[w].call)
    BY <1>0, <1>7 DEF Post, StoredInv
  <2>1. worker'[w].call = worker[w].call
    BY <1>0, <1>7 DEF Post, Typed, TypeOK, WorkerRecord
  <2>2. \A v \in Workers \ {w} : worker'[v] = worker[v]
    BY <1>7 DEF Post, Typed, TypeOK
  <2>3. BlobKept /\ UNCHANGED blob /\ queue' = queue \cup {worker[w].call}
    BY <1>7 DEF Post, BlobKept
  <2>4. \A q \in queue' \cap Callback : q \in queue \/ StoredCall(q)'
    BY <2>0, <2>3 DEF StoredCall
  <2>5. \A v \in Workers : worker'[v].pc \in {"post", "wait"} =>
            worker[v].pc \in {"post", "wait"} /\ worker'[v].call = worker[v].call
    BY <2>0, <2>1, <2>2
  <2> QED BY <1>1, <1>2, <2>3, <2>4, <2>5, StoredStep
<1>8. CASE Timeout(w)
  <2>0. worker[w].pc = "wait" /\ worker[w].call \in Callback
    BY <1>0, <1>8 DEF Timeout
  <2>1. worker'[w] = NextAttempt(worker[w]) /\ \A v \in Workers \ {w} : worker'[v] = worker[v]
    BY <1>3, <1>8 DEF Timeout
  <2>2. worker'[w].call.file = worker[w].call.file
        /\ worker'[w].call.upload = worker[w].call.upload
        /\ worker'[w].call.status = worker[w].call.status
    BY <1>0, <2>0, <2>1 DEF NextAttempt, WorkerRecord, Callback
  <2>3. BlobKept /\ queue' = queue
    BY <1>8 DEF Timeout, BlobKept
  <2> QED BY <1>1, <1>2, <2>0, <2>1, <2>2, <2>3, StoredStep
<1> QED BY <1>4, <1>5, <1>6, <1>7, <1>8, <1>9

\* A transaction of a handler moves its own thread, on the request it has.
LEMMA HandlerMoves ==
    ASSUME Typed, NEW t \in Threads, Handler(t)
    PROVE  /\ \A u \in Threads \ {t} : thread'[u] = thread[u]
           /\ thread'[t].pc \in Handling => thread'[t].req = thread[t].req
           /\ thread'[t].pc \in Ingesting => thread[t].pc \in Ingesting
<1> DEFINE q == thread[t].req
           Moves(pcs) == /\ \A u \in Threads \ {t} : thread'[u] = thread[u]
                         /\ thread'[t].pc \in Handling => thread'[t].req = q
                         /\ thread'[t].pc \in pcs \/ thread'[t].pc \notin Handling
<1>0. thread[t] \in ThreadRecord
  BY DEF Typed, TypeOK
<1>1. ASSUME NEW pc, Goto(t, pc) PROVE Moves({pc})
  BY <1>1, GotoMoves
<1>2. ASSUME NEW ok, Finish(t, ok) PROVE Moves({})
  <2>1. thread' = [thread EXCEPT ![t] = FreeThread] /\ FreeThread.pc \notin Handling
    BY <1>2 DEF Finish, FreeThread, Handling, Ingesting
  <2> QED BY <2>1, Others
<1>3. ASSUME NEW rec, rec.req = q, thread' = [thread EXCEPT ![t] = rec] PROVE Moves({rec.pc})
  BY <1>3, Others
<1>4. CASE ReadRows(t)
  <2> DEFINE seen == {r \in rows : r.upload = q.upload /\ r.sensor = SensorOf[q.file]}
             rec == [thread[t] EXCEPT !.pc = "writeRows", !.rows = seen]
  <2>1. thread' = [thread EXCEPT ![t] = rec]
    BY <1>4 DEF ReadRows
  <2> HIDE DEF seen
  <2>2. rec.req = q
    BY <1>0 DEF ThreadRecord
  <2> HIDE DEF rec
  <2>3. Moves({rec.pc}) /\ thread[t].pc = "readRows"
    BY <1>3, <1>4, <2>1, <2>2 DEF ReadRows
  <2> QED BY <2>3 DEF Ingesting
<1>5. CASE WriteRows(t)
  <2>1. Moves({"status"}) \/ Moves({})
    BY <1>1, <1>2, <1>5 DEF WriteRows
  <2> QED BY <1>5, <2>1 DEF WriteRows, Ingesting, Handling
<1>6. CASE SetStatus(t)
  <2>1. Moves({"readWindow"}) \/ Moves({"readStatuses"})
    BY <1>1, <1>6 DEF SetStatus
  <2> QED BY <1>6, <2>1 DEF SetStatus, Ingesting, Handling
<1>7. CASE ApplyReport(t) \/ WriteWindow(t)
  <2>1. Moves({"readStatuses"}) \/ Moves({})
    BY <1>1, <1>2, <1>7 DEF ApplyReport, WriteWindow
  <2> QED BY <2>1 DEF Ingesting, Handling
<1>8. CASE ReadWindow(t)
  <2> DEFINE lo == IF q.lo # None /\ q.lo < session.lo THEN q.lo ELSE None
             hi == IF q.hi # None /\ (session.hi = None \/ q.hi > session.hi)
                   THEN q.hi ELSE None
             rec == [thread[t] EXCEPT !.pc = "writeWindow", !.lo = lo, !.hi = hi]
  <2>1. thread' = [thread EXCEPT ![t] = rec]
    BY <1>8 DEF ReadWindow
  <2> HIDE DEF lo, hi
  <2>2. rec.req = q
    BY <1>0 DEF ThreadRecord
  <2> HIDE DEF rec
  <2>3. Moves({rec.pc}) /\ thread[t].pc = "readWindow"
    BY <1>3, <1>8, <2>1, <2>2 DEF ReadWindow
  <2> QED BY <2>3 DEF Ingesting
<1>9. CASE ReadStatuses(t)
  <2> DEFINE next == IF Aggregate(UploadStatuses) = session.status
                     THEN None ELSE Aggregate(UploadStatuses)
             rec == [thread[t] EXCEPT !.pc = "writeStatus", !.next = next]
  <2>1. thread' = [thread EXCEPT ![t] = rec] \/ Finish(t, TRUE)
    BY <1>9 DEF ReadStatuses
  <2> HIDE DEF next
  <2>2. rec.req = q /\ rec.pc = "writeStatus"
    BY <1>0 DEF ThreadRecord
  <2> HIDE DEF rec
  <2>3. Moves({"writeStatus"}) \/ Moves({})
    BY <1>2, <1>3, <2>1, <2>2
  <2> QED BY <2>3 DEF Ingesting, Handling
<1>10. CASE WriteStatus(t)
  <2>1. Moves({})
    BY <1>2, <1>10 DEF WriteStatus
  <2> QED BY <2>1 DEF Handling
<1> QED BY <1>4, <1>5, <1>6, <1>7, <1>8, <1>9, <1>10 DEF Handler

LEMMA StoredHandler ==
    ASSUME Typed, StreamInv, StoredInv, NEW t \in Threads,
           (\E q \in queue : Load(t, q)) \/ Handler(t)
    PROVE  StoredInv'
<1> DEFINE q == thread[t].req
<1>0. thread[t] \in ThreadRecord
  BY DEF Typed, TypeOK
<1>1. UNCHANGED blob /\ queue' \subseteq queue
  BY DEF Load, Handler, ReadRows, WriteRows, SetStatus, ApplyReport, ReadWindow,
         WriteWindow, ReadStatuses, WriteStatus
<1>2. BlobKept /\ \A p \in queue' \cap Callback : p \in queue
  BY <1>1 DEF BlobKept
<1>3. \A w \in Workers : worker'[w].pc \in {"post", "wait"} =>
        /\ worker[w].pc \in {"post", "wait"}
        /\ worker'[w].call.file = worker[w].call.file
        /\ worker'[w].call.upload = worker[w].call.upload
        /\ worker'[w].call.status = worker[w].call.status
  <2>1. (\E p, ok : Reply(p, ok)) \/ UNCHANGED worker
    BY DEF Load, Handler, ReadRows, WriteRows, SetStatus, ApplyReport, ReadWindow,
           WriteWindow, ReadStatuses, WriteStatus, Finish
  <2> QED BY <2>1, ReplyKeepsCalls
<1>4. \A r \in rows' : r \in rows \/ blob'[r.upload][r.sensor] # None
  <2>1. CASE WriteRows(t)
    <3>1. thread[t].pc = "writeRows" /\ q.status = "processed" /\ StoredCall(q)
      BY <2>1 DEF WriteRows, StreamInv, HandlerOk, StoredInv, Ingesting
    <3> DEFINE new == [upload |-> q.upload, sensor |-> SensorOf[q.file],
                       points |-> q.points, by |-> q]
    <3>a. new.upload = q.upload /\ new.sensor = SensorOf[q.file]
      OBVIOUS
    <3>b. rows' = rows \/ rows' = (rows \ thread[t].rows) \cup {new}
      BY <2>1 DEF WriteRows
    <3> HIDE DEF new
    <3>2. \A r \in rows' : r \in rows \/ (r.upload = q.upload /\ r.sensor = SensorOf[q.file])
      BY <3>a, <3>b
    <3> QED BY <1>1, <3>1, <3>2 DEF StoredCall
  <2>2. CASE ~WriteRows(t)
    BY <2>2 DEF Load, Handler, ReadRows, SetStatus, ApplyReport, ReadWindow,
                WriteWindow, ReadStatuses, WriteStatus
  <2> QED BY <2>1, <2>2
<1>5. ASSUME NEW u \in Threads, thread'[u].pc \in Ingesting
      PROVE  \/ (StoredCall(thread[u].req))'
             \/ thread[u].pc \in Ingesting /\ thread'[u].req = thread[u].req
  <2>1. CASE \E p \in queue : Load(t, p)
    <3> PICK p \in queue : Load(t, p)
      BY <2>1
    <3> DEFINE pc == IF ~IsCallback(p) THEN "report"
                     ELSE IF p.status = "processed" THEN "readRows" ELSE "status"
               rec == [FreeThread EXCEPT !.pc = pc, !.req = p, !.saw = upload[p.upload]]
    <3>1. rec.pc = pc /\ rec.req = p
      BY DEF FreeThread
    <3>2. thread' = thread \/ thread' = [thread EXCEPT ![t] = rec]
      BY DEF Load
    <3>3. pc \in Ingesting => p \in queue \cap Callback
      BY DEF Ingesting, IsCallback
    <3> HIDE DEF pc, rec
    <3>4. thread'[u] = thread[u] \/ thread'[u] = rec
      BY <3>2, Others
    <3>5. rec.pc \in Ingesting => StoredCall(p)'
      BY <1>1, <3>1, <3>3 DEF StoredInv, StoredCall
    <3> QED BY <1>5, <3>1, <3>4, <3>5 DEF StoredCall
  <2>2. CASE Handler(t)
    BY <1>5, <2>2, HandlerMoves DEF Ingesting, Handling
  <2> QED BY <2>1, <2>2
<1> QED BY <1>2, <1>3, <1>4, <1>5, StoredStep

LEMMA StoredNext == Typed /\ StreamInv /\ StoredInv /\ [Next]_vars => StoredInv'
<1> SUFFICES ASSUME Typed, StreamInv, StoredInv, [Next]_vars PROVE StoredInv'
  OBVIOUS
<1>1. CASE Next
  BY <1>1, StoredOutside, StoredWorker, StoredHandler DEF Next, Dispatch, WorkerStep
<1>2. CASE UNCHANGED vars
  BY <1>2 DEF vars, StoredInv, StoredCall, RowsAreStored
<1> QED BY <1>1, <1>2

\* The worker stores the object before it reports it, and objects are only
\* ever replaced: whatever is retried, delayed, lost or crashed, a stream row
\* never names an object that does not exist.
THEOREM RowsAlwaysStored == Spec => []RowsAreStored
<1>1. Typed /\ Typed' /\ StreamInv /\ [Next]_vars => StreamInv'
  BY StreamNext
<1>2. Typed /\ StreamInv /\ StoredInv /\ [Next]_vars => StoredInv'
  BY StoredNext
<1>3. StoredInv => RowsAreStored
  BY DEF StoredInv
<1> QED BY <1>1, <1>2, <1>3, TypeCorrect, StreamInit, StoredInit, PTL DEF Spec

-----------------------------------------------------------------------------
(* The pipeline implements StreamCatalog.                                  *)

Listed == [u \in Uploads |-> {r.sensor : r \in {x \in rows : x.upload = u}}]

LEMMA CatalogInit == Init => Catalog!Init
BY DEF Init, Catalog!Init

\* A step maps to the step of the abstract catalog it stands for.
LEMMA CatalogStep ==
    ASSUME Typed, StreamInv, Next
    PROVE  Catalog!Next \/ UNCHANGED <<upload, Listed>>
<1>1. ASSUME NEW u \in Uploads, OpenUpload(u) PROVE Catalog!Next
  BY <1>1 DEF OpenUpload, Catalog!Next, Catalog!Open
<1>2. CASE DeleteSession
  BY <1>2 DEF DeleteSession, Catalog!Next, Catalog!Delete
<1>3. ASSUME NEW t \in Threads, WriteRows(t) PROVE Catalog!Next \/ UNCHANGED <<upload, Listed>>
  <2> DEFINE q == thread[t].req
             new == [upload |-> q.upload, sensor |-> SensorOf[q.file],
                     points |-> q.points, by |-> q]
             s == SensorOf[q.file]
  <2>0. /\ thread[t].pc = "writeRows" /\ q \in Callback
        /\ \A r \in thread[t].rows : r.upload = q.upload /\ r.sensor = s
    BY <1>3 DEF WriteRows, StreamInv, HandlerOk, Typed, ThreadInv, Ingesting
  <2>1. q.upload \in Uploads /\ s \in Sensors
    BY <2>0, CallbackFields
  <2>2. CASE UNCHANGED rows
    BY <1>3, <2>2 DEF WriteRows, Listed
  <2>3. CASE Present(q.upload) /\ rows' = (rows \ thread[t].rows) \cup {new}
    <3>1. new.upload = q.upload /\ new.sensor = s
      OBVIOUS
    <3> HIDE DEF new
    <3>2. ASSUME NEW u \in Uploads, u # q.upload
          PROVE  Listed'[u] = Listed[u]
      <4>1. {x \in rows' : x.upload = u} = {x \in rows : x.upload = u}
        BY <2>0, <2>3, <3>1, <3>2
      <4> QED BY <4>1 DEF Listed
    <3>3. Listed'[q.upload] = Listed[q.upload] \cup {s}
      <4>1. \A x \in rows' : x.upload = q.upload =>
                x.sensor = s \/ (x \in rows)
        BY <2>3, <3>1
      <4>2. \A x \in rows : x.upload = q.upload => x.sensor = s \/ x \in rows'
        BY <2>0, <2>3
      <4>3. new \in rows'
        BY <2>3
      <4> QED BY <2>1, <3>1, <4>1, <4>2, <4>3 DEF Listed
    <3>4. Listed' = [Listed EXCEPT ![q.upload] = @ \cup {s}]
      BY <2>1, <3>2, <3>3 DEF Listed
    <3>5. upload[q.upload] \in Catalog!Shown /\ UNCHANGED upload
      BY <1>3, <2>1, <2>3 DEF WriteRows, Present, Typed, TypeOK, Statuses, Catalog!Shown
    <3>6. PICK u \in Uploads, v \in Sensors : u = q.upload /\ v = s
      BY <2>1
    <3>7. Catalog!List(u, v)
      BY <3>4, <3>5, <3>6 DEF Catalog!List, Listed
    <3> QED BY <3>7 DEF Catalog!Next
  <2> QED BY <1>3, <2>2, <2>3 DEF WriteRows
<1>4. ASSUME NEW u \in Uploads, NEW st \in Statuses, UNCHANGED rows, Present(u),
             upload' = [upload EXCEPT ![u] = st], st = "processed" => HasRow(u)
      PROVE  Catalog!Next
  <2>1. upload[u] \in Catalog!Shown /\ st \in Catalog!Shown
    BY <1>4 DEF Present, Typed, TypeOK, Statuses, Catalog!Shown
  <2>2. UNCHANGED Listed /\ (st = "processed" => Listed[u] # {})
    BY <1>4 DEF Listed, HasRow
  <2>3. Catalog!Show(u, st)
    BY <1>4, <2>1, <2>2 DEF Catalog!Show, Listed
  <2> QED BY <2>1, <2>3 DEF Catalog!Next
<1>5. ASSUME NEW t \in Threads, SetStatus(t) PROVE Catalog!Next \/ UNCHANGED <<upload, Listed>>
  <2> DEFINE q == thread[t].req
  <2>0. /\ thread[t].pc = "status" /\ q \in Callback /\ UNCHANGED rows
        /\ (q.status = "processed" /\ Present(q.upload) => HasRow(q.upload))
    BY <1>5 DEF SetStatus, StreamInv, HandlerOk, Typed, ThreadInv, Ingesting
  <2>1. q.upload \in Uploads /\ q.status \in Statuses
    BY <2>0 DEF Callback, Statuses
  <2>2. CASE UNCHANGED upload
    BY <2>0, <2>2 DEF Listed
  <2>3. CASE Present(q.upload) /\ upload' = [upload EXCEPT ![q.upload] = q.status]
    BY <1>4, <2>0, <2>1, <2>3
  <2> QED BY <1>5, <2>2, <2>3 DEF SetStatus, SetUpload
<1>6. ASSUME NEW t \in Threads, ApplyReport(t) PROVE Catalog!Next \/ UNCHANGED <<upload, Listed>>
  <2> DEFINE q == thread[t].req
  <2>0. thread[t].pc = "report" /\ q \in Reports /\ UNCHANGED rows
    BY <1>6 DEF ApplyReport, Typed, ThreadInv
  <2>1. q.upload \in Uploads /\ q.status \in Maybe(Statuses) /\ q.status # "processed"
    BY <2>0 DEF Report
  <2>2. CASE UNCHANGED upload
    BY <2>0, <2>2 DEF Listed
  <2>3. CASE Present(q.upload) /\ q.status # None
             /\ upload' = [upload EXCEPT ![q.upload] = q.status]
    BY <1>4, <2>0, <2>1, <2>3 DEF Maybe
  <2> QED BY <1>6, <2>2, <2>3 DEF ApplyReport, SetUpload
<1>7. ASSUME UNCHANGED <<upload, rows>> PROVE UNCHANGED <<upload, Listed>>
  BY <1>7 DEF Listed
<1>8. CASE \/ \E f \in Files : PutFile(f)
           \/ \E q \in Reports : SendReport(q)
           \/ \E w \in Workers : WorkerStep(w) \/ Timeout(w) \/ Crash(w)
  BY <1>7, <1>8 DEF PutFile, SendReport, WorkerStep, Parse, ReadBlob, WriteBlob, PutFails, Post,
                    Return, Timeout, Crash
<1>9. ASSUME NEW t \in Threads,
             Dispatch(t) \/ InvokeTimeout(t) \/ ReadRows(t) \/ ReadWindow(t)
                \/ WriteWindow(t) \/ ReadStatuses(t) \/ WriteStatus(t)
      PROVE  UNCHANGED <<upload, Listed>>
  BY <1>7, <1>9 DEF Dispatch, Load, InvokeRefused, Invoke, InvokeTimeout, ReadRows,
                    ReadWindow, WriteWindow, ReadStatuses, WriteStatus
<1>10. ASSUME NEW t \in Threads, Dispatch(t) \/ Handler(t) \/ InvokeTimeout(t)
       PROVE  Catalog!Next \/ UNCHANGED <<upload, Listed>>
  BY <1>3, <1>5, <1>6, <1>9, <1>10 DEF Handler
<1>11. CASE \E w \in Workers : WorkerStep(w) \/ Timeout(w) \/ Crash(w)
  BY <1>8, <1>11
<1> QED BY <1>1, <1>2, <1>8, <1>10, <1>11 DEF Next

\* A reader of the session sees a catalog that only grows until the session
\* is deleted, and statuses that are "processed" only when something is
\* listed: the handlers' transactions implement StreamCatalog.
THEOREM PipelineImplementsCatalog == Spec => CatalogSpec
<1>1. Typed /\ Typed' /\ StreamInv /\ [Next]_vars => StreamInv'
  BY StreamNext
<1>2. Typed /\ StreamInv /\ [Next]_vars => [Catalog!Next]_(Catalog!vars)
  <2>1. Next /\ Typed /\ StreamInv => [Catalog!Next]_(Catalog!vars)
    BY CatalogStep DEF Catalog!vars, Listed
  <2>2. UNCHANGED vars => UNCHANGED Catalog!vars
    BY DEF vars, Catalog!vars
  <2> QED BY <2>1, <2>2
<1> QED BY <1>1, <1>2, TypeCorrect, StreamInit, CatalogInit, PTL DEF Spec, CatalogSpec, Catalog!Spec
-----------------------------------------------------------------------------
(* One invocation at a time, prompt answers and no reports: the runtime    *)
(* deployed, on a good day.  A session may still be deleted, uploads       *)
(* opened and files put at any moment, and a read of the object store fail. *)

Serial == Faults \subseteq {"read"} /\ Reports = {} /\ \A v, w \in Workers : v = w

\* The invocation waits for the one callback the server knows of.
Sent(q) == \E w \in Workers : worker[w].pc = "wait" /\ worker[w].call = q
SoleInv ==
    /\ \A q \in queue : Sent(q)
    /\ \A t \in Threads : thread[t].pc \in Handling => queue = {} /\ Sent(thread[t].req)
    /\ \A s, t \in Threads : thread[s].pc \in Handling /\ thread[t].pc \in Handling => s = t

\* Files are only put for uploads once opened, and gone only with the session.
OpenedInv ==
    /\ session.live => \A u \in Uploads : upload[u] # "gone"
    /\ ~session.live => rows = {} /\ \A u \in Uploads : ~Present(u)
    /\ \A e \in events : upload[UploadOf[e.file]] # "absent"
    /\ \A w \in Workers : /\ worker[w].pc \in Busy => upload[UploadOf[worker[w].run.file]] # "absent"
                          /\ worker[w].pc \in {"post", "wait"} => upload[worker[w].call.upload] # "absent"

\* A row describes the stored object, or the invocation has yet to report it.
Owed(u, s) ==
    /\ \E w \in Workers : /\ worker[w].pc \in {"post", "wait"} /\ worker[w].call.status = "processed"
                          /\ worker[w].call.upload = u /\ SensorOf[worker[w].call.file] = s
    /\ \A t \in Threads : thread[t].pc \in Handling => thread[t].pc \in {"readRows", "writeRows"}
DescribeInv ==
    /\ \A w \in Workers : LET q == worker[w].call IN
         worker[w].pc \in {"post", "wait"} /\ q.status = "processed" =>
            q.points = blob[q.upload][SensorOf[q.file]]
    /\ \A t \in Threads : LET q == thread[t].req IN
         thread[t].pc = "writeRows" =>
            {r \in rows : r.upload = q.upload /\ r.sensor = SensorOf[q.file]} \subseteq thread[t].rows
    /\ \A r \in rows : r.points = blob[r.upload][r.sensor] \/ Owed(r.upload, r.sensor)

\* The shown status is an aggregate, or a handler is about to write one.
Right(st) == st \in {Aggregate(UploadStatuses), Aggregate(UploadStatuses \ {"pending"})}
RollingUp(t) == \/ thread[t].pc \in {"readWindow", "writeWindow", "readStatuses"}
                \/ thread[t].pc = "writeStatus" /\ thread[t].next # None
StatusInv ==
    session.live =>
        /\ \A t \in Threads : thread[t].pc = "writeStatus" /\ thread[t].next # None => Right(thread[t].next)
        /\ Right(session.status) \/ \E t \in Threads : RollingUp(t)

SerialInv == SoleInv /\ OpenedInv /\ DescribeInv /\ StatusInv

LEMMA SerialInit == Init => SerialInv
<1> SUFFICES ASSUME Init PROVE SerialInv
  OBVIOUS
<1>1. SoleInv /\ OpenedInv /\ DescribeInv
  BY DEF Init, SoleInv, OpenedInv, DescribeInv, FreeThread, FreeWorker, Handling, Ingesting, Busy
<1>2. UploadStatuses = {} /\ {} \ {"pending"} = {} /\ Aggregate({}) = "pending"
  BY DEF Init, UploadStatuses, Present, Aggregate
<1>3. StatusInv
  BY <1>2 DEF Init, StatusInv, Right, FreeThread
<1> QED BY <1>1, <1>3 DEF SerialInv

\* The server knows of one callback, the one the invocation waits for.
LEMMA SoleCall ==
    ASSUME Serial, NEW q, Sent(q), NEW w \in Workers
    PROVE  worker[w].pc = "wait" /\ worker[w].call = q
BY DEF Serial, Sent

\* What the reply of a handler makes of an invocation.
SameCall(a, b) == a.file = b.file /\ a.upload = b.upload /\ a.status = b.status /\ a.points = b.points
LEMMA ReplyCase ==
    ASSUME Typed, NEW q, NEW ok, Reply(q, ok), NEW w \in Workers
    PROVE  \/ worker'[w] = worker[w]
           \/ /\ worker[w].pc = "wait" /\ worker'[w].run = worker[w].run
              /\ worker'[w].pc \in {"post", "done"} /\ (ok => worker'[w].pc = "done")
              /\ SameCall(worker'[w].call, worker[w].call)
<1>0. worker[w] \in WorkerRecord /\ (worker[w].pc \in {"post", "wait"} => worker[w].call \in Callback)
  BY DEF Typed, TypeOK, WorkerInv
<1>1. CASE worker'[w] = worker[w]
  BY <1>1
<1>2. CASE worker[w].pc = "wait" /\ worker'[w] = [worker[w] EXCEPT !.pc = "done"]
  BY <1>0, <1>2 DEF WorkerRecord, SameCall
<1>3. CASE worker[w].pc = "wait" /\ ~ok /\ worker'[w] = NextAttempt(worker[w])
  BY <1>0, <1>3 DEF NextAttempt, WorkerRecord, Callback, SameCall
<1> QED BY <1>1, <1>2, <1>3 DEF Reply

\* Frames: what each part of the invariant needs from a step.
LEMMA SoleStep ==
    ASSUME Serial, SoleInv, queue' = queue, \A q : Sent(q) => Sent(q)',
           \A t \in Threads : thread'[t].pc \in Handling =>
              thread[t].pc \in Handling /\ thread'[t].req = thread[t].req
    PROVE  SoleInv'
BY DEF SoleInv

KeepsCalls == \A w \in Workers : worker'[w].pc \in {"post", "wait"} =>
                 worker[w].pc \in {"post", "wait"} /\ SameCall(worker'[w].call, worker[w].call)
LEMMA DescribeStep ==
    ASSUME DescribeInv, UNCHANGED blob, rows' \subseteq rows, KeepsCalls,
           \A t \in Threads : thread'[t].pc = "writeRows" => thread'[t] = thread[t],
           \A r \in rows' : Owed(r.upload, r.sensor) =>
              r.points = blob[r.upload][r.sensor] \/ Owed(r.upload, r.sensor)'
    PROVE  DescribeInv'
<1>1. ASSUME NEW w \in Workers, worker'[w].pc \in {"post", "wait"}, worker'[w].call.status = "processed"
      PROVE  worker'[w].call.points = blob'[worker'[w].call.upload][SensorOf[worker'[w].call.file]]
  <2>1. worker[w].pc \in {"post", "wait"} /\ SameCall(worker'[w].call, worker[w].call)
    BY <1>1 DEF KeepsCalls
  <2> QED BY <1>1, <2>1 DEF DescribeInv, SameCall
<1>2. ASSUME NEW t \in Threads, thread'[t].pc = "writeRows"
      PROVE  {r \in rows' : r.upload = thread'[t].req.upload /\ r.sensor = SensorOf[thread'[t].req.file]}
                \subseteq thread'[t].rows
  BY <1>2 DEF DescribeInv
<1>3. \A r \in rows' : r.points = blob'[r.upload][r.sensor] \/ Owed(r.upload, r.sensor)'
  BY DEF DescribeInv
<1> QED BY <1>1, <1>2, <1>3 DEF DescribeInv

Rolling == {"readWindow", "writeWindow", "readStatuses", "writeStatus"}
LEMMA StatusStep ==
    ASSUME StatusInv, session'.live => session.live /\ session'.status = session.status,
           \A st : Right(st) => Right(st)',
           \A t \in Threads : \/ thread'[t] = thread[t]
                              \/ thread[t].pc \notin Rolling /\ thread'[t].pc \notin Rolling
    PROVE  StatusInv'
BY DEF StatusInv, RollingUp, Rolling

LEMMA RightSame == UploadStatuses' = UploadStatuses => \A st : Right(st) => Right(st)'
BY DEF Right

LEMMA OpenedStep ==
    ASSUME OpenedInv, UNCHANGED <<upload, session>>, rows' \subseteq rows, events' \subseteq events,
           \A w \in Workers :
              /\ worker'[w].pc \in Busy =>
                    \/ worker[w].pc \in Busy /\ worker'[w].run = worker[w].run
                    \/ worker'[w].run \in events
              /\ worker'[w].pc \in {"post", "wait"} =>
                    \/ worker[w].pc \in {"post", "wait"} /\ worker'[w].call.upload = worker[w].call.upload
                    \/ worker[w].pc \in Busy /\ worker'[w].call.upload = UploadOf[worker[w].run.file]
    PROVE  OpenedInv'
<1>1. UNCHANGED session /\ rows' \subseteq rows /\ \A u \in Uploads : Present(u)' <=> Present(u)
  BY DEF Present
<1> QED BY <1>1 DEF OpenedInv

LEMMA NotWaiting ==
    ASSUME Serial, SoleInv, NEW w \in Workers, worker[w].pc # "wait"
    PROVE  /\ \A q : ~Sent(q)
           /\ queue = {} /\ \A t \in Threads : thread[t].pc \notin Handling
           /\ worker[w].pc # "post" => \A u, s : ~Owed(u, s)
BY DEF Serial, SoleInv, Sent, Owed

\* Steps of the device and the user.
LEMMA SerialEnvironment ==
    ASSUME Serial, Typed, SerialInv,
           (\E u \in Uploads : OpenUpload(u)) \/ (\E f \in Files : PutFile(f)) \/ DeleteSession
    PROVE  SerialInv'
<1>0. /\ \A w \in Workers : worker[w].pc \in {"post", "wait"} => worker[w].call.upload \in Uploads
      /\ \A w \in Workers : worker[w].pc \in Busy => UploadOf[worker[w].run.file] \in Uploads
      /\ \A e \in events : UploadOf[e.file] \in Uploads
  BY DEF Typed, TypeOK, WorkerInv, Callback, Run
<1>1. UNCHANGED <<blob, worker, thread, queue>> /\ rows' \subseteq rows
  BY DEF OpenUpload, PutFile, DeleteSession
<1>2. SoleInv' /\ DescribeInv'
  <2>1. (\A q : Sent(q) => Sent(q)') /\ KeepsCalls /\ \A u, s : Owed(u, s) => Owed(u, s)'
    BY <1>1 DEF Sent, KeepsCalls, SameCall, Owed
  <2>2. SoleInv'
    BY <1>1, <2>1, SoleStep DEF SerialInv
  <2> QED BY <1>1, <2>1, <2>2, DescribeStep DEF SerialInv
<1>3. CASE \E u \in Uploads : OpenUpload(u)
  <2> PICK u \in Uploads : OpenUpload(u)
    BY <1>3
  <2>1. /\ session.live /\ upload[u] = "absent" /\ UNCHANGED <<session, rows, events>>
        /\ \A v \in Uploads : upload'[v] = IF v = u THEN "pending" ELSE upload[v]
    BY DEF OpenUpload, Typed, TypeOK
  <2>2. UploadStatuses' = UploadStatuses \cup {"pending"}
    BY <2>1 DEF UploadStatuses, Present
  <2>3. \A st : Right(st) => Right(st)'
    <3> DEFINE S == UploadStatuses
    <3>1. (S \cup {"pending"}) \ {"pending"} = S \ {"pending"}
      OBVIOUS
    <3>2. S \cup {"pending"} = S \/ S \ {"pending"} = S
      OBVIOUS
    <3> QED BY <2>2, <3>1, <3>2 DEF Right
  <2>4. StatusInv'
    BY <1>1, <2>1, <2>3, StatusStep DEF SerialInv
  <2>5. \A v \in Uploads : upload[v] # "absent" => upload'[v] # "absent"
    BY <2>1
  <2>6. \A v \in Uploads : upload'[v] = "gone" => upload[v] = "gone"
    BY <2>1
  <2>7. OpenedInv'
    BY <1>0, <1>1, <2>1, <2>5, <2>6 DEF SerialInv, OpenedInv
  <2> QED BY <1>2, <2>4, <2>7 DEF SerialInv
<1>4. CASE \E f \in Files : PutFile(f)
  <2> PICK f \in Files : PutFile(f)
    BY <1>4
  <2>1. UNCHANGED <<session, rows, upload>> /\ upload[UploadOf[f]] # "absent"
    BY DEF PutFile
  <2>2. \A e \in events' : e \in events \/ e.file = f
    BY DEF PutFile
  <2>3. StatusInv'
    BY <1>1, <2>1, StatusStep, RightSame DEF SerialInv, UploadStatuses, Present
  <2>4. OpenedInv'
    <3>1. \A e \in events' : upload[UploadOf[e.file]] # "absent"
      BY <2>1, <2>2 DEF SerialInv, OpenedInv
    <3> QED BY <1>1, <2>1, <3>1 DEF SerialInv, OpenedInv, Present
  <2> QED BY <1>2, <2>3, <2>4 DEF SerialInv
<1>5. CASE DeleteSession
  <2>1. /\ ~session'.live /\ rows' = {} /\ UNCHANGED events
        /\ \A v \in Uploads : upload'[v] = IF upload[v] = "absent" THEN "absent" ELSE "gone"
    BY <1>5 DEF DeleteSession, Typed, TypeOK
  <2>2. StatusInv'
    BY <2>1 DEF StatusInv
  <2>3. \A v \in Uploads : (upload'[v] = "absent" <=> upload[v] = "absent") /\ ~Present(v)'
    BY <2>1 DEF Present
  <2>4. OpenedInv'
    BY <1>0, <1>1, <2>1, <2>3 DEF SerialInv, OpenedInv
  <2> QED BY <1>2, <2>2, <2>4 DEF SerialInv
<1> QED BY <1>3, <1>4, <1>5

\* Steps that start and end an invocation.
LEMMA SerialInvocation ==
    ASSUME Serial, Typed, SerialInv,
           \/ \E t \in Threads, e \in events :
                 InvokeRefused(t, e) \/ \E w \in Workers : Invoke(t, e, w)
           \/ \E w \in Workers : Return(w)
    PROVE  SerialInv'
<1>1. UNCHANGED <<session, upload, rows, blob, queue>> /\ events' \subseteq events
  BY DEF InvokeRefused, Invoke, Return
<1>2. \A t \in Threads : thread'[t] = thread[t] \/ (thread[t].pc \notin Handling /\ thread'[t].pc \notin Handling)
  <2>1. CASE \E t \in Threads, e \in events : InvokeRefused(t, e)
    BY <2>1 DEF InvokeRefused
  <2>2. CASE \E t \in Threads, e \in events, w \in Workers : Invoke(t, e, w)
    <3> PICK t \in Threads, e \in events, w \in Workers : Invoke(t, e, w)
      BY <2>2
    <3> DEFINE rec == [FreeThread EXCEPT !.pc = "invoke", !.worker = w]
    <3>1. rec.pc \notin Handling /\ thread[t].pc \notin Handling
      BY DEF FreeThread, Handling, Ingesting, Invoke
    <3>2. thread' = [thread EXCEPT ![t] = rec]
      BY DEF Invoke
    <3> HIDE DEF rec
    <3> QED BY <3>1, <3>2, Others
  <2>3. CASE \E w \in Workers : Return(w)
    <3> PICK w \in Workers : Return(w)
      BY <2>3
    <3>1. \A t \in Threads : thread[t].pc \notin Handling
      BY NotWaiting DEF Return, SerialInv
    <3> QED BY <3>1 DEF Return, FreeThread, Handling, Ingesting
  <2> QED BY <2>1, <2>2, <2>3
<1>3. \A w \in Workers : \/ worker'[w] = worker[w]
                         \/ /\ worker[w].pc \in {"idle", "done"} /\ worker'[w].pc \in {"idle", "parse"}
                            /\ worker'[w].pc = "parse" => worker'[w].run \in events
  <2>1. CASE \E t \in Threads, e \in events : InvokeRefused(t, e)
    BY <2>1 DEF InvokeRefused
  <2>2. CASE \E t \in Threads, e \in events, w \in Workers : Invoke(t, e, w)
    <3> PICK t \in Threads, e \in events, w \in Workers : Invoke(t, e, w)
      BY <2>2
    <3> DEFINE rec == [FreeWorker EXCEPT !.pc = "parse", !.run = e]
    <3>1. rec.pc = "parse" /\ rec.run = e /\ worker[w].pc = "idle"
      BY DEF FreeWorker, Invoke
    <3>2. worker' = [worker EXCEPT ![w] = rec]
      BY DEF Invoke
    <3> HIDE DEF rec
    <3> QED BY <3>1, <3>2 DEF Typed, TypeOK
  <2>3. CASE \E w \in Workers : Return(w)
    BY <2>3 DEF Return, FreeWorker, Typed, TypeOK
  <2> QED BY <2>1, <2>2, <2>3
<1>4. (\A q : Sent(q) => Sent(q)') /\ \A u, s : Owed(u, s) => Owed(u, s)'
  <2>1. \A w \in Workers : worker[w].pc \in {"post", "wait"} => worker'[w] = worker[w]
    BY <1>3
  <2>2. \A t \in Threads : thread'[t].pc \in Handling => thread'[t] = thread[t]
    BY <1>2
  <2> QED BY <2>1, <2>2 DEF Sent, Owed
<1>5. \A w \in Workers : worker'[w].pc \in {"write", "post", "wait"} => worker'[w] = worker[w]
  BY <1>3
<1>6. SoleInv'
  BY <1>1, <1>2, <1>4, SoleStep DEF SerialInv
<1>7. DescribeInv'
  <2>1. \A t \in Threads : thread'[t].pc = "writeRows" => thread'[t] = thread[t]
    BY <1>2 DEF Handling, Ingesting
  <2>2. KeepsCalls
    BY <1>5 DEF KeepsCalls, SameCall
  <2> QED BY <1>1, <1>4, <1>5, <2>1, <2>2, DescribeStep DEF SerialInv
<1>8. StatusInv'
  BY <1>1, <1>2, StatusStep, RightSame DEF SerialInv, UploadStatuses, Present, Rolling, Handling, Ingesting
<1>9. OpenedInv'
  BY <1>1, <1>3, <1>5, OpenedStep DEF SerialInv, Busy
<1> QED BY <1>6, <1>7, <1>8, <1>9 DEF SerialInv

\* Steps of the invocation.
LEMMA SerialWorker ==
    ASSUME Serial, Typed, SerialInv, NEW w \in Workers,
           Parse(w) \/ ReadBlob(w) \/ WriteBlob(w) \/ Post(w)
    PROVE  SerialInv'
<1> DEFINE f == worker[w].run.file
           u == UploadOf[f]
           s == SensorOf[f]
<1>0. /\ worker[w] \in WorkerRecord
      /\ worker[w].pc \in Busy => f \in Files /\ u \in Uploads
      /\ worker[w].pc \in {"read", "write"} => s \in Sensors
  BY DEF Typed, TypeOK, WorkerInv, Run, Maybe, Busy
<1>1. UNCHANGED <<session, upload, rows, thread, events>> /\ worker[w].pc \in Busy \ {"wait"}
  BY DEF Parse, ReadBlob, WriteBlob, Post, Busy
<1>2. /\ \A v \in Workers : v = w
      /\ \A q : ~Sent(q)
      /\ queue = {} /\ \A t \in Threads : thread[t].pc \notin Handling
      /\ worker[w].pc # "post" => \A x, y : ~Owed(x, y)
  BY <1>1, NotWaiting DEF SerialInv, Serial
<1>3. StatusInv'
  BY <1>1, StatusStep, RightSame DEF SerialInv, UploadStatuses, Present
<1>4. ASSUME NEW rec, worker' = [worker EXCEPT ![w] = rec] PROVE worker'[w] = rec
  BY <1>4 DEF Typed, TypeOK
<1>5. ASSUME queue' = queue PROVE SoleInv'
  BY <1>1, <1>2, <1>5, SoleStep DEF SerialInv
<1>6. ASSUME worker'[w].run = worker[w].run,
             worker'[w].pc \in {"post", "wait"} =>
                \/ worker[w].pc = "post" /\ worker'[w].call = worker[w].call
                \/ worker'[w].call.upload = u
      PROVE  OpenedInv'
  BY <1>1, <1>2, <1>6, OpenedStep DEF SerialInv
<1>7. ASSUME blob' = blob,
             worker'[w].pc \in {"post", "wait"} => worker'[w].call.status = "failed",
             worker[w].pc # "post"
      PROVE  DescribeInv'
  <2>1. \A r \in rows : r.points = blob[r.upload][r.sensor]
    BY <1>2, <1>7 DEF SerialInv, DescribeInv
  <2> QED BY <1>1, <1>2, <1>7, <2>1 DEF SerialInv, DescribeInv, Handling, Ingesting
<1>8. CASE Parse(w)
  <2>0. UNCHANGED <<blob, queue>> /\ worker[w].pc = "parse"
    BY <1>8 DEF Parse
  <2>1. /\ worker'[w].run = worker[w].run
        /\ \/ worker'[w].pc \in {"done", "read"}
           \/ /\ worker'[w].pc = "post" /\ worker'[w].call.status = "failed"
              /\ worker'[w].call.upload = u
    <3>1. CASE worker' = [worker EXCEPT ![w].pc = "done"]
      BY <1>0, <3>1 DEF Typed, TypeOK, WorkerRecord
    <3>2. CASE worker' = [worker EXCEPT ![w].pc = "read"]
      BY <1>0, <3>2 DEF Typed, TypeOK, WorkerRecord
    <3>3. CASE worker' = [worker EXCEPT ![w].pc = "post",
                                        ![w].call = Report1(w, "failed", {}, None, None)]
      <4>1. /\ Report1(w, "failed", {}, None, None).status = "failed"
            /\ Report1(w, "failed", {}, None, None).upload = u
        BY DEF Report1
      <4> HIDE DEF Report1
      <4> QED BY <1>0, <3>3, <4>1 DEF Typed, TypeOK, WorkerRecord
    <3> QED BY <1>8, <3>1, <3>2, <3>3 DEF Parse
  <2> QED BY <1>3, <1>5, <1>6, <1>7, <2>0, <2>1 DEF SerialInv
<1>9. CASE ReadBlob(w)
  <2>0. UNCHANGED <<blob, queue>> /\ worker[w].pc = "read"
    BY <1>9 DEF ReadBlob
  <2>1. PICK seen : worker' = [worker EXCEPT ![w].pc = "write", ![w].seen = seen]
    BY <1>9 DEF ReadBlob
  <2>2. worker'[w].run = worker[w].run /\ worker'[w].pc = "write"
    BY <1>0, <2>1 DEF Typed, TypeOK, WorkerRecord
  <2> QED BY <1>3, <1>5, <1>6, <1>7, <2>0, <2>2 DEF SerialInv
<1>10. CASE WriteBlob(w)
  <2> DEFINE merged == worker[w].seen \cup Parsed(f)
  <2>0. queue' = queue /\ worker[w].pc = "write" /\ u \in Uploads /\ s \in Sensors
    BY <1>0, <1>10 DEF WriteBlob, Busy
  <2>1. PICK lo, hi : worker' = [worker EXCEPT ![w].pc = "post",
                                     ![w].call = Report1(w, "processed", merged, lo, hi)]
    BY <1>10 DEF WriteBlob, Serial
  <2>2. /\ worker'[w].run = worker[w].run /\ worker'[w].pc = "post"
        /\ worker'[w].call = Report1(w, "processed", merged, lo, hi)
    <3> DEFINE r1 == Report1(w, "processed", merged, lo, hi)
               rec == [worker[w] EXCEPT !.pc = "post", !.call = r1]
    <3>0. worker' = [worker EXCEPT ![w] = rec]
      BY <2>1
    <3> HIDE DEF r1
    <3>1. rec.run = worker[w].run /\ rec.pc = "post" /\ rec.call = r1
      BY <1>0 DEF WorkerRecord
    <3> HIDE DEF rec
    <3> QED BY <1>4, <3>0, <3>1 DEF r1
  <2>3. /\ worker'[w].call.file = f /\ worker'[w].call.upload = u
        /\ worker'[w].call.status = "processed" /\ worker'[w].call.points = merged
    BY <2>2 DEF Report1
  <2>4. blob' = [blob EXCEPT ![u][s] = merged]
    BY <1>10 DEF WriteBlob
  <2> HIDE DEF merged
  <2>5. blob'[u][s] = merged
        /\ \A x \in Uploads, y \in Sensors : x # u \/ y # s => blob'[x][y] = blob[x][y]
    BY <2>0, <2>4 DEF Typed, TypeOK
  <2>6. \A x, y : x = u /\ y = s => Owed(x, y)'
    BY <1>1, <1>2, <2>2, <2>3 DEF Owed
  <2>7. ASSUME NEW r \in rows PROVE r.points = blob'[r.upload][r.sensor] \/ Owed(r.upload, r.sensor)'
    <3>1. r.upload \in Uploads /\ r.sensor \in Sensors
      BY DEF Typed, TypeOK, Row
    <3>2. r.points = blob[r.upload][r.sensor]
      BY <1>2, <2>0 DEF SerialInv, DescribeInv
    <3> QED BY <2>5, <2>6, <3>1, <3>2
  <2>8. DescribeInv'
    BY <1>1, <1>2, <2>2, <2>3, <2>5, <2>7 DEF DescribeInv, Handling, Ingesting
  <2> QED BY <1>3, <1>5, <1>6, <2>0, <2>2, <2>3, <2>8 DEF SerialInv
<1>11. CASE Post(w)
  <2> DEFINE rec == [worker[w] EXCEPT !.pc = "wait"]
  <2>1. /\ worker[w].pc = "post" /\ UNCHANGED blob
        /\ queue' = {worker[w].call} /\ worker' = [worker EXCEPT ![w] = rec]
    BY <1>2, <1>11 DEF Post
  <2>2. rec.pc = "wait" /\ rec.run = worker[w].run /\ rec.call = worker[w].call
    BY <1>0 DEF WorkerRecord
  <2> HIDE DEF rec
  <2>3. /\ worker'[w].pc = "wait" /\ worker'[w].run = worker[w].run
        /\ worker'[w].call = worker[w].call
    BY <1>4, <2>1, <2>2
  <2>4. SoleInv'
    BY <1>1, <1>2, <2>1, <2>3 DEF SoleInv, Sent
  <2>5. KeepsCalls /\ \A x, y : Owed(x, y) => Owed(x, y)'
    BY <1>1, <1>2, <2>1, <2>3 DEF KeepsCalls, SameCall, Owed
  <2>6. DescribeInv'
    BY <1>1, <1>2, <2>1, <2>3, <2>5, DescribeStep DEF SerialInv
  <2> QED BY <1>3, <1>6, <2>1, <2>3, <2>4, <2>6 DEF SerialInv
<1> QED BY <1>8, <1>9, <1>10, <1>11

\* A request is taken up by a thread, or refused because the session is gone.
LEMMA SerialLoad ==
    ASSUME Serial, Typed, SerialInv, NEW t \in Threads, NEW q \in queue, Load(t, q)
    PROVE  SerialInv'
<1>1. UNCHANGED <<session, upload, rows, blob, events>> /\ thread[t].pc = "idle" /\ queue' = queue \ {q}
  BY DEF Load
<1>2. Sent(q) /\ q \in Request /\ q \in Callback /\ upload[q.upload] # "absent"
  <2>1. Sent(q) /\ upload[q.upload] # "absent"
    BY DEF SerialInv, SoleInv, OpenedInv, Sent
  <2> QED BY <2>1 DEF Typed, TypeOK, Request, Serial
<1>3. queue' = {} /\ \A v \in Threads : thread[v].pc \notin Handling
  <2>1. \A p \in queue : p = q
    BY <1>2 DEF SerialInv, SoleInv, Sent, Serial
  <2> QED BY <1>1, <2>1 DEF SerialInv, SoleInv
<1>4. CASE ~Present(q.upload) /\ Reply(q, FALSE) /\ UNCHANGED thread
  <2>1. ~session.live /\ rows = {}
    BY <1>2, <1>4 DEF SerialInv, OpenedInv, Present, Callback
  <2>2. \A w \in Workers : \/ worker'[w] = worker[w]
                           \/ /\ worker[w].pc = "wait" /\ worker'[w].run = worker[w].run
                              /\ worker'[w].pc \in {"post", "done"}
                              /\ SameCall(worker'[w].call, worker[w].call)
    BY <1>4, ReplyCase
  <2>3. SoleInv'
    BY <1>3, <1>4 DEF SoleInv
  <2>4. OpenedInv'
    BY <1>1, <2>2, OpenedStep DEF SerialInv, SameCall, Busy
  <2>5. DescribeInv'
    <3>1. KeepsCalls
      BY <2>2 DEF KeepsCalls, SameCall
    <3>2. \A w \in Workers : worker'[w].pc = "write" => worker'[w] = worker[w]
      BY <2>2
    <3> QED BY <1>1, <1>4, <2>1, <3>1, <3>2, DescribeStep DEF SerialInv
  <2>6. StatusInv'
    BY <1>1, <2>1 DEF StatusInv
  <2> QED BY <2>3, <2>4, <2>5, <2>6 DEF SerialInv
<1>5. CASE Present(q.upload) /\ UNCHANGED worker
  <2> DEFINE pc == IF ~IsCallback(q) THEN "report"
                   ELSE IF q.status = "processed" THEN "readRows" ELSE "status"
             rec == [FreeThread EXCEPT !.pc = pc, !.req = q, !.saw = upload[q.upload]]
  <2>1. /\ rec.pc = pc /\ rec.req = q /\ pc \in {"readRows", "status"}
        /\ pc = "status" => q.status # "processed"
    BY <1>2 DEF FreeThread, IsCallback
  <2>2. thread' = [thread EXCEPT ![t] = rec]
    BY <1>5 DEF Load
  <2> HIDE DEF pc, rec
  <2>3. /\ thread'[t].pc \in {"readRows", "status"} /\ thread'[t].req = q
        /\ thread'[t].pc = "status" => q.status # "processed"
        /\ \A v \in Threads \ {t} : thread'[v] = thread[v]
    BY <2>1, <2>2, Others
  <2>4. SoleInv'
    BY <1>2, <1>3, <1>5, <2>3 DEF SoleInv, Sent
  <2>5. OpenedInv'
    BY <1>1, <1>5, OpenedStep DEF SerialInv
  <2>6. DescribeInv'
    <3>1. KeepsCalls
      BY <1>5 DEF KeepsCalls, SameCall
    <3>2. ASSUME NEW x, NEW y, Owed(x, y) PROVE Owed(x, y)'
      <4>1. q.status = "processed"
        BY <1>2, <3>2, SoleCall DEF Owed
      <4>2. \A v \in Threads : thread'[v].pc \in Handling => thread'[v].pc = "readRows"
        BY <1>3, <2>3, <4>1
      <4> QED BY <1>5, <3>2, <4>2 DEF Owed
    <3>3. \A v \in Threads : thread'[v].pc = "writeRows" => thread'[v] = thread[v]
      BY <2>3
    <3> QED BY <1>1, <1>5, <3>1, <3>2, <3>3, DescribeStep DEF SerialInv
  <2>7. StatusInv'
    <3>1. thread[t].pc \notin Rolling /\ thread'[t].pc \notin Rolling
      BY <1>1, <2>3 DEF Rolling
    <3> QED BY <1>1, <2>3, <3>1, StatusStep, RightSame DEF SerialInv, UploadStatuses, Present
  <2> QED BY <2>4, <2>5, <2>6, <2>7 DEF SerialInv
<1> QED BY <1>4, <1>5 DEF Load

\* A handler at work is alone, and the invocation waits for its answer.
LEMMA HandlerAlone ==
    ASSUME Serial, Typed, StreamInv, SerialInv, NEW t \in Threads, thread[t].pc \in Handling
    PROVE  LET q == thread[t].req IN
           /\ q \in Callback /\ upload[q.upload] # "absent" /\ queue = {}
           /\ \A v \in Threads \ {t} : thread[v].pc \notin Handling
           /\ Sent(q) /\ \A w \in Workers : worker[w].pc = "wait" /\ worker[w].call = q
           /\ thread[t].pc # "report"
           /\ ~Present(q.upload) => ~session.live /\ rows = {}
           /\ ~session.live => ~Present(q.upload) /\ rows = {}
<1> DEFINE q == thread[t].req
<1>1. q \in Callback /\ upload[q.upload] # "absent" /\ thread[t].pc # "report"
  BY DEF Typed, ThreadInv, Request, Serial, StreamInv, HandlerOk
<1>2. q.upload \in Uploads
  BY <1>1, CallbackFields
<1>3. Sent(q) /\ queue = {} /\ \A v \in Threads \ {t} : thread[v].pc \notin Handling
  BY DEF SerialInv, SoleInv
<1>4. ~Present(q.upload) => ~session.live /\ rows = {}
  BY <1>1, <1>2 DEF Present, SerialInv, OpenedInv
<1>5. ~session.live => ~Present(q.upload) /\ rows = {}
  BY <1>2 DEF SerialInv, OpenedInv
<1> QED BY <1>1, <1>3, <1>4, <1>5, SoleCall

\* Where every handler's step leaves the queue and the uploads.
OthersSame(t) == \A v \in Threads \ {t} : thread'[v] = thread[v]
Shown == \A u \in Uploads : /\ upload'[u] = "absent" <=> upload[u] = "absent"
                            /\ upload'[u] = "gone" <=> upload[u] = "gone"

LEMMA StepsOn ==
    ASSUME Serial, Typed, StreamInv, SerialInv, NEW t \in Threads, thread[t].pc \in Handling,
           UNCHANGED <<worker, queue, events>>, OthersSame(t), Shown, session'.live = session.live,
           thread'[t].pc \in Handling, thread'[t].req = thread[t].req, ~session.live => rows' = {}
    PROVE  SoleInv' /\ OpenedInv'
<1>1. SoleInv'
  BY HandlerAlone DEF SoleInv, Sent, OthersSame
<1>2. /\ \A w \in Workers : worker[w].pc \in {"post", "wait"} => worker[w].call.upload \in Uploads
      /\ \A w \in Workers : worker[w].pc \in Busy => UploadOf[worker[w].run.file] \in Uploads
      /\ \A e \in events : UploadOf[e.file] \in Uploads
  BY DEF Typed, TypeOK, WorkerInv, Callback, Run
<1>3. OpenedInv'
  BY <1>2 DEF SerialInv, OpenedInv, Shown, Present
<1> QED BY <1>1, <1>3

LEMMA Ends ==
    ASSUME Serial, Typed, StreamInv, SerialInv, NEW t \in Threads, thread[t].pc \in Handling,
           UNCHANGED <<upload, queue, events, rows, blob>>, session'.live = session.live,
           NEW ok, Finish(t, ok), rows = {} \/ thread[t].pc \notin {"readRows", "writeRows"}
    PROVE  /\ SoleInv' /\ OpenedInv' /\ DescribeInv'
           /\ \A v \in Threads : thread'[v].pc \notin Rolling
<1>1. OthersSame(t) /\ thread'[t] = FreeThread
  BY Others DEF Finish, OthersSame
<1>2. \A v \in Threads : thread'[v].pc \notin Handling
  BY <1>1, HandlerAlone DEF OthersSame, FreeThread, Handling, Ingesting
<1>3. \A w \in Workers : \/ worker'[w] = worker[w]
                         \/ /\ worker[w].pc = "wait" /\ worker'[w].run = worker[w].run
                            /\ worker'[w].pc \in {"post", "done"}
                            /\ SameCall(worker'[w].call, worker[w].call)
  BY ReplyCase DEF Finish
<1>4. SoleInv'
  BY <1>2, HandlerAlone DEF SoleInv
<1>5. OpenedInv'
  <2>1. /\ \A w \in Workers : /\ worker'[w].pc \in Busy =>
                                   worker[w].pc \in Busy /\ worker'[w].run = worker[w].run
                              /\ worker'[w].pc \in {"post", "wait"} =>
                                   /\ worker[w].pc \in {"post", "wait"}
                                   /\ worker'[w].call.upload = worker[w].call.upload
    BY <1>3 DEF SameCall, Busy
  <2> QED BY <2>1 DEF SerialInv, OpenedInv, Present
<1>6. DescribeInv'
  <2>1. KeepsCalls
    BY <1>3 DEF KeepsCalls, SameCall
  <2>2. \A v \in Threads : thread'[v].pc # "writeRows"
    BY <1>2 DEF Handling, Ingesting
  <2>3. \A r \in rows : r.points = blob[r.upload][r.sensor]
    BY DEF SerialInv, DescribeInv, Owed
  <2> QED BY <2>1, <2>2, <2>3, DescribeStep DEF SerialInv
<1>7. \A v \in Threads : thread'[v].pc \notin Rolling
  BY <1>2 DEF Rolling, Handling, Ingesting
<1> QED BY <1>4, <1>5, <1>6, <1>7

\* Past the rows, nothing is owed and the rows stay.
LEMMA RowsStay ==
    ASSUME Serial, Typed, StreamInv, SerialInv, NEW t \in Threads, thread[t].pc \in Handling,
           UNCHANGED <<worker, rows, blob>>, OthersSame(t), thread'[t].pc \notin {"readRows", "writeRows"},
           thread[t].pc \notin {"readRows", "writeRows"}
    PROVE  DescribeInv'
<1>1. KeepsCalls /\ \A w \in Workers : worker'[w].pc = "write" => worker'[w] = worker[w]
  BY DEF KeepsCalls, SameCall
<1>2. \A v \in Threads : thread'[v].pc = "writeRows" => thread'[v] = thread[v]
  BY DEF OthersSame
<1>3. \A u, s : ~Owed(u, s)
  BY DEF Owed
<1> QED BY <1>1, <1>2, <1>3, DescribeStep DEF SerialInv

\* One case per transaction of a handler.
LEMMA SerialHandler ==
    ASSUME Serial, Typed, StreamInv, SerialInv, NEW t \in Threads, Handler(t)
    PROVE  SerialInv'
<1> DEFINE q == thread[t].req
<1>0. thread[t] \in ThreadRecord
  BY DEF Typed, TypeOK
<1>1. thread[t].pc \in Handling /\ UNCHANGED <<blob, queue, events>>
  BY DEF Handler, ReadRows, WriteRows, SetStatus, ApplyReport, ReadWindow,
         WriteWindow, ReadStatuses, WriteStatus, Handling, Ingesting
<1>2. /\ q \in Callback /\ upload[q.upload] # "absent" /\ queue = {}
      /\ \A v \in Threads \ {t} : thread[v].pc \notin Handling
      /\ Sent(q) /\ \A w \in Workers : worker[w].pc = "wait" /\ worker[w].call = q
      /\ thread[t].pc # "report"
      /\ ~Present(q.upload) => ~session.live /\ rows = {}
      /\ ~session.live => ~Present(q.upload) /\ rows = {}
  BY <1>1, HandlerAlone
<1>3. q.upload \in Uploads /\ q.file \in Files /\ SensorOf[q.file] \in Sensors
  BY <1>2, CallbackFields
<1>4. \A v \in Threads \ {t} : thread[v].pc \notin Rolling \cup {"readRows", "writeRows"}
  BY <1>2 DEF Rolling, Handling, Ingesting
<1>5. upload' = upload => Shown /\ \A st : Right(st) => Right(st)'
  BY RightSame DEF Shown, UploadStatuses, Present
<1>6. ASSUME NEW rec, thread' = [thread EXCEPT ![t] = rec]
      PROVE  thread'[t] = rec /\ OthersSame(t)
  BY <1>6, Others DEF OthersSame
<1>7. ASSUME NEW pc, Goto(t, pc)
      PROVE  thread'[t].pc = pc /\ thread'[t].req = q /\ OthersSame(t)
  BY <1>7, GotoMoves DEF OthersSame
<1>8. CASE ReadRows(t)
  <2> DEFINE seen == {r \in rows : r.upload = q.upload /\ r.sensor = SensorOf[q.file]}
             rec == [thread[t] EXCEPT !.pc = "writeRows", !.rows = seen]
  <2>1. /\ thread[t].pc = "readRows" /\ UNCHANGED <<session, upload, rows, worker>>
        /\ thread' = [thread EXCEPT ![t] = rec]
    BY <1>8 DEF ReadRows
  <2> HIDE DEF seen
  <2>2. rec.pc = "writeRows" /\ rec.req = q /\ rec.rows = seen
    BY <1>0 DEF ThreadRecord
  <2> HIDE DEF rec
  <2>3. /\ thread'[t].pc = "writeRows" /\ thread'[t].req = q /\ thread'[t].rows = seen
        /\ OthersSame(t)
    BY <1>6, <2>1, <2>2
  <2>4. SoleInv' /\ OpenedInv'
    BY <1>1, <1>2, <1>5, <2>1, <2>3, StepsOn DEF Handling, Ingesting
  <2>5. StatusInv'
    BY <1>4, <1>5, <2>1, <2>3, StatusStep DEF SerialInv, OthersSame, Rolling
  <2>6. \A r \in rows : Owed(r.upload, r.sensor) => Owed(r.upload, r.sensor)'
    BY <2>1, <2>3 DEF Owed, OthersSame
  <2>7. ASSUME NEW v \in Threads, thread'[v].pc = "writeRows"
        PROVE  {r \in rows : r.upload = thread'[v].req.upload /\ r.sensor = SensorOf[thread'[v].req.file]}
                  \subseteq thread'[v].rows
    BY <1>4, <2>3, <2>7 DEF seen, OthersSame
  <2>8. DescribeInv'
    BY <1>1, <2>1, <2>6, <2>7 DEF SerialInv, DescribeInv, Stored
  <2> QED BY <2>4, <2>5, <2>8 DEF SerialInv
<1>9. CASE WriteRows(t)
  <2> DEFINE new == [upload |-> q.upload, sensor |-> SensorOf[q.file],
                     points |-> q.points, by |-> q]
  <2>1. thread[t].pc = "writeRows" /\ UNCHANGED <<session, upload>>
    BY <1>9 DEF WriteRows
  <2>2. CASE /\ Present(q.upload) /\ rows' = (rows \ thread[t].rows) \cup {new}
             /\ Goto(t, "status") /\ UNCHANGED worker
    <3>1. thread'[t].pc = "status" /\ thread'[t].req = q /\ OthersSame(t)
      BY <1>7, <2>2
    <3>2. SoleInv' /\ OpenedInv'
      BY <1>1, <1>2, <1>5, <2>1, <2>2, <3>1, StepsOn DEF Handling, Ingesting
    <3>3. StatusInv'
      BY <1>4, <1>5, <2>1, <3>1, StatusStep DEF SerialInv, OthersSame, Rolling
    <3>4. new.upload = q.upload /\ new.sensor = SensorOf[q.file] /\ new.points = q.points
      OBVIOUS
    <3> HIDE DEF new
    <3>5. q.points = blob[q.upload][SensorOf[q.file]]
      <4>1. q.status = "processed"
        BY <2>1 DEF StreamInv, HandlerOk
      <4> QED BY <1>2, <4>1 DEF SerialInv, DescribeInv, Sent
    <3>6. ASSUME NEW r \in rows' PROVE r.points = blob[r.upload][r.sensor]
      <4>1. CASE r = new
        BY <3>4, <3>5, <4>1
      <4>2. CASE r \in rows /\ r \notin thread[t].rows
        <5>1. ~(r.upload = q.upload /\ r.sensor = SensorOf[q.file])
          BY <2>1, <4>2 DEF SerialInv, DescribeInv
        <5>2. ~Owed(r.upload, r.sensor)
          BY <1>2, <5>1 DEF Owed
        <5> QED BY <4>2, <5>2 DEF SerialInv, DescribeInv
      <4> QED BY <2>2, <4>1, <4>2
    <3>7. \A v \in Threads : thread'[v].pc # "writeRows"
      BY <1>4, <3>1 DEF OthersSame
    <3>8. DescribeInv'
      BY <1>1, <2>2, <3>6, <3>7 DEF SerialInv, DescribeInv, Stored
    <3> QED BY <3>2, <3>3, <3>8 DEF SerialInv
  <2>3. CASE ~Present(q.upload) /\ Finish(t, FALSE) /\ UNCHANGED rows
    <3>1. ~session.live /\ rows = {}
      BY <1>2, <2>3
    <3>2. SoleInv' /\ OpenedInv' /\ DescribeInv'
      BY <1>1, <2>1, <2>3, <3>1, Ends
    <3>3. StatusInv'
      BY <2>1, <3>1 DEF StatusInv
    <3> QED BY <3>2, <3>3 DEF SerialInv
  <2> QED BY <1>9, <2>2, <2>3 DEF WriteRows
<1>10. CASE SetStatus(t)
  <2>1. thread[t].pc = "status" /\ UNCHANGED <<session, rows, worker>>
    BY <1>10 DEF SetStatus
  <2>2. /\ thread'[t].pc \in {"readWindow", "readStatuses"} /\ thread'[t].req = q /\ OthersSame(t)
    <3>1. Goto(t, "readWindow") \/ Goto(t, "readStatuses")
      BY <1>10 DEF SetStatus
    <3> QED BY <1>7, <3>1
  <2>3. Shown
    <3>1. q.status \in {"processed", "failed"}
      BY <1>2 DEF Callback
    <3>2. SetUpload(q.upload, q.status) \/ UNCHANGED upload
      BY <1>10 DEF SetStatus
    <3> QED BY <1>3, <3>1, <3>2 DEF SetUpload, Shown, Present, Typed, TypeOK
  <2>4. SoleInv' /\ OpenedInv'
    BY <1>1, <1>2, <2>1, <2>2, <2>3, StepsOn DEF Handling, Ingesting
  <2>5. DescribeInv'
    BY <1>1, <2>1, <2>2, RowsStay
  <2>6. StatusInv'
    <3>1. RollingUp(t)'
      BY <2>2 DEF RollingUp
    <3>2. \A v \in Threads : thread'[v].pc # "writeStatus"
      BY <1>4, <2>2 DEF OthersSame, Rolling
    <3> QED BY <3>1, <3>2 DEF StatusInv
  <2> QED BY <2>4, <2>5, <2>6 DEF SerialInv
<1>11. CASE ReadWindow(t)
  <2> DEFINE lo == IF q.lo # None /\ q.lo < session.lo THEN q.lo ELSE None
             hi == IF q.hi # None /\ (session.hi = None \/ q.hi > session.hi)
                   THEN q.hi ELSE None
             rec == [thread[t] EXCEPT !.pc = "writeWindow", !.lo = lo, !.hi = hi]
  <2>1. /\ thread[t].pc = "readWindow" /\ UNCHANGED <<session, upload, rows, worker>>
        /\ thread' = [thread EXCEPT ![t] = rec]
    BY <1>11 DEF ReadWindow
  <2> HIDE DEF lo, hi
  <2>2. rec.pc = "writeWindow" /\ rec.req = q
    BY <1>0 DEF ThreadRecord
  <2> HIDE DEF rec
  <2>3. thread'[t].pc = "writeWindow" /\ thread'[t].req = q /\ OthersSame(t)
    BY <1>6, <2>1, <2>2
  <2>4. SoleInv' /\ OpenedInv'
    BY <1>1, <1>2, <1>5, <2>1, <2>3, StepsOn DEF Handling, Ingesting
  <2>5. DescribeInv'
    BY <1>1, <2>1, <2>3, RowsStay
  <2>6. StatusInv'
    <3>1. RollingUp(t)'
      BY <2>3 DEF RollingUp
    <3>2. \A v \in Threads : thread'[v].pc # "writeStatus"
      BY <1>4, <2>3 DEF OthersSame, Rolling
    <3> QED BY <3>1, <3>2 DEF StatusInv
  <2> QED BY <2>4, <2>5, <2>6 DEF SerialInv
<1>12. CASE WriteWindow(t)
  <2>1. thread[t].pc = "writeWindow" /\ UNCHANGED <<upload, rows>>
    BY <1>12 DEF WriteWindow
  <2>2. session'.live = session.live
    BY <1>12 DEF WriteWindow, Typed, TypeOK
  <2>3. CASE Goto(t, "readStatuses") /\ UNCHANGED worker
    <3>1. thread'[t].pc = "readStatuses" /\ thread'[t].req = q /\ OthersSame(t)
      BY <1>7, <2>3
    <3>2. SoleInv' /\ OpenedInv'
      BY <1>1, <1>2, <1>5, <2>1, <2>2, <2>3, <3>1, StepsOn DEF Handling
    <3>3. DescribeInv'
      BY <1>1, <2>1, <2>3, <3>1, RowsStay
    <3>4. StatusInv'
      <4>1. RollingUp(t)'
        BY <3>1 DEF RollingUp
      <4>2. \A v \in Threads : thread'[v].pc # "writeStatus"
        BY <1>4, <3>1 DEF OthersSame, Rolling
      <4> QED BY <4>1, <4>2 DEF StatusInv
    <3> QED BY <3>2, <3>3, <3>4 DEF SerialInv
  <2>4. CASE ~session.live /\ Finish(t, FALSE)
    <3>1. SoleInv' /\ OpenedInv' /\ DescribeInv'
      BY <1>1, <2>1, <2>2, <2>4, Ends
    <3>2. StatusInv'
      BY <2>2, <2>4 DEF StatusInv
    <3> QED BY <3>1, <3>2 DEF SerialInv
  <2> QED BY <1>12, <2>3, <2>4 DEF WriteWindow
<1>13. CASE ReadStatuses(t)
  <2> DEFINE new == Aggregate(UploadStatuses)
             next == IF new = session.status THEN None ELSE new
             rec == [thread[t] EXCEPT !.pc = "writeStatus", !.next = next]
  <2>1. thread[t].pc = "readStatuses" /\ UNCHANGED <<session, upload, rows>>
    BY <1>13 DEF ReadStatuses
  <2>2. CASE session.live /\ UNCHANGED worker /\ thread' = [thread EXCEPT ![t] = rec]
    <3>1. rec.pc = "writeStatus" /\ rec.req = q /\ rec.next = next
      <4> HIDE DEF next
      <4> QED BY <1>0 DEF ThreadRecord
    <3> HIDE DEF rec
    <3>2. thread'[t].pc = "writeStatus" /\ thread'[t].req = q /\ thread'[t].next = next /\ OthersSame(t)
      BY <1>6, <2>2, <3>1
    <3>3. SoleInv' /\ OpenedInv'
      BY <1>1, <1>2, <1>5, <2>1, <2>2, <3>2, StepsOn DEF Handling
    <3>4. DescribeInv'
      BY <1>1, <2>1, <2>2, <3>2, RowsStay
    <3>5. UploadStatuses' = UploadStatuses
      BY <2>1 DEF UploadStatuses, Present
    <3>6. StatusInv'
      <4>1. \A v \in Threads : thread'[v].pc = "writeStatus" => v = t
        BY <1>4, <3>2 DEF OthersSame, Rolling
      <4>2. next # None => next = new /\ RollingUp(t)'
        BY <3>2 DEF RollingUp
      <4>3. next = None => session.status = new
        BY AggregateIsStatus DEF Statuses
      <4>4. session' = session
        BY <2>1
      <4>5. CASE next = None
        <5>1. session.status = new
          BY <4>3, <4>5
        <5>2. Right(session.status)'
          BY <3>5, <4>4, <5>1 DEF Right
        <5>3. \A v \in Threads : thread'[v].pc = "writeStatus" => thread'[v].next = None
          BY <3>2, <4>1, <4>5
        <5> QED BY <5>2, <5>3 DEF StatusInv
      <4>6. CASE next # None
        <5> HIDE DEF next
        <5>1. Right(thread[t].next)'
          BY <3>2, <3>5, <4>2, <4>6 DEF Right
        <5>2. \A v \in Threads : thread'[v].pc = "writeStatus" => Right(thread[v].next)'
          BY <4>1, <5>1
        <5> QED BY <4>2, <4>6, <5>2 DEF StatusInv
      <4> QED BY <4>5, <4>6
    <3> QED BY <3>3, <3>4, <3>6 DEF SerialInv
  <2>3. CASE ~session.live /\ Finish(t, TRUE)
    <3>1. SoleInv' /\ OpenedInv' /\ DescribeInv'
      BY <1>1, <2>1, <2>3, Ends
    <3>2. StatusInv'
      BY <2>1, <2>3 DEF StatusInv
    <3> QED BY <3>1, <3>2 DEF SerialInv
  <2> QED BY <1>13, <2>2, <2>3 DEF ReadStatuses
<1>14. CASE WriteStatus(t)
  <2>1. /\ thread[t].pc = "writeStatus" /\ UNCHANGED <<upload, rows>>
        /\ Finish(t, session.live \/ thread[t].next = None)
    BY <1>14 DEF WriteStatus
  <2>2. /\ session'.live = session.live
        /\ session.live => session'.status =
              IF thread[t].next # None THEN thread[t].next ELSE session.status
    BY <1>14 DEF WriteStatus, Typed, TypeOK
  <2>3. SoleInv' /\ OpenedInv' /\ DescribeInv' /\ \A v \in Threads : thread'[v].pc \notin Rolling
    BY <1>1, <2>1, <2>2, Ends
  <2>4. StatusInv'
    <3> SUFFICES ASSUME session.live PROVE Right(session.status)'
      BY <2>2, <2>3 DEF StatusInv, Rolling
    <3>1. CASE thread[t].next # None
      <4>1. Right(thread[t].next)
        BY <2>1, <3>1 DEF SerialInv, StatusInv
      <4> QED BY <1>5, <2>1, <2>2, <3>1, <4>1 DEF Right
    <3>2. CASE thread[t].next = None
      <4>1. \A v \in Threads : ~RollingUp(v)
        BY <1>4, <2>1, <3>2 DEF RollingUp, Rolling
      <4>2. Right(session.status)
        BY <4>1 DEF SerialInv, StatusInv
      <4> QED BY <1>5, <2>1, <2>2, <3>2, <4>2 DEF Right
    <3> QED BY <3>1, <3>2
  <2> QED BY <2>3, <2>4 DEF SerialInv
<1>15. ~ApplyReport(t)
  BY <1>2 DEF ApplyReport
<1> QED BY <1>8, <1>9, <1>10, <1>11, <1>12, <1>13, <1>14, <1>15 DEF Handler

LEMMA SerialNext == Serial /\ Typed /\ StreamInv /\ SerialInv /\ [Next]_vars => SerialInv'
<1> SUFFICES ASSUME Serial, Typed, StreamInv, SerialInv, [Next]_vars PROVE SerialInv'
  OBVIOUS
<1>1. CASE Next
  <2>1. (\A q \in Reports : ~SendReport(q)) /\ (\A t \in Threads : ~InvokeTimeout(t))
        /\ \A w \in Workers : ~Timeout(w) /\ ~Crash(w) /\ ~PutFails(w)
    BY DEF Serial, InvokeTimeout, Timeout, Crash, PutFails
  <2> QED BY <1>1, <2>1, SerialEnvironment, SerialInvocation, SerialWorker, SerialLoad, SerialHandler
       DEF Next, Dispatch, WorkerStep
<1>2. CASE UNCHANGED vars
  <2>1. UNCHANGED <<session, upload, rows, blob, events, worker, thread, queue>>
    BY <1>2 DEF vars
  <2>2. SoleInv' /\ OpenedInv'
    BY <2>1 DEF SerialInv, SoleInv, OpenedInv, Sent, Present
  <2>3. DescribeInv'
    BY <2>1 DEF SerialInv, DescribeInv, Owed
  <2>4. StatusInv'
    BY <2>1, StatusStep, RightSame DEF SerialInv, UploadStatuses, Present
  <2> QED BY <2>2, <2>3, <2>4 DEF SerialInv
<1> QED BY <1>1, <1>2

LEMMA SerialAlways ==
    ASSUME Serial
    PROVE  Spec => [](Typed /\ StreamInv /\ SerialInv)
<1>1. Init => StreamInv /\ SerialInv
  BY StreamInit, SerialInit
<1>2. Typed /\ Typed' /\ StreamInv /\ SerialInv /\ [Next]_vars => StreamInv' /\ SerialInv'
  BY StreamNext, SerialNext
<1> QED BY <1>1, <1>2, TypeCorrect, PTL DEF Spec

\* With one invocation at a time and prompt answers, every row describes the
\* stored object exactly once nothing is being processed, for any number of
\* uploads, files, threads and puts, also when the session is deleted.
THEOREM SerialRowsDescribe ==
    ASSUME Serial
    PROVE  Spec => []RowsDescribeBlobs
<1>1. SerialInv => RowsDescribeBlobs
  BY DEF SerialInv, DescribeInv, RowsDescribeBlobs, Quiet, Owed
<1> QED BY <1>1, SerialAlways, PTL

\* So is the session's status then the aggregate of its uploads' statuses, but
\* for uploads opened since the last roll-up.
THEOREM SerialStatus ==
    ASSUME Serial
    PROVE  Spec => []StatusIsAggregate
<1>1. SerialInv => StatusIsAggregate
  BY DEF SerialInv, StatusInv, StatusIsAggregate, Quiet, RollingUp, Right
<1> QED BY <1>1, SerialAlways, PTL

-----------------------------------------------------------------------------
(* Points leave an object only by an invocation that is behind: with any   *)
(* number of invocations, all the faults and all the reports.              *)

\* An invocation that is not behind has read all that its object holds.
AbreastInv ==
    \A w \in Workers : worker[w].pc = "write" /\ w \notin behind =>
        Stored(Object(w)) \subseteq worker[w].seen

LEMMA AbreastInit == Init => AbreastInv
BY DEF Init, AbreastInv, FreeWorker

\* A step that writes no object, and brings no invocation to its write.
LEMMA AbreastFrame ==
    ASSUME AbreastInv, UNCHANGED <<blob, behind>>,
           \A w \in Workers : worker'[w].pc = "write" => worker'[w] = worker[w]
    PROVE  AbreastInv'
BY DEF AbreastInv, Stored, Object

LEMMA AbreastReply ==
    ASSUME Typed, NEW q, NEW ok \in BOOLEAN, Reply(q, ok)
    PROVE  \A w \in Workers : worker'[w].pc = "write" => worker'[w] = worker[w]
BY ReplyCase

\* One invocation moves on and is not at its write afterwards.
LEMMA AbreastOne ==
    ASSUME Typed, NEW w \in Workers, NEW rec, worker' = [worker EXCEPT ![w] = rec],
           rec.pc # "write"
    PROVE  \A v \in Workers : worker'[v].pc = "write" => worker'[v] = worker[v]
BY DEF Typed, TypeOK

LEMMA AbreastWorker ==
    ASSUME Typed, AbreastInv, NEW w \in Workers, WorkerStep(w) \/ Timeout(w) \/ Crash(w)
    PROVE  AbreastInv'
<1> DEFINE f == worker[w].run.file
<1>0. /\ worker[w] \in WorkerRecord
      /\ worker[w].pc \in Busy => f \in Files /\ UploadOf[f] \in Uploads
      /\ worker[w].pc \in {"read", "write"} => SensorOf[f] \in Sensors
      /\ \A v \in Workers : worker[v] \in WorkerRecord
  BY DEF Typed, TypeOK, WorkerInv, Run, Maybe, Busy
<1>1. CASE Parse(w)
  <2>1. \A v \in Workers : worker'[v].pc = "write" => worker'[v] = worker[v]
    BY <1>0, <1>1 DEF Parse, Typed, TypeOK, WorkerRecord
  <2> QED BY <1>1, <2>1, AbreastFrame DEF Parse
<1>2. CASE ReadBlob(w)
  <2>1. UNCHANGED blob /\ behind' \cup {w} = behind \cup {w}
    BY <1>2 DEF ReadBlob
  <2>2. \A v \in Workers \ {w} : worker'[v] = worker[v]
    BY <1>2 DEF ReadBlob, Typed, TypeOK
  <2>3. /\ worker'[w].run = worker[w].run
        /\ worker'[w].seen = Stored(Object(w)) \/ w \in behind'
    BY <1>0, <1>2 DEF ReadBlob, Typed, TypeOK, WorkerRecord
  <2>4. \A v \in Workers : (Stored(Object(v)))' = Stored(Object(v))
    BY <2>1, <2>2, <2>3 DEF Stored, Object
  <2> QED BY <2>1, <2>2, <2>3, <2>4 DEF AbreastInv
<1>3. CASE WriteBlob(w)
  <2> DEFINE merged == worker[w].seen \cup Parsed(f)
  <2>1. /\ worker[w].pc = "write" /\ blob' = [blob EXCEPT ![UploadOf[f]][SensorOf[f]] = merged]
        /\ behind' = (behind \ {w}) \cup Overtaken(w)
    BY <1>3 DEF WriteBlob
  <2>2. worker'[w].pc # "write" /\ \A v \in Workers \ {w} : worker'[v] = worker[v]
    BY <1>0, <1>3 DEF WriteBlob, Typed, TypeOK, WorkerRecord
  <2>3. ASSUME NEW v \in Workers, worker'[v].pc = "write", v \notin behind'
        PROVE  (Stored(Object(v)) \subseteq worker[v].seen)'
    <3>1. /\ v # w /\ worker'[v] = worker[v] /\ v \notin behind
          /\ Object(v) # Object(w)
      BY <2>1, <2>2, <2>3 DEF Overtaken
    <3> DEFINE u == UploadOf[worker[v].run.file]
               s == SensorOf[worker[v].run.file]
    <3>2. u \in Uploads /\ s \in Sensors
      BY <2>3, <3>1 DEF Typed, TypeOK, WorkerInv, Run, Maybe, Busy
    <3>3. u # UploadOf[f] \/ s # SensorOf[f]
      BY <3>1 DEF Object
    <3>4. blob'[u][s] = blob[u][s]
      <4> HIDE DEF merged, u, s
      <4> QED BY <1>0, <2>1, <3>2, <3>3 DEF Typed, TypeOK, Busy
    <3>5. (Stored(Object(v)))' = Stored(Object(v))
      BY <3>1, <3>4 DEF Stored, Object
    <3> QED BY <2>3, <3>1, <3>5 DEF AbreastInv
  <2> QED BY <2>3 DEF AbreastInv
<1>4. CASE PutFails(w) \/ Crash(w)
  <2>1. UNCHANGED blob /\ behind' = behind \ {w}
    BY <1>4 DEF PutFails, Crash
  <2>2. worker'[w].pc # "write" /\ \A v \in Workers \ {w} : worker'[v] = worker[v]
    BY <1>0, <1>4 DEF PutFails, Crash, FreeWorker, Typed, TypeOK, WorkerRecord
  <2> QED BY <2>1, <2>2 DEF AbreastInv, Stored, Object
<1>5. CASE Post(w)
  <2>1. \A v \in Workers : worker'[v].pc = "write" => worker'[v] = worker[v]
    BY <1>0, <1>5 DEF Post, Typed, TypeOK, WorkerRecord
  <2> QED BY <1>5, <2>1, AbreastFrame DEF Post
<1>6. CASE Return(w)
  <2>1. \A v \in Workers : worker'[v].pc = "write" => worker'[v] = worker[v]
    BY <1>6, AbreastOne DEF Return, FreeWorker
  <2> QED BY <1>6, <2>1, AbreastFrame DEF Return
<1>7. CASE Timeout(w)
  <2>1. worker[w].pc = "wait" /\ worker' = [worker EXCEPT ![w] = NextAttempt(worker[w])]
        /\ worker[w].call \in Callback
    BY <1>7 DEF Timeout, Typed, WorkerInv
  <2>2. NextAttempt(worker[w]).pc # "write"
    BY <1>0, <2>1, NextAttemptTyped
  <2>3. \A v \in Workers : worker'[v].pc = "write" => worker'[v] = worker[v]
    BY <2>1, <2>2, AbreastOne
  <2> QED BY <1>7, <2>3, AbreastFrame DEF Timeout
<1> QED BY <1>1, <1>2, <1>3, <1>4, <1>5, <1>6, <1>7 DEF WorkerStep

LEMMA AbreastThread ==
    ASSUME Typed, AbreastInv, NEW t \in Threads, Dispatch(t) \/ Handler(t) \/ InvokeTimeout(t)
    PROVE  AbreastInv'
<1>1. UNCHANGED <<blob, behind>>
  BY DEF Dispatch, Load, InvokeRefused, Invoke, InvokeTimeout, Handler, ReadRows, WriteRows, SetStatus,
         ApplyReport, ReadWindow, WriteWindow, ReadStatuses, WriteStatus
<1>2. CASE UNCHANGED worker
  BY <1>1, <1>2, AbreastFrame
<1>3. ASSUME NEW q, NEW ok \in BOOLEAN, Reply(q, ok) PROVE AbreastInv'
  BY <1>1, <1>3, AbreastReply, AbreastFrame
<1>4. ASSUME NEW e \in events, NEW w \in Workers, Invoke(t, e, w) PROVE AbreastInv'
  <2> DEFINE rec == [FreeWorker EXCEPT !.pc = "parse", !.run = e]
  <2>1. rec.pc # "write" /\ worker' = [worker EXCEPT ![w] = rec]
    BY <1>4 DEF Invoke, FreeWorker
  <2> HIDE DEF rec
  <2> QED BY <1>1, <2>1, AbreastOne, AbreastFrame
<1>5. ASSUME NEW ok \in BOOLEAN, Finish(t, ok) PROVE AbreastInv'
  BY <1>3, <1>5 DEF Finish
<1>6. CASE Dispatch(t)
  <2>1. ASSUME NEW q \in queue, Load(t, q) PROVE AbreastInv'
    BY <1>2, <1>3, <2>1 DEF Load
  <2>2. ASSUME NEW e \in events, InvokeRefused(t, e) PROVE AbreastInv'
    BY <1>2, <2>2 DEF InvokeRefused
  <2> QED BY <1>4, <1>6, <2>1, <2>2 DEF Dispatch
<1>7. CASE Handler(t)
  <2>1. CASE WriteStatus(t)
    <3>1. (session.live \/ thread[t].next = None) \in BOOLEAN
      BY DEF Typed, TypeOK
    <3>2. Finish(t, session.live \/ thread[t].next = None)
      BY <2>1 DEF WriteStatus
    <3> QED BY <1>5, <3>1, <3>2
  <2>2. CASE WriteRows(t)
    BY <1>2, <1>5, <2>2 DEF WriteRows
  <2>3. CASE ApplyReport(t)
    BY <1>2, <1>5, <2>3 DEF ApplyReport
  <2>4. CASE WriteWindow(t)
    BY <1>2, <1>5, <2>4 DEF WriteWindow
  <2>5. CASE ReadStatuses(t)
    BY <1>2, <1>5, <2>5 DEF ReadStatuses
  <2>6. CASE ReadRows(t) \/ SetStatus(t) \/ ReadWindow(t)
    BY <1>2, <2>6 DEF ReadRows, SetStatus, ReadWindow
  <2> QED BY <1>7, <2>1, <2>2, <2>3, <2>4, <2>5, <2>6 DEF Handler
<1>8. CASE InvokeTimeout(t)
  BY <1>2, <1>8 DEF InvokeTimeout
<1> QED BY <1>6, <1>7, <1>8

LEMMA AbreastNext == Typed /\ AbreastInv /\ [Next]_vars => AbreastInv'
<1> SUFFICES ASSUME Typed, AbreastInv, [Next]_vars PROVE AbreastInv'
  OBVIOUS
<1>1. CASE \/ \E u \in Uploads : OpenUpload(u)
           \/ \E f \in Files : PutFile(f)
           \/ \E q \in Reports : SendReport(q)
           \/ DeleteSession
           \/ UNCHANGED vars
  <2>1. UNCHANGED <<blob, behind, worker>>
    BY <1>1 DEF OpenUpload, PutFile, SendReport, DeleteSession, vars
  <2> QED BY <2>1, AbreastFrame
<1> QED BY <1>1, AbreastThread, AbreastWorker DEF Next

\* Whatever is retried, crashes, fails or overtakes, for every number of
\* invocations, threads and puts: only an invocation that could not read the
\* object, or that read it before another one wrote it, takes points out of it.
THEOREM MergeKeeps == Spec => MergeKeepsPoints
<1>1. ASSUME Typed, AbreastInv, [Next]_vars, NEW u \in Uploads, NEW s \in Sensors
      PROVE  \/ Stored(<<u, s>>) \subseteq Stored(<<u, s>>)'
             \/ \E w \in behind : /\ worker[w].pc = "write" /\ worker'[w].pc # "write"
                                  /\ Object(w) = <<u, s>>
  <2>1. CASE \E w \in Workers : WriteBlob(w)
    <3> PICK w \in Workers : WriteBlob(w)
      BY <2>1
    <3> DEFINE f == worker[w].run.file
               merged == worker[w].seen \cup Parsed(f)
    <3>1. /\ worker[w].pc = "write" /\ blob' = [blob EXCEPT ![UploadOf[f]][SensorOf[f]] = merged]
      BY DEF WriteBlob
    <3>2. /\ f \in Files /\ UploadOf[f] \in Uploads /\ SensorOf[f] \in Sensors
          /\ worker[w].seen \in SUBSET Files /\ worker[w] \in WorkerRecord
      BY <1>1, <3>1 DEF Typed, TypeOK, WorkerInv, WorkerRecord, Busy, Run, Maybe
    <3>3. merged \in SUBSET Files
      BY <3>2 DEF Parsed
    <3>4. worker'[w].pc # "write"
      BY <1>1, <3>2 DEF WriteBlob, Typed, TypeOK, WorkerRecord
    <3>5. CASE Object(w) = <<u, s>> /\ w \in behind
      BY <3>1, <3>4, <3>5
    <3>6. CASE Object(w) = <<u, s>> /\ w \notin behind
      <4>1. u = UploadOf[f] /\ s = SensorOf[f]
        BY <3>6 DEF Object
      <4>2. blob'[u][s] = merged
        <5> HIDE DEF merged, f
        <5> QED BY <1>1, <3>1, <3>2, <4>1 DEF Typed, TypeOK
      <4>3. Stored(<<u, s>>)' = merged
        BY <3>3, <4>2 DEF Stored
      <4> QED BY <1>1, <3>1, <3>6, <4>3 DEF AbreastInv
    <3>7. CASE Object(w) # <<u, s>>
      <4>1. u # UploadOf[f] \/ s # SensorOf[f]
        BY <3>7 DEF Object
      <4>2. blob'[u][s] = blob[u][s]
        <5> HIDE DEF merged, f
        <5> QED BY <1>1, <3>1, <3>2, <4>1 DEF Typed, TypeOK
      <4> QED BY <4>2 DEF Stored
    <3> QED BY <3>5, <3>6, <3>7
  <2>2. CASE ~\E w \in Workers : WriteBlob(w)
    <3>1. blob' = blob
      BY <1>1, <2>2 DEF Next, vars, OpenUpload, PutFile, SendReport, DeleteSession, Dispatch, Load,
             InvokeRefused, Invoke, Handler, ReadRows, WriteRows, SetStatus, ApplyReport, ReadWindow,
             WriteWindow, ReadStatuses, WriteStatus, InvokeTimeout, WorkerStep, Parse, ReadBlob,
             PutFails, Post, Return, Timeout, Crash
    <3> QED BY <3>1 DEF Stored
  <2> QED BY <2>1, <2>2
<1>2. Typed /\ AbreastInv /\ [Next]_vars =>
        \A u \in Uploads, s \in Sensors :
           \/ Stored(<<u, s>>) \subseteq Stored(<<u, s>>)'
           \/ \E w \in behind : /\ worker[w].pc = "write" /\ worker'[w].pc # "write"
                                /\ Object(w) = <<u, s>>
  BY <1>1
<1> QED BY <1>2, AbreastInit, AbreastNext, TypeCorrect, PTL DEF Spec, MergeKeepsPoints
=============================================================================
