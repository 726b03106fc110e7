# Verification of XGSail

TLA+ models of the XGSail backend, its data worker, its phone app and its device
protocol, the TLC configurations that check them on small instances, and TLAPS
proofs for instances of any size. `src/...` paths are those of the repository;
`PROJECT.json` maps every definition to the lines it models and lists forty
hazards at their lines.

    tlc -workers 2 -config IngestSerial.cfg MCIngestPipeline     # a run
    tlapm IngestPipelineProofs.tla                               # a proof module

## 1. The system

| Component | Code (under `src/`) | State | Model |
|---|---|---|---|
| Ingest pipeline | `backend/routers/ingest.py`, `device_api.py`, `system.py`, `repositories/sql/session_repo.py`, `ingest_repo.py`, `workers/process_upload/handler.py` | sessions, uploads, stream rows; merged blobs in the object store | `IngestPipeline`, abstractly `StreamCatalog` |
| Session assignment | `services/ingestion.py`, `session_repo.py`, `activity_repo.py`, `routers/sessions.py`, `races.py`, `device_api.py`, `services/import_processing.py` | sessions and activities of a boat, keys of uploads | `SessionRegistry` |
| Session analysis | `routers/sessions.py`, `system.py`, `services/maneuver_reconciliation.py` | `reanalysis_status`, trim, maneuvers, statistics, analysis | `SessionAnalysis` |
| Data worker | `workers/process_upload/handler.py`, `analyzer.py`, `processing/*` | the streams of an upload; otherwise none | `UploadWorker`, composed of `SensorFiles`, `WindEstimation`, `ManeuverDetection` |
| Device registry | `routers/devices.py`, `repositories/sql/device_repo.py`, `auth/device.py` | `devices` (status, code, external id, key, target) | `DeviceRegistry` |
| Logins | `routers/auth.py`, `auth/tokens.py`, `auth_token_repo.py`, `frontend/src/api/client.ts`, `services/nativeAuth.ts` | refresh-token families; cookie, memory and secure storage of clients | `RefreshTokens` |
| Native recording | `frontend/src/services/nativeRecording.ts`, `pages/registra/RegistraPage.tsx`, `hooks/useImportUpload.ts` | index of recordings in memory and on disk, point logs, tracks | `NativeRecording` |
| Clubs, groups, boats, permissions | `routers/clubs.py`, `groups.py`, `boats.py`, `users.py`, `rbac.py`, `auth/permissions.py`, `auth/seed.py`, `activity_repo.py` | memberships, roles, grants, visibility | `Clubhouse` |
| Schema and migrations | `backend/alembic/versions`, `backend/db/models` | version, schema, rows | `SchemaMigrations` over `DatabaseModels` |
| Wind cache and estimates, BLE relay, media, results and course of a race, posts, OTA, video, UI | | | not modelled, section 7 |

How they interact: devices and phones call the HTTP API and PUT files to the
object store with presigned URLs. A PUT makes the store call the webhook
(`ingest.py`), which queues a background task; the task *holds a server thread*
while it invokes the worker over HTTP. The worker reads and writes the object
store, and calls the API back (`_post_system`, three attempts, 30 s each); the
callback needs a thread *of the same pool*. Users read and change the results
through the API meanwhile. All shared state is in the database (READ COMMITTED,
no row locks, one short transaction per repository call) or in blobs.

What is hard, and what makes each part correct:

* **Pipeline**: callbacks that time out at the worker and are handled all the
  same, in another order than the merges they describe; an endpoint that is five
  transactions; a worker that takes any failed read for an absent object; thread
  starvation. Correct when a status never promises data that
  is not there, rows and blobs agree, and every PUT settles.
* **Session assignment**: find-then-create and count-then-delete. Correct when an
  outing is one session, a retry finds its upload, a session holds what was
  uploaded into it and is never dropped with the activity it left.
* **Analysis**: jobs that overlap although a guard forbids it, repeated callbacks,
  users editing rows a job is about to replace. Correct when nothing a user
  decided is lost or duplicated, and what is shown is of one analysis.
* **Worker**: damaged rows, midnight, holes, turns through north. Correct when
  damage costs the rows it hits, a position keeps its day, no wide turn is missed
  and maneuvers and legs divide the track.
* **Registry**: read-check-write on several rows and a key sent once. Correct when
  hardware is claimed once and codes and keys stay usable until withdrawn.
* **Logins**: rotation with answers and storage writes that get lost, several tabs
  on one cookie. Correct when a login has one live token, an ended one none, and
  reuse detection accuses no honest client.
* **Recording**: an app killed half-way, lost answers, three ways to upload.
  Correct when a finished track is on the phone or on the server, is registered
  once, and gets there.
* **Clubhouse**: checks that are another transaction than the write they allow,
  one rule implemented twice. Correct when a boat keeps an owner, nobody is a
  member unvouched, and the two implementations agree.
* **Migrations**: revisions that narrow constraints over rows of older releases.
  Correct when the server can start from any of them, the schema depends on the
  version alone, and no cascade reaches a recorded session.

## 2. The modules

Common grain: one action per database transaction that only writes; a
transaction that writes what it computed from a read is two actions where its
race is the question, else one. A request is a record (program counter and the
locals that matter) moving through those actions. A numeric bound is a CONSTANT
and a guard, named `Max...`. Operators marked `Mutant:` are in no behaviour;
they are plausible slips that show each property can fail. Variables declared
as history are never read by an action; they hold what a property excepts.

**IngestPipeline.** `OpenUpload`, `PutFile`, `SendReport` are the device and the
operator; `Invoke`, `InvokeRefused`, `InvokeTimeout`, `Return` are
`ingest._invoke_worker`, where an invocation occupies `thread[t]` until
`worker[w]` answers; `Parse`, `ReadBlob`, `WriteBlob`, `Post`, `Timeout`, `Crash`
are `process_file` and `_post_system`; `Load` ... `WriteStatus` are
`ingest_complete`; `ApplyReport`, `DeleteSession` the rest. `Faults` names what may
fail of a worker: callbacks that are slow, the process, its reads and its puts. A
failed read of the merged object is an empty list, as in the code; a failed put
(`PutFails`, or the second object of `WriteBlob`) ends the file untold. A file is a
model value, a blob the set of files whose points it holds, a row remembers that set.

**StreamCatalog.** What a reader of a session may rely on: a catalogue of sensors
that only grows until the session is deleted, with `processed` only over a
non-empty catalogue. `IngestPipeline!CatalogSpec` is the refinement.

**SessionRegistry.** `DeviceUpload`, `Import`, `ImportInto`, `RaceGpx`,
`MatchSessions`, `Attach` begin a request; `Find`, `List`, `NewSolo`,
`NewSession`, `Bind`, `Widen` are `find_or_create_session` and the two
`extend_window`; `LookupKey`, `InsertUpload` the idempotent insert;
`ChooseBest`, `MoveBest`, `Count`, `MoveToTarget`, `DropOld` matching and
attaching (matching widens each session it moves by the bounds it had listed it
with, `Listed`); the rest are single transactions of users. A window is a pair of
integers; ids are never used twice.

**SessionAnalysis.** Job `j` is a background task and a worker invocation that
live independently (`task`, `work`), because `WORKER_TIMEOUT_SEC` ends the first
and not the second. `Ask`, `SetTrim`, `AskTrimmed`, `Guard` are the request,
`Dispatch`, `TaskEnds`, `WindFails` the task, `Compute`, `PostTimeout` the worker,
`Serve`, `ReadRows`, `ReplaceRows`, `WriteAnalysis` the callback, `CheckEdit`,
`ApplyEdit`, `AddManeuver`, `FillManeuver` the users' edits. A maneuver is its
time window; what the detector may find for a trim is a constant. A unit is five
seconds (`Tolerance = 3` is 15 s, `Spacing = 4` is 20 s).

**SensorFiles, WindEstimation, ManeuverDetection, UploadWorker.** The first three
are pure operators: which rows of a damaged file are kept and when they are
dated, resampling and merging (E1 files with a UTC column or a clock since boot,
and S1 files, whose clock ran `Drift` ahead and whose unreadable instants are
kept uncorrected); which sources speak at which instant and how they
are fused; turns, their bounds, candidates, spacing and legs. `UploadWorker` is
the state machine that uses them: files of a bundle merged in any order, then
`Load`, the candidates one by one (`Skip`, `Decide`), `Measure` or
`MeasureRaises`, and `ComputeManual`. The scores the classifier compares are
chosen from `Losses` and `Rates`, as they come from floating-point features.

**DeviceRegistry.** Requests are numbered; the number names the row, the code and
the key the request creates, so codes and keys are fresh as random tokens are.
`FindCode` and `CheckHardware` are the first two transactions of `confirm_claim`,
`ReadConfirm` and `WriteConfirm` the read and the commit of the third, as are
`ReadRevoke` and `WriteRevoke` of `revoke_device`: the ORM puts the columns in the
UPDATE that differ from the row it read (`Update`), the others stay what they have
become. The unique column `external_id` makes the commit fail with 500.

**RefreshTokens.** The server's `Find`, `Mint`, `Retire`, `RevokeFamily`,
`RevokeAll` are its transactions in code order; the client's `TakeRefresh`,
`TakeAnswer`, `Save`, `Reload`, `Lose` what may happen to an answer, an error of a
proxy included. A browser's tabs share a cookie; a phone has memory and storage,
written one after the other; whether its refresh carries the token in the body, and
so its answer is cached, is decided when it is sent (`body`).

**NativeRecording.** A tap moves through the awaits of `start`, `pause`, `resume`
and `stop` (`StartPush`, `Switch`, `Finalized`, ...); an upload through those of
`uploadRecording` (`Begin`, `Read`, `Send`, `Complete`, `Answered`, `Forget`,
`Delete`) for each caller, the page and the row's own button. `Kill` loses the
memory and reads `index.json` back, as empty when it was half written
(`loadIndex` catches what `JSON.parse` raises).

**Clubhouse.** A request checks and queues the writes its endpoint makes; each
write is applied later, one transaction each. `VisibleTo` is
`activity_visible_to`, `VisibilityClause` the SQL of the list; `SessionVisibleTo`
and `MySessions` do the same for sessions, `MemberFeed` and `Upcoming` for the
events of one's clubs and groups, `KeysOf` and `Can` for what the pages offer.

**DatabaseModels, SchemaMigrations.** A schema is a set of facts: a table exists,
a column is required, a key is unique, a column refers to a table with a delete
rule, a column takes values of a list. Each revision is a function on such sets;
`rows` holds the values that occur. `Models` is the schema the ORM declares.
Its behaviours are `SchemaSpec`, named so that `DatabaseProofs` extends this module and
`SessionRegistry` together.

## 3. The runs

| Run | What it shows | Bounds, and why they are enough |
|---|---|---|
| `IngestSerial` | With one invocation and prompt callbacks (the deployed runtime) rows, blobs and status agree, although reads of the object store fail. | Six files of two uploads, the corrupt one and the IMU in the second: two overlapping GPS files, an IMU, a corrupt, a blank, one of unknown suffix: every branch of `process_file`, in every order. |
| `IngestConcurrent` | What survives any interleaving: no row without its object, no `processed` without a row, the catalogue refinement; and by which steps alone points leave a stored object. | Two GPS files, two invocations, two threads, device reports, timeouts, crashes, failing reads and puts, deletion: two callbacks, and two merges, of one sensor race in every order. |
| `IngestStarved` | A PUT settles, and a readable file that an invocation has taken on is registered, although the pool is starved. | One thread, one invocation, three files PUT once, two attempts: the invocation holds the only thread its callback needs; it outlives its task, so the runtime refuses the events of the other files, which are lost. No crash and no failing store: nothing retries for them. |
| `Sessions` | One session per outing, retries find their upload, windows hold the uploads, attaching drops nothing. | One boat, a race, two requests at a time and three in all; windows within the gap, apart, and without an end. Two boats never meet in one transaction but matching, which treats each by itself. |
| `AnalysisSerial` | What users decided is kept while jobs overlap, time out, fail and repeat. | One request at a time, two jobs, two invocations, two trims, three writing transactions: two jobs at once, each repeating. |
| `Worker` | Days, damage, turns, headings, legs, wind sources. | Four rows with every one of eight damages each (a bit that turns one valid clock into another is not among them, and of a row that is kept the stamp is asked for, not the other cells), around midnight, with and without a start time; two files of an S1 box, every sensor, five states of each row; two turns of either sense and rate, one turn of two rates, short and long legs, holes, slow stretches, trims, every choice of four wind sources with rows that miss a boundary. |
| `Claims` | Hardware claimed once, keys name their hardware; serially, codes and keys stay usable. | Three requests at a time, four in all that mint a code or a key of which the first two may mint a code (`MaxClaims`), two targets, two pieces of hardware, lost answers. Claim, confirm, revoke, claim again and confirm fit, and so do three confirms of one code at once. |
| `Logins` | No false alarm, one live token, an ended login is dead. | A browser of two tabs and a phone, four requests, four tokens: login, two rotations and a retry of the first. |
| `Recordings` | A finished track is safe, registered once, and uploaded. | Two tracks, three taps two of which overlap, one kill, also in the middle of a write of `index.json`, one lost answer. |
| `Clubhouse` | A boat keeps an owner, members were vouched for, lists and pages agree with the rules. | Two users and the superadmin, one of two clubs, a group or a boat, three requests after its creation, two at a time: join, leave, join again. Visibility over every kind of activity, and sessions of them with and without a crew. |
| `Migrations` | The chain applies over rows of any release, forward, back and forward. | 34 revisions; four of sixteen values, those which a revision narrows, moves or fills. |
| `BugTrackWind` | The code breaks what it says: section 6, first item. | As `Worker`. |

Symmetry is used in `Claims` (targets, hardware, handlers), `Logins` (tabs) and
`Clubhouse` (users, handlers), which check no liveness and whose constants
treat the values alike. `CHECK_DEADLOCK FALSE`: with every bound reached and
every request served the system rests.

Where a property excepts requests that overlap (`disturbed`, `overlapped`,
`doubled`, `crowded`, `thronged`), the code does not serialise them and section 6
says what happens; the exception is per boat, club, login or device row where that
can be told, so that other requests still run at the same time. `behind` and
`dropped` do the same for a failed read or an overtaken invocation, and for a
recording a half-written index forgets: each names the one step, or track, excepted.

## 4. Fairness

Safety is checked without fairness. `IngestPipeline!FairSpec` is weakly fair for
each thread's next handler step and for taking queued work, for each worker's
next step, and for an expired callback timeout: the server runs its threads, the
runtime its invocations, and timers fire. Nothing obliges a device to PUT, a user
to act, a worker to crash, or the invocation timeout to fire.

`NativeRecording!Spec` is weakly fair for the awaits of taps and uploads and for
the retry timer (every 30 s, and when the network returns, while the page is
open), and strongly fair for a request getting through (`Send`, `Complete`): the
network is not down, nor the server refusing, for ever. Nothing obliges a tap, a
kill or a lost answer. A kill ends the promise, as the page must be open.

## 5. The proofs

For every value of the constants that satisfies the modules' ASSUMEs:

* `IngestPipelineProofs`:
  * `TypeSafety`. Type correctness is not inductive alone: a worker that posts must
    have a call, a thread past `Load` a request whose upload was present. `Typed`
    adds `WorkerInv` and `ThreadInv`, per program counter.
  * `ProcessedAlwaysHasStream`, strengthened by `StreamInv`: a handler of a
    processed callback past `WriteRows` sees a row of its upload or a deleted
    session, and a commit that deletes the old row inserts a new one.
  * `RowsAlwaysStored`, strengthened by `StoredInv`: every callback in flight, in a
    queue, a worker or a handler, names an object already stored; objects are
    never deleted (`BlobKept`).
  * `PipelineImplementsCatalog`: initial states map to initial states, every step
    to a `StreamCatalog` step or a stutter.
  * `MergeKeeps`, for any number of invocations: an invocation that is not `behind`
    has read all that its object holds when it writes (`AbreastInv`).
  * `SerialRowsDescribe`, `SerialStatus`, under `Serial`: one worker, no faults but
    failing reads and no reports, as `IngestSerial` has it; sessions are still deleted, uploads opened and files put at any moment, by any number of threads.
    `SoleInv`: a callback in the server is the one its invocation waits for, so two
    are never at work. `DescribeInv`: a row that does not describe its object is owed
    by a callback on its way. `StatusInv`: the status is right or a handler that has yet
    to read or write it is at work. Section 6 says what two at once do.
* `DeviceRegistryProofs`: `TypeSafety`, `HardwareClaimedOnce`,
  `KeysNameTheirHardware` (a row until three confirms of it overlap), with any number
  of concurrent requests. `KeyInv` is the
  strengthening: the number of a running request is on no row, in no hardware and
  with no other request (`NumbersFresh`); stored keys are of requests begun
  (`KeysIssued`); external ids are unique whatever the status
  (`ExternalIdUnique`); a row with a held key has that hardware's id (`KeyRows`). That
  a commit without the external id keeps this is `ThrongInv`: a row with an external
  id is not found again, so at most one confirm of it is still under way
  (`FewConfirm`), and what that one has read is what its commit meets (`SeenMet`).
  `KeysWorkApart` and `CodesUsableApart` are the two promises `Claims` checks until
  two requests overlap (`crowded`), for any number of handlers. As long as each
  write is of the one request under way (`Calm`), the row a request has read is
  still as it was (`StepInv`) and a key it stores is the newest (`RowsInv`,
  `KeysIssued`). `SerialKeysWork` and `SerialCodesUsable` are the same of one
  handler, whose steps are always calm. Section 6, Devices, says what overlapping
  requests do to them.
* `NativeRecordingProofs`: `TypeSafety`, `TrackAlwaysSafe`, `TrackRegisteredOnce`.
  `SafeInv` says per status what is on the phone, in a running tap or sender and at
  the server (`LogInv`, `PromiseInv`, `ActiveInv`, `UploadInv`), so a fix is in the
  log, in a file or uploaded between any two awaits. `OnceInv`: in a track no tap
  overlapped and no answer was lost for, one tap and one sender are at work, and the
  server has a session only of the call the phone has the answer of.
* `RefreshTokensProofs`: `TypeSafety`, `DeadStaysDead`, `RotationKeepsOne`,
  `NoneAccused`, for any number of pages and requests. `AloneInv` carries the first
  three: two requests at work on one login are overlapping ones. Then a live token
  of a login is the newest, and a rotation that has inserted has yet to revoke
  (`LiveInv`). That no honest client is accused is `HonestInv`, about both sides: a
  page waits for its own request and one of a kind (`WaitInv`), a login is kept in
  one browser (`HomeInv`, `NewInv`), what a client presents is live or its
  successor is in the answer it waits for (`PresentedInv`), what a phone has stored
  is live or its successor is that, or a write it has yet to do (`ChainInv`, with
  `PhoneInv` for memory, cookie and storage naming different logins, `BareAt` for a
  refresh that carries the cookie alone); so a refresh
  the server reads is of a live token or of a login excepted (`ReadsInv`). Assumed:
  a phone runs one instance of the app (`AppAssumption`).
* `ClubhouseProofs`: `TypeSafety`, `OwnerStays`, `MembersWereLetIn`. A request checks,
  then writes one at a time, so the invariant speaks of writes still to come: they
  name what exists (`TodoInv`), two requests with writes to one boat, club or group
  are overlapping ones (`AloneInv`), a write to a boat leaves it an owner (`BoatInv`)
  and one that lets a user in was vouched for (`VouchInv`). `PagesAgree`: the SQL of
  each list and feed and the checks of the pages select what the rules allow; a
  lemma per list (`SameList`, `SameSessions`, `SameFeeds`, `SameChecks`) rests on
  the types and on accounts being those that exist (`Accounts`).
* `DatabaseProofs`, of `SessionRegistry`: `TypeSafety`, `RetriesFindTheirUpload`,
  `UploadsAreCovered`, `OutingIsOneSession`, `SessionsStay`, for any boats, windows,
  requests and rows. `AloneInv`: two requests at work on one boat have disturbed it;
  `RowsInv`: foreign keys hold. Per request: what it holds at each step
  (`HandlerOK`), that the session it will put its upload in covers the window
  (`WillCover`) and would be found again (`WillBeFound`), that one about to open a
  session has no near one (`OpensApart`), that a repeated one is on its way to the
  session of its upload (`Repeated`), and that the activity a session is taken from
  holds no other (`TakenFrom`). Assumed of windows: the end, if any, is not before
  the start; a device's clock runs forward, the code does not check it.
* `SessionAnalysisProofs`: `TypeSafety`, and where the server handles one request
  at a time (`Serial`, as in `AnalysisSerial`; jobs, invocations and repeated
  callbacks still overlap) `AnalysesDoNotMix`, `StatusIsTrue`, `ShownTogether`,
  `UsersKeepTheirRows`, `UsersRowsWin`. `SerialInv`: a row is named by the
  transaction that inserted it (`KeysInv`), a callback replaces the rows it read
  (`SeenInv`), a request that read no running status meets none (`StatusInv`), what
  is stored was computed and its statistics with it (`ShownInv`).

* `UploadWorkerProofs`, for any files, tracks, trims and waypoints of the shapes
  `FileAssumption` and `JobAssumption` name: `DaysKept`, `CleanRowsStored`,
  `AnyHeading`, `EveryHeading`, `WideTurnsFound`, `LegsAndManeuvers`,
  `EverySourceHeard`. `StreamsInv`: each stored record is a row of a file at that row's stamp, and each row that was kept is
  stored; the rest is about one file (`StampIs`: a day earlier than the row's own is
  below the anchor or read as such; `MedianIs`: a strict majority is the median).
  `JobInv`: what was accepted is a candidate of a pivot already passed, the next
  starts no earlier, so the test against the last end alone keeps all apart; legs
  are the stretches between, by the number of each maneuver (`NumbersOrdered`).
  `SameTurning` and `SameBounds`: only differences of headings are read. A wide turn
  to either side is a number that grows (`Unrolled`), whose turning samples are one
  run that no gap joins to others (`WideRun`); its bounds fall on the legs but for 9
  and 4 degrees (`WideStart`, `WideEnd`). That the turn must exceed a candidate's 15
  degrees by the 10 that are too slow to count and by its sharpest step was found by
  this proof: `Worker` had turns of one rate only. `WindInv`: the fused rows are heard
  where each source is. Assumed of files: a session ends
  within a day of the warm-up of its first file, the clock of an S1 box is an
  instant that ran ahead by the drift; of tracks: instants increase.

* `DatabaseProofs`, of `SchemaMigrations`: `SchemaAlwaysIsVersion`,
  `StartupAlwaysMigrates`, `HistoryAlwaysSurvives`, `NoReturnFrom31`, for rows of any
  values and in any number, where `Migrations` has four of sixteen. What each version
  says of each table is computed revision by revision (`UsersTable` ...
  `IntegrationConnectionsTable`), which ends at the ORM classes (`EndsAtModels`). Each
  upgrade drops what is there and adds what is not (`EveryUpgradeFits`); each
  downgrade but one takes exactly that back (`DowngradesReverse`), and that of 0031
  drops what is not there (`NoWayBack`). Of rows: only the revisions in `Narrowed`
  allow less than before, and they rewrite or delete what they refuse (`AfterUpgrade`);
  columns added NOT NULL are filled (`FilledIn`). `RowsIInv` is the invariant: the
  schema is that of the version, the rows are in its columns, within its CHECKs and
  `Whole`, and only a downgrade was ever refused. That deletes stay off the history is
  one property of every foreign key of every version (`EverySchemaSound`, `Harmless`),
  kept by any number of cascades.

Every invariant and action property of the passing runs is stated by a listed
theorem, some of them for the setting named there. Only model-checked: liveness
(`EveryPutSettles`, `FileIsRegistered`, `FinishedIsUploaded`).

## 6. Where code and words disagree

`BugTrackWind` is checked; the other statements are kept as definitions, so that
each can be added to the run named here and TLC prints the behaviour, or were met
by reading.

Formulas the code does not keep:

| Definition | Statement | What happens |
|---|---|---|
| `UploadWorker!TrackIsAnalysed` (`BugTrackWind`) | `wind_estimation.py` builds a series for every strategy that `analyze_session` hands to polar, legs and VMG | rows estimated from the tacks have `twa_deg` None; `polar.py:51` takes `abs` of it: the session has no analysis |
| `IngestPipeline!NeverDowngraded` (`IngestConcurrent`) | `system.py:64`: a failed callback "never downgrades an upload that already has processed data" | it tests the status it read before the other committed `processed` |
| `session.status = Aggregate(UploadStatuses)` when quiet (`IngestSerial`) | `db/models/session.py:6`: "`status` is the aggregate of the linked uploads' statuses" | `create_session_upload` opens an upload and never calls `rollup_status`: until its first file is in, the session may stay `processed` or `failed` |
| `IngestPipeline!FinalizedByFinalChunk` (`IngestSerial`, `FinalChunk <- MCChunks`) | `device-protocol.md:192`: finalized only after the `is_final=true` chunk | `is_final` is never read: the roll-up finalizes after any chunk |
| `SessionAnalysis!UserRowsKept` with two handlers | `sessions.py:367`: "a corrected row is never deleted" | the correction commits between the read and the delete of `upsert_maneuvers` |
| `SessionAnalysis!DistinctEventsKept` (`Analyses <- MCClose`, `Manual <- NoManual`) | `maneuver_reconciliation.py:19`: the tolerance must stay below the detector's spacing | it is applied to both intervals: windows up to 30 s apart are one event, the detector separates at 20 s |
| `SessionAnalysis!NullMeansSuccess` (`AnalysisSerial`) | `sessions.py:276`: status null means idle or finished successfully | `dispatch_analysis` swallows a refused or timed-out request and the status is cleared |
| `SessionRegistry!WindowsOnlyWiden` (`Sessions`) | `session_repo.py:138`: "Widen the session bounds monotonically" | an end is set where there was none, before the start (a later window in a session without an end counts from its start) |
| `NativeRecording!ReopenFinishes` (`Recordings`) | `RegistraPage.tsx:386`: a pending track "needs the app reopened to finish uploading" | killed while `uploading`, a status the retry skips |
| `SchemaMigrations!DowngradesApply` (`Migrations`) | `0031_post_event_link.py:42`: the constraint is `ck_posts_single_event_link`; `0015`: its downgrade "safely narrows the CHECK back" | `base.py:28` prefixes the name once more when dropping, so 0031 cannot be taken back; 0002, 0013, 0015, 0021, 0022 are refused over newer rows |

Also: hardware of a revoked device cannot be confirmed again, the unique
`external_id` answers an undocumented 500 (`device-protocol.md:97` lists 400, 404,
409, 429).

Excepted by the setting of a property:

* *Pipeline.* Two callbacks of one sensor: the older may be registered last, and
  two first ones may insert two rows. A stale roll-up may be written last, and
  `extend_window` may shrink a window it widened from an older read. Two
  invocations of one sensor lose the points of one. A merge whose read of the stored
  object fails, for whatever reason, deletes what was stored (`handler.py:419-424`,
  under the comment "Merge with anything already processed"), and its row then
  describes the shorter object. A put that fails after the first object is stored
  leaves points that no row describes. An event the worker runtime refuses is lost
  (`ingest.py:36-40`): its file stays unprocessed until it is PUT again.
* *Sessions.* Two first uploads of an outing at once open two sessions. A session
  found by its window, attached or matched does not widen its activity
  (`activity_repo.py:225` says it does). Attaching a session to the solo activity
  it is in deletes it. Matching writes the bounds it had listed a session with, which
  undoes a narrowing the user made meanwhile (`races.py:218`). A session deleted while it is being attached is counted
  without being there: the solo activity goes with whatever other session was added
  to it (`sessions.py:136`). The proof found this; it takes four requests, one more
  than `Sessions` has. Two sessions of one boat can be in one activity; a retry
  may land in another. Deleting a race keeps its activity.
* *Analysis.* Two requests can both pass the guard, and a worker that outlives its
  task runs beside the next although `sessions.py:173` says it is prevented. A trim
  is stored before the 404 or 409. An analysis without GPS points keeps the older
  statistics. A restart leaves the status `running`.
* *Devices.* A claim confirmed twice at once, or a confirm after a revoke,
  overwrites the other. Two claims of one target leave two rows. Of three confirms of
  one code at once, the first, of x1, commits; the second, of x1 too, reads its row;
  the third, of x2, commits; the second then writes its key alone, as the row it read
  had the rest: the row is x2's and x1 holds its key (`device_repo.py:160-174`).
* *Logins.* A lost answer after the rotation logs the user out. A failed logout
  keeps the tokens. A change of password on the phone leaves the old cached token.
  Cookies that a rejection clears are not sent. Deleted users keep refreshing. An error of the
  server or of a proxy answers a refresh like a rejection (`client.ts:129`) although
  the comment above it keeps that for tokens that were judged: the user is signed
  out. The answer of a refresh under way at logout caches a token again.
* *Recording.* Stopping without a fix throws and leaves `recording`; a second tap
  on start orphans the first recording; tracks with `permission_error` can only be
  deleted; an upload by hand beside the automatic one, or a lost answer, registers
  twice. `index.json` is overwritten in place: killed in the middle, the app reads
  an empty list (`nativeRecording.ts:117-119`) and forgets every recording in it,
  whose point logs stay on the phone.
* *Clubhouse.* Two last owners leaving at once, or a sole owner deleting the
  account, leave a boat without an owner; groups have no such rule. A removed club
  member keeps role grants, and one re-approved keeps `deleted_at` and is missing
  from lists: the coming events of the club are not shown to him
  (`activity_repo.py:152`), though its activities are. That list is also cut to
  `limit` before the visibility rule is applied, so it may be short.
  `update_member` of a group writes the role before it answers 403 for the status.
  A scoped
  grant counts where no club is given, on the server but not in the browser's
  check (`useCapabilities.ts:27`).
* *Worker.* IMU, pressure and wind rows are dated by the file's name: after
  midnight they are a day early, which GPS rows are protected from
  (`handler.py:622`). A file name without a date gives unreadable stamps. One
  damaged IMU, pressure or wind cell fails the file, although `handler.py:392`
  says a row is lost. Rows in the anchor's own second are dropped. Turns
  whose net change exceeds 15 degrees by no more than 10 and their sharpest step may
  be dropped as the "jitter" of `maneuvers.py:427`, which says below 15: the run is
  measured to where it last counts as turning. Turns across long holes are missed.

Found by the proof of `StartupAlwaysMigrates`: 0011 deletes stations by provider alone
but narrows `station_type` as well. A `forecast_grid` station of another provider,
which `routers/wind.py:52` would let a superadmin create, would be refused by the new
CHECK and stop the upgrade. What releases before 0011 accepted is not in the
repository; `Whole` takes their forecast grids to be of `open_meteo`, as 0011 does.

By reading, outside the models: `gather_raw_wind` swallows a failed provider, so
the fallback `write_wind_cache` documents (`ingestion.py:250`) does not happen and
an outage replaces cached wind by none; a repeated analysis callback merges its
wind refinements again, although `system.py` calls it idempotent; the start line
and the marks that a race suggests are applied under other keys than they are
estimated under (`start_line`/`pin`, `mark_type`/`mark_role`).

## 7. Left out

* Floating point: the Kalman filter, smoothing, features of maneuvers, polar and
  VMG numbers, the vector means of `xgsail_windfusion`. Where a decision depends on
  one, it is a choice from a set.
* The wind cache (`wind_lookup.py`, providers, estimate grid): best effort over
  HTTP, what it promises is in section 6.
* The BLE relay (`nativeBle.ts`, `e1Sync.ts`): what its frames guarantee is decided
  by firmware that is not in the repository.
* Single-row CRUD: results, documents and course of a race, regattas, posts,
  profiles, boat classes, integrations, legal texts, media, thumbnails, photos;
  the throttle of confirm, `last_seen`, CSRF, access tokens.
* A failing database, and a restart of the server in the middle of a request, such
  as between the insert and the revoke of a refresh.
* Object store, video worker, training scripts, UI, deployment: adapters, offline
  scripts, presentation, configuration.
