--------------------------- MODULE NativeRecording ---------------------------
(***************************************************************************)
(* Tracks recorded on the phone: the index of recordings, in memory and in *)
(* index.json, the controls of the recorder, and the upload of a finished  *)
(* track through /api/imports, which starts by itself, is retried while    *)
(* the page is open, and may be asked for by hand.  Taps, timers and       *)
(* answers interleave at every await; the system may kill the app, also in *)
(* the middle of a write of index.json.  The points of a track are one     *)
(* fact.                                                                   *)
(***************************************************************************)
EXTENDS Naturals, FiniteSets

CONSTANTS
    Recordings,     \* recordings that may be started
    Flows,          \* taps on the controls being worked on at a time
    MaxTaps,        \* bounds: taps, kills of the app, answers lost
    MaxKills,
    MaxLost,
    None

ASSUME RecordingAssumption ==
    /\ MaxTaps \in Nat /\ MaxKills \in Nat /\ MaxLost \in Nat
    /\ None \notin Recordings

VARIABLES
    index,      \* [Recordings -> Status]: the index in memory
    disk,       \* the same, as index.json has it
    active,     \* the recording of the running watcher; or None
    watching,   \* active has a watcher: it is not paused
    raw, gpx,   \* recordings with a point log, with a finished track
    flow,       \* [Flows -> a tap being worked on]
    task,       \* [Recordings -> [{"page", "row"} -> step of its upload]]
    stored,     \* [Recordings -> uploads the server has registered]
    taps, kills, lost,
    doubled,    \* history: a control was tapped while another was worked on
    dropped     \* history: recordings the user deleted, or whose entry went with an
                \*          index.json a kill left half written

phone == <<index, disk, active, watching, raw, gpx, flow, task>>
vars == <<phone, stored, taps, kills, lost, doubled, dropped>>

Status == {"none", "recording", "paused", "stopped", "uploading", "uploaded", "failed",
           "permission_error"}
Step == {"idle", "read", "send", "complete", "answer", "forget", "delete"}
Callers == {"page", "row"}
NoFlow == [do |-> "none", at |-> "idle", id |-> None]
Idle == [who \in Callers |-> "idle"]

Init ==
    /\ index = [r \in Recordings |-> "none"] /\ disk = index
    /\ active = None /\ watching = FALSE /\ raw = {} /\ gpx = {}
    /\ flow = [f \in Flows |-> NoFlow]
    /\ task = [r \in Recordings |-> Idle]
    /\ stored = [r \in Recordings |-> 0]
    /\ taps = 0 /\ kills = 0 /\ lost = 0 /\ doubled = FALSE /\ dropped = {}

\* The entry of r gets a status, if there is one.
Marked(r, status) == IF index[r] = "none" THEN index ELSE [index EXCEPT ![r] = status]

-----------------------------------------------------------------------------
(* The controls.                                                           *)

Tap(f, do, r) ==
    /\ flow[f] = NoFlow /\ taps < MaxTaps /\ taps' = taps + 1
    /\ flow' = [flow EXCEPT ![f] = [do |-> do, at |-> "asked", id |-> r]]
    /\ doubled' = (doubled \/ \E g \in Flows : flow[g] # NoFlow)
    /\ UNCHANGED <<index, disk, active, watching, raw, gpx, task, stored, kills, lost, dropped>>

At(f, do, step) == flow[f].do = do /\ flow[f].at = step
Goto(f, step) == flow' = [flow EXCEPT ![f].at = step]
Over(f) == flow' = [flow EXCEPT ![f] = NoFlow]
history == <<stored, taps, kills, lost, doubled, dropped>>

Start(f, r) ==
    /\ active = None
    /\ index[r] = "none" /\ r \notin raw \cup dropped /\ stored[r] = 0
    /\ \A g \in Flows : flow[g].id # r
    /\ Tap(f, "start", r)

\* Eight seconds later, or with the first fix, GPS is usable; or it is not.
StartPush(f) ==
    /\ At(f, "start", "asked")
    /\ \/ index' = [index EXCEPT ![flow[f].id] = "recording"] /\ Goto(f, "save")
       \/ UNCHANGED index /\ Over(f)
    /\ UNCHANGED <<disk, active, watching, raw, gpx, task, history>>

StartSaved(f) ==
    /\ At(f, "start", "save")
    /\ disk' = index
    /\ active' = flow[f].id /\ watching' = TRUE
    /\ Over(f)
    /\ UNCHANGED <<index, raw, gpx, task, history>>

Pause(f) == active # None /\ watching /\ Tap(f, "pause", active)
Resume(f) == active # None /\ ~watching /\ Tap(f, "resume", active)
Stop(f) == active # None /\ Tap(f, "stop", active)

\* What is marked is the active recording of the moment; none: an exception.
Switch(f, do, on, status) ==
    /\ At(f, do, "asked")
    /\ IF active = None THEN UNCHANGED <<index, watching>>
       ELSE watching' = on /\ index' = Marked(active, status)
    /\ disk' = IF active = None THEN disk ELSE index'
    /\ Over(f)
    /\ UNCHANGED <<active, raw, gpx, task, history>>

Paused(f) == Switch(f, "pause", FALSE, "paused")
Resumed(f) == Switch(f, "resume", TRUE, "recording")

\* The watcher is removed; the plugin may refuse a second removal.
Stopped(f) ==
    /\ At(f, "stop", "asked")
    /\ \/ active' = None /\ watching' = FALSE /\ Goto(f, "finalize")
       \/ active # flow[f].id /\ UNCHANGED <<active, watching>> /\ Over(f)
    /\ UNCHANGED <<index, disk, raw, gpx, task, history>>

\* The track is written from the log; without a log, an exception.
Finalized(f) ==
    /\ At(f, "stop", "finalize")
    /\ IF flow[f].id \in raw
       THEN /\ gpx' = gpx \cup {flow[f].id}
            /\ index' = Marked(flow[f].id, "stopped") /\ Goto(f, "save")
       ELSE Over(f) /\ UNCHANGED <<index, gpx>>
    /\ UNCHANGED <<disk, active, watching, raw, task, history>>

\* The upload of a stopped track begins by itself.
StopSaved(f) ==
    LET r == flow[f].id  begins == task[r]["page"] = "idle" IN
    /\ At(f, "stop", "save")
    /\ disk' = index
    /\ index' = IF begins THEN Marked(r, "uploading") ELSE index
    /\ task' = IF begins THEN [task EXCEPT ![r]["page"] = "read"] ELSE task
    /\ Over(f)
    /\ UNCHANGED <<active, watching, raw, gpx, history>>

Fix ==
    /\ active # None /\ watching
    /\ raw' = raw \cup {active} /\ disk' = index
    /\ UNCHANGED <<index, active, watching, gpx, flow, task, history>>

PermissionLost ==
    /\ active # None /\ watching
    /\ index' = Marked(active, "permission_error") /\ disk' = index'
    /\ active' = None /\ watching' = FALSE
    /\ UNCHANGED <<raw, gpx, flow, task, history>>

-----------------------------------------------------------------------------
(* The upload: uploadRecording, and the sequence of useImportUpload.       *)

Waiting(r) == index[r] \in {"stopped", "failed"}

Begin(r, who) ==
    /\ task[r][who] = "idle"
    /\ index' = [index EXCEPT ![r] = "uploading"]
    /\ task' = [task EXCEPT ![r][who] = "read"]
    /\ UNCHANGED <<disk, active, watching, raw, gpx, flow, stored, taps, kills, lost, dropped>>

\* Mutant: only what was never tried.
RetryStopped(r) == index[r] = "stopped" /\ Begin(r, "page") /\ UNCHANGED doubled

\* Mutant: uploads a kill interrupted are taken up too, and so are running ones.
RetryUploading(r) == (Waiting(r) \/ index[r] = "uploading") /\ Begin(r, "page") /\ UNCHANGED doubled

\* The timer, or the network coming back.
Retry(r) == Waiting(r) /\ Begin(r, "page") /\ UNCHANGED doubled

\* The button of the row.
UploadByHand(r) ==
    /\ Waiting(r) /\ Begin(r, "row")
    /\ doubled' = (doubled \/ \E f \in Flows : flow[f] # NoFlow)

Step2(r, who, from, to) == task[r][who] = from /\ task' = [task EXCEPT ![r][who] = to]

Failed(r, who) ==
    /\ index' = Marked(r, "failed") /\ disk' = index'
    /\ task' = [task EXCEPT ![r][who] = "idle"]
    /\ UNCHANGED <<active, watching, raw, gpx, flow>>

Read(r, who) ==
    /\ task[r][who] = "read"
    /\ \/ /\ r \in gpx
          /\ disk' = index
          /\ Step2(r, who, "read", "send")
          /\ UNCHANGED <<index, active, watching, raw, gpx, flow>>
       \/ r \notin gpx /\ Failed(r, who)
    /\ UNCHANGED history

\* Mutant: the local copy goes once the file is sent.
SendAndForget(r, who) ==
    /\ Step2(r, who, "send", "complete")
    /\ raw' = raw \ {r}
    /\ UNCHANGED <<index, disk, active, watching, gpx, flow, history>>

\* POST /imports and the PUT of the file.
Send(r, who) ==
    /\ Step2(r, who, "send", "complete")
    /\ UNCHANGED <<index, disk, active, watching, raw, gpx, flow, history>>

\* POST /imports/{id}/complete: the server registers the track.
Complete(r, who) ==
    /\ Step2(r, who, "complete", "answer")
    /\ stored' = [stored EXCEPT ![r] = @ + 1]
    /\ UNCHANGED <<index, disk, active, watching, raw, gpx, flow, taps, kills, lost, doubled, dropped>>

\* No network, or a refusal.
Refused(r, who) ==
    /\ task[r][who] \in {"send", "complete"}
    /\ Failed(r, who)
    /\ UNCHANGED history

\* The track is registered, and its answer lost or an error.
AnswerLost(r, who) ==
    /\ task[r][who] = "answer" /\ lost < MaxLost /\ lost' = lost + 1
    /\ Failed(r, who)
    /\ UNCHANGED <<stored, taps, kills, doubled, dropped>>

Answered(r, who) ==
    /\ Step2(r, who, "answer", "forget")
    /\ index' = Marked(r, "uploaded")
    /\ UNCHANGED <<disk, active, watching, raw, gpx, flow, history>>

Forget(r, who) ==
    /\ Step2(r, who, "forget", "delete")
    /\ disk' = index
    /\ index' = [index EXCEPT ![r] = "none"]
    /\ UNCHANGED <<active, watching, raw, gpx, flow, history>>

Delete(r, who) ==
    /\ Step2(r, who, "delete", "idle")
    /\ disk' = index /\ raw' = raw \ {r} /\ gpx' = gpx \ {r}
    /\ UNCHANGED <<index, active, watching, flow, history>>

\* The delete button.
Remove(r) ==
    /\ index[r] \notin {"none", "recording", "paused", "uploading"}
    /\ task[r]["row"] = "idle"
    /\ index' = [index EXCEPT ![r] = "none"]
    /\ task' = [task EXCEPT ![r]["row"] = "delete"]
    /\ dropped' = dropped \cup {r}
    /\ UNCHANGED <<disk, active, watching, raw, gpx, flow, stored, taps, kills, lost, doubled>>

\* Something is under way that writes index.json.
Writing == \/ active # None \/ \E f \in Flows : flow[f] # NoFlow
           \/ \E r \in Recordings, who \in Callers : task[r][who] # "idle"

\* The app is killed, and started again: a half-written index.json is read as
\* one without entries.
Kill ==
    /\ kills < MaxKills /\ kills' = kills + 1
    /\ \/ UNCHANGED <<disk, dropped>>
       \/ /\ Writing
          /\ disk' = [r \in Recordings |-> "none"]
          /\ dropped' = dropped \cup {r \in Recordings : disk[r] # "none"}
    /\ index' = disk' /\ active' = None /\ watching' = FALSE
    /\ flow' = [f \in Flows |-> NoFlow]
    /\ task' = [r \in Recordings |-> Idle]
    /\ UNCHANGED <<raw, gpx, stored, taps, lost, doubled>>

-----------------------------------------------------------------------------
FlowStep(f) == \/ StartPush(f) \/ StartSaved(f) \/ Paused(f) \/ Resumed(f)
               \/ Stopped(f) \/ Finalized(f) \/ StopSaved(f)
TaskStep(r, who) == \/ Read(r, who) \/ Complete(r, who) \/ Forget(r, who) \/ Delete(r, who)

Next ==
    \/ \E f \in Flows : \/ Pause(f) \/ Resume(f) \/ Stop(f) \/ FlowStep(f)
                        \/ \E r \in Recordings : Start(f, r)
    \/ Fix \/ PermissionLost \/ Kill
    \/ \E r \in Recordings : \/ Retry(r) \/ UploadByHand(r) \/ Remove(r)
                             \/ \E who \in Callers : \/ TaskStep(r, who) \/ Send(r, who)
                                                     \/ Refused(r, who) \/ AnswerLost(r, who)
                                                     \/ Answered(r, who)

\* Awaits end and the timer ticks while the page is open.  The network does not
\* fail for ever, nor does the server refuse a track for ever.
Fairness ==
    /\ \A f \in Flows : WF_vars(FlowStep(f))
    /\ \A r \in Recordings :
         /\ WF_vars(Retry(r))
         /\ \A who \in Callers : /\ WF_vars(TaskStep(r, who)) /\ WF_vars(Answered(r, who))
                                 /\ SF_vars(Send(r, who)) /\ SF_vars(Complete(r, who))

Spec == Init /\ [][Next]_vars /\ Fairness

-----------------------------------------------------------------------------
(* Properties.                                                             *)

TypeOK ==
    /\ index \in [Recordings -> Status] /\ disk \in [Recordings -> Status]
    /\ active \in Recordings \cup {None} /\ watching \in BOOLEAN
    /\ raw \subseteq Recordings /\ gpx \subseteq Recordings
    /\ flow \in [Flows -> [do : {"none", "start", "pause", "resume", "stop"},
                           at : {"idle", "asked", "save", "finalize"}, id : Recordings \cup {None}]]
    /\ task \in [Recordings -> [Callers -> Step]]
    /\ stored \in [Recordings -> Nat]
    /\ taps \in 0..MaxTaps /\ kills \in 0..MaxKills /\ lost \in 0..MaxLost
    /\ doubled \in BOOLEAN /\ dropped \subseteq Recordings

\* A track is on the phone, with an entry of index.json that leads to it, until
\* the server has registered it or the user has deleted it: at any moment the
\* app may be killed, or an answer lost.  Unless the kill leaves index.json half
\* written, from which every recording it listed is lost to the app.
TrackIsSafe ==
    \A r \in gpx \cup {r \in Recordings : disk[r] \notin {"none", "recording", "paused"}} :
       (r \in raw /\ disk[r] # "none") \/ stored[r] > 0 \/ r \in dropped
       \/ disk[r] = "permission_error"

\* A track is registered once, however often it is retried and whenever the app
\* is killed; unless an answer was lost or an error, or a control was tapped
\* before the last tap was done.
RegisteredOnce ==
    \A r \in Recordings : stored[r] <= 1 \/ lost > 0 \/ doubled

\* A finished track reaches the server, or is deleted, as long as the page is
\* open and the app lives.
FinishedIsUploaded ==
    \A r \in Recordings :
       (Waiting(r) \/ index[r] = "uploading")
          ~> (index[r] = "none" /\ (stored[r] > 0 \/ r \in dropped)) \/ kills > 0

\* A comment of the page says a track left pending needs the app reopened to
\* finish its upload.
\* Not kept by the code: see README, section 6.
ReopenFinishes ==
    \A r \in Recordings :
       (Waiting(r) \/ index[r] = "uploading")
          ~> (index[r] = "none" /\ (stored[r] > 0 \/ r \in dropped))
=============================================================================
