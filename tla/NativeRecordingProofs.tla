------------------------ MODULE NativeRecordingProofs ------------------------
(***************************************************************************)
(* Type correctness of NativeRecording, that a finished track is safe as   *)
(* long as no kill cuts off its index, and that it is registered once; for *)
(* any number of recordings, taps, kills of the app and lost answers.      *)
(***************************************************************************)
EXTENDS NativeRecording, TLAPS

USE RecordingAssumption

\* A tap being worked on names a recording.
FlowInv == \A f \in Flows : flow[f].do # "none" => flow[f].id \in Recordings

Typed == TypeOK /\ FlowInv

LEMMA IdleType == Idle \in [Callers -> Step] /\ \A who \in Callers : Idle[who] = "idle"
BY DEF Idle, Step

LEMMA NoFlowType ==
    /\ NoFlow \in [do : {"none", "start", "pause", "resume", "stop"},
                   at : {"idle", "asked", "save", "finalize"}, id : Recordings \cup {None}]
    /\ NoFlow.do = "none"
BY DEF NoFlow

LEMMA TypedInit == Init => Typed
<1> SUFFICES ASSUME Init PROVE Typed
  OBVIOUS
<1>1. index \in [Recordings -> Status] /\ disk \in [Recordings -> Status]
  BY DEF Init, Status
<1>2. task \in [Recordings -> [Callers -> Step]]
  BY IdleType DEF Init
<1>3. FlowInv /\ flow \in [Flows -> [do : {"none", "start", "pause", "resume", "stop"},
                           at : {"idle", "asked", "save", "finalize"}, id : Recordings \cup {None}]]
  BY NoFlowType DEF Init, FlowInv
<1>4. taps \in 0..MaxTaps /\ kills \in 0..MaxKills /\ lost \in 0..MaxLost
  BY DEF Init
<1>5. stored \in [Recordings -> Nat]
  BY DEF Init
<1>6. /\ active \in Recordings \cup {None} /\ watching \in BOOLEAN /\ doubled \in BOOLEAN
      /\ raw \subseteq Recordings /\ gpx \subseteq Recordings /\ dropped \subseteq Recordings
  BY DEF Init
<1> QED BY <1>1, <1>2, <1>3, <1>4, <1>5, <1>6 DEF Typed, TypeOK

LEMMA MarkedType ==
    ASSUME index \in [Recordings -> Status], NEW r, NEW s \in Status
    PROVE  Marked(r, s) \in [Recordings -> Status]
BY DEF Marked

LEMMA FlowType ==
    ASSUME Typed, NEW f \in Flows,
           flow' = [flow EXCEPT ![f] = NoFlow]
              \/ \E step \in {"save", "finalize"} : flow' = [flow EXCEPT ![f].at = step]
    PROVE  /\ flow' \in [Flows -> [do : {"none", "start", "pause", "resume", "stop"},
                                   at : {"idle", "asked", "save", "finalize"},
                                   id : Recordings \cup {None}]]
           /\ FlowInv'
<1> DEFINE Flow == [do : {"none", "start", "pause", "resume", "stop"},
                    at : {"idle", "asked", "save", "finalize"}, id : Recordings \cup {None}]
<1>1. flow \in [Flows -> Flow] /\ flow[f] \in Flow
  BY DEF Typed, TypeOK
<1>2. CASE flow' = [flow EXCEPT ![f] = NoFlow]
  BY <1>1, <1>2 DEF Typed, FlowInv, NoFlow
<1>3. ASSUME NEW step \in {"save", "finalize"}, flow' = [flow EXCEPT ![f].at = step]
      PROVE  flow' \in [Flows -> Flow] /\ FlowInv'
  <2>1. [flow[f] EXCEPT !.at = step] \in Flow
    BY <1>1
  <2>2. \A g \in Flows : flow'[g].do = flow[g].do /\ flow'[g].id = flow[g].id
    BY <1>1, <1>3
  <2> QED BY <1>1, <1>3, <2>1, <2>2 DEF Typed, FlowInv
<1> QED BY <1>2, <1>3

LEMMA TaskType ==
    ASSUME Typed, NEW r, NEW who, NEW s \in Step,
           task' = [task EXCEPT ![r][who] = s]
    PROVE  task' \in [Recordings -> [Callers -> Step]]
BY DEF Typed, TypeOK

LEMMA TapTyped ==
    ASSUME Typed, NEW f \in Flows, NEW do \in {"start", "pause", "resume", "stop"},
           NEW r \in Recordings, Tap(f, do, r)
    PROVE  Typed'
BY DEF Typed, TypeOK, FlowInv, Tap, NoFlow

LEMMA FailedTyped ==
    ASSUME Typed, NEW r \in Recordings, NEW who \in Callers, Failed(r, who)
    PROVE  /\ index' \in [Recordings -> Status] /\ disk' \in [Recordings -> Status]
           /\ task' \in [Recordings -> [Callers -> Step]]
BY MarkedType, TaskType DEF Typed, TypeOK, Failed, Status, Step

LEMMA TypedStep == Typed /\ [Next]_vars => Typed'
<1> SUFFICES ASSUME Typed, [Next]_vars PROVE Typed'
  OBVIOUS
<1>t. TypeOK
  BY DEF Typed
<1>1. ASSUME NEW f \in Flows, Pause(f) \/ Resume(f) \/ Stop(f) PROVE Typed'
  BY <1>1, <1>t, TapTyped DEF TypeOK, Pause, Resume, Stop
<1>2. ASSUME NEW f \in Flows, NEW r \in Recordings, Start(f, r) PROVE Typed'
  BY <1>2, TapTyped DEF Start
<1>3. ASSUME NEW f \in Flows, StartPush(f) PROVE Typed'
  BY <1>3, <1>t, FlowType DEF Typed, TypeOK, FlowInv, StartPush, Goto, Over, history, Status
<1>4. ASSUME NEW f \in Flows, StartSaved(f) PROVE Typed'
  BY <1>4, <1>t, FlowType DEF Typed, TypeOK, StartSaved, Over, history
<1>5. ASSUME NEW f \in Flows, Paused(f) \/ Resumed(f) PROVE Typed'
  <2>1. index' \in [Recordings -> Status]
    BY <1>5, <1>t, MarkedType DEF TypeOK, Paused, Resumed, Switch, Status
  <2>2. disk' \in [Recordings -> Status]
    BY <1>5, <1>t, <2>1 DEF TypeOK, Paused, Resumed, Switch
  <2> QED BY <1>5, <1>t, <2>1, <2>2, FlowType DEF Typed, TypeOK, Paused, Resumed, Switch, Over, history
<1>6. ASSUME NEW f \in Flows, Stopped(f) PROVE Typed'
  BY <1>6, <1>t, FlowType DEF Typed, TypeOK, Stopped, Goto, Over, history
<1>7. ASSUME NEW f \in Flows, Finalized(f) PROVE Typed'
  <2>1. index' \in [Recordings -> Status] /\ gpx' \subseteq Recordings
    BY <1>7, <1>t, MarkedType DEF TypeOK, Finalized, Status
  <2> QED BY <1>7, <1>t, <2>1, FlowType DEF Typed, TypeOK, Finalized, Goto, Over, history
<1>8. ASSUME NEW f \in Flows, StopSaved(f) PROVE Typed'
  BY <1>8, <1>t, FlowType, TaskType, MarkedType
     DEF Typed, TypeOK, StopSaved, Over, history, Status, Step
<1>9. CASE Fix
  BY <1>9, <1>t DEF Typed, TypeOK, FlowInv, Fix, history
<1>10. CASE PermissionLost
  BY <1>10, <1>t, MarkedType DEF Typed, TypeOK, FlowInv, PermissionLost, history, Status
<1>11. CASE Kill
  <2>1. kills' \in 0..MaxKills
    BY <1>11, <1>t DEF TypeOK, Kill
  <2>2. task' \in [Recordings -> [Callers -> Step]]
    BY <1>11, IdleType DEF Kill
  <2>3. FlowInv' /\ flow' \in [Flows -> [do : {"none", "start", "pause", "resume", "stop"},
                           at : {"idle", "asked", "save", "finalize"}, id : Recordings \cup {None}]]
    BY <1>11, NoFlowType DEF Kill, FlowInv
  <2>4. disk' \in [Recordings -> Status] /\ index' = disk' /\ dropped' \subseteq Recordings
    BY <1>11, <1>t DEF TypeOK, Kill, Status
  <2> QED BY <1>11, <1>t, <2>1, <2>2, <2>3, <2>4 DEF Typed, TypeOK, Kill
<1>12. ASSUME NEW r \in Recordings, Retry(r) \/ UploadByHand(r) PROVE Typed'
  BY <1>12, <1>t, TaskType DEF Typed, TypeOK, FlowInv, Retry, UploadByHand, Begin, Status, Step
<1>13. ASSUME NEW r \in Recordings, Remove(r) PROVE Typed'
  BY <1>13, <1>t, TaskType DEF Typed, TypeOK, FlowInv, Remove, Status, Step
<1>14. ASSUME NEW r \in Recordings, NEW who \in Callers, Read(r, who) PROVE Typed'
  BY <1>14, <1>t, TaskType, FailedTyped
     DEF Typed, TypeOK, FlowInv, Read, Step2, Failed, history, Step
<1>15. ASSUME NEW r \in Recordings, NEW who \in Callers, Send(r, who) \/ Complete(r, who)
       PROVE Typed'
  <2>1. task' \in [Recordings -> [Callers -> Step]]
    BY <1>15, TaskType DEF Send, Complete, Step2, Step
  <2>2. stored' \in [Recordings -> Nat]
    BY <1>15, <1>t DEF TypeOK, Send, Complete, history
  <2> QED BY <1>15, <1>t, <2>1, <2>2 DEF Typed, TypeOK, FlowInv, Send, Complete, history
<1>16. ASSUME NEW r \in Recordings, NEW who \in Callers, Refused(r, who) \/ AnswerLost(r, who)
       PROVE Typed'
  BY <1>16, <1>t, FailedTyped DEF Typed, TypeOK, FlowInv, Refused, AnswerLost, Failed, history
<1>17. ASSUME NEW r \in Recordings, NEW who \in Callers,
              Answered(r, who) \/ Forget(r, who) \/ Delete(r, who)
       PROVE Typed'
  <2>1. task' \in [Recordings -> [Callers -> Step]]
    BY <1>17, TaskType DEF Answered, Forget, Delete, Step2, Step
  <2>2. index' \in [Recordings -> Status] /\ disk' \in [Recordings -> Status]
    BY <1>17, <1>t, MarkedType DEF TypeOK, Answered, Forget, Delete, Status
  <2> QED BY <1>17, <1>t, <2>1, <2>2 DEF Typed, TypeOK, FlowInv, Answered, Forget, Delete, history
<1>18. CASE UNCHANGED vars
  BY <1>18, <1>t DEF Typed, TypeOK, FlowInv, vars, phone
<1> QED
  BY <1>1, <1>2, <1>3, <1>4, <1>5, <1>6, <1>7, <1>8, <1>9, <1>10, <1>11, <1>12, <1>13, <1>14,
     <1>15, <1>16, <1>17, <1>18 DEF Next, FlowStep, TaskStep

\* Every reachable state is well typed.
THEOREM TypeSafety == Spec => []TypeOK
<1>1. Init => Typed
  BY TypedInit
<1>2. Typed /\ [Next]_vars => Typed'
  BY TypedStep
<1>3. Typed => TypeOK
  BY DEF Typed
<1> QED BY <1>1, <1>2, <1>3, PTL DEF Spec
-----------------------------------------------------------------------------
(* A finished track is safe.                                               *)

\* Registered by the server, deleted by the user, or lost with the index.
Kept(r) == stored[r] > 0 \/ r \in dropped

\* In memory and on disk a point log has an entry, a track and an entry that
\* promises one have a point log, and whoever is about to add one of them has
\* what it takes; until the recording is registered or deleted.
LogInv ==
    /\ \A r \in gpx : r \in raw \/ Kept(r)
    /\ \A r \in raw : (index[r] # "none" /\ disk[r] # "none") \/ Kept(r)
PromiseInv ==
    \A r \in Recordings :
        index[r] \in {"stopped", "uploading", "uploaded", "failed"}
        \/ disk[r] \in {"stopped", "uploading", "uploaded", "failed"} => r \in raw \/ Kept(r)
ActiveInv ==
    /\ active # None => index[active] # "none" \/ Kept(active)
    /\ \A f \in Flows :
          /\ At(f, "start", "save") => index[flow[f].id] # "none" \/ Kept(flow[f].id)
          /\ At(f, "stop", "save") => flow[f].id \in raw \/ Kept(flow[f].id)
UploadInv ==
    \A r \in Recordings, who \in Callers :
        /\ task[r][who] # "idle" => r \in raw \/ Kept(r)
        /\ task[r][who] \in {"answer", "forget", "delete"} => Kept(r)

SafeInv == LogInv /\ PromiseInv /\ ActiveInv /\ UploadInv

LEMMA SafeInit == Init => SafeInv
BY DEF Init, SafeInv, LogInv, PromiseInv, ActiveInv, UploadInv, At, NoFlow, Idle, Callers

\* Steps that leave logs, tracks and what is kept alone.
LEMMA SafeFrame ==
    ASSUME Typed, SafeInv, UNCHANGED <<raw, gpx, stored, dropped>>,
           \A r \in Recordings : index'[r] = "none" => index[r] = "none" \/ Kept(r),
           \A r \in Recordings : disk'[r] \in {index[r], index'[r], disk[r]},
           \A r \in Recordings :
              index'[r] \in {"stopped", "uploading", "uploaded", "failed"} =>
                 index[r] = index'[r] \/ r \in raw \/ Kept(r)
    PROVE  LogInv' /\ PromiseInv'
<1>1. \A r \in Recordings : Kept(r)' <=> Kept(r)
  BY DEF Kept
<1>2. LogInv'
  BY <1>1 DEF Typed, TypeOK, SafeInv, LogInv
<1>3. PromiseInv'
  BY <1>1 DEF SafeInv, PromiseInv
<1> QED BY <1>2, <1>3

\* Steps of taps.
LEMMA FlowFrame ==
    ASSUME Typed, SafeInv, NEW f \in Flows,
           flow' = [flow EXCEPT ![f] = NoFlow] \/ flow' = flow,
           UNCHANGED <<raw, stored, dropped>>,
           \A r \in Recordings : index'[r] = "none" => index[r] = "none" \/ Kept(r),
           active' \in {active, None}
    PROVE  ActiveInv'
<1>1. \A r \in Recordings : Kept(r)' <=> Kept(r)
  BY DEF Kept
<1>2. \A g \in Flows : flow'[g] \in {flow[g], NoFlow}
  BY DEF Typed, TypeOK
<1>3. \A g \in Flows, do \in {"start", "stop"} : At(g, do, "save")' => At(g, do, "save") /\ flow'[g] = flow[g]
                                                  /\ flow[g].id \in Recordings
  BY <1>2 DEF At, NoFlow, Typed, FlowInv
<1> QED BY <1>1, <1>3 DEF SafeInv, ActiveInv, Typed, TypeOK

LEMMA TapSafe ==
    ASSUME Typed, SafeInv, NEW f \in Flows, NEW do, NEW r, Tap(f, do, r)
    PROVE  SafeInv'
<1>1. \A q : Kept(q)' <=> Kept(q)
  BY DEF Tap, Kept
<1>2. \A g \in Flows : flow'[g] = flow[g] \/ flow'[g].at = "asked"
  BY DEF Tap, Typed, TypeOK
<1>3. ActiveInv'
  BY <1>1, <1>2 DEF Tap, SafeInv, ActiveInv, At
<1> QED BY <1>1, <1>3 DEF Tap, SafeInv, LogInv, PromiseInv, UploadInv

\* Steps of the upload of one recording.
LEMMA UploadFrame ==
    ASSUME Typed, SafeInv, NEW r \in Recordings, NEW who \in Callers, NEW s,
           task' = [task EXCEPT ![r][who] = s],
           s # "idle" => r \in raw \/ Kept(r),
           s \in {"answer", "forget", "delete"} => Kept(r)',
           UNCHANGED raw, \A q \in Recordings : Kept(q) => Kept(q)'
    PROVE  UploadInv'
<1>1. \A q \in Recordings, c \in Callers :
         task'[q][c] = IF q = r /\ c = who THEN s ELSE task[q][c]
  BY DEF Typed, TypeOK
<1> QED BY <1>1 DEF SafeInv, UploadInv

LEMMA ActiveFrame ==
    ASSUME Typed, SafeInv, UNCHANGED <<active, flow, raw>>,
           \A r \in Recordings : Kept(r) => Kept(r)',
           \A r \in Recordings : index'[r] = "none" => index[r] = "none" \/ Kept(r)'
    PROVE  ActiveInv'
BY DEF Typed, TypeOK, FlowInv, SafeInv, ActiveInv, At

LEMMA SafeStep == Typed /\ SafeInv /\ [Next]_vars => SafeInv'
<1> SUFFICES ASSUME Typed, SafeInv, [Next]_vars PROVE SafeInv'
  OBVIOUS
<1>t. TypeOK
  BY DEF Typed
<1>1. ASSUME NEW f \in Flows, Pause(f) \/ Resume(f) \/ Stop(f) \/ \E r \in Recordings : Start(f, r)
      PROVE SafeInv'
  BY <1>1, TapSafe DEF Pause, Resume, Stop, Start
<1>2. ASSUME NEW f \in Flows, StartPush(f) PROVE SafeInv'
  <2>1. \A r \in Recordings : Kept(r)' <=> Kept(r)
    BY <1>2 DEF StartPush, history, Kept
  <2>2. \A r \in Recordings : index'[r] \in {index[r], "recording"}
    BY <1>2, <1>t DEF StartPush, TypeOK
  <2>3. LogInv' /\ PromiseInv'
    BY <1>2, <2>2, SafeFrame DEF StartPush, history
  <2>4. UploadInv'
    BY <1>2, <2>1 DEF StartPush, SafeInv, UploadInv
  <2>5. flow[f].id \in Recordings
    BY <1>2 DEF StartPush, At, Typed, FlowInv
  <2>6. CASE UNCHANGED index /\ Over(f)
    <3>1. ActiveInv'
      BY <1>2, <2>2, <2>6, FlowFrame DEF StartPush, Over, history
    <3> QED BY <2>3, <2>4, <3>1 DEF SafeInv
  <2>7. CASE index' = [index EXCEPT ![flow[f].id] = "recording"] /\ Goto(f, "save")
    <3>1. index'[flow[f].id] = "recording"
      BY <2>5, <2>7, <1>t DEF TypeOK
    <3>2. \A g \in Flows : flow'[g].id = flow[g].id /\ flow'[g].do = flow[g].do
                           /\ (g # f => flow'[g] = flow[g])
      BY <2>7, <1>t DEF Goto, TypeOK
    <3>3. \A g \in Flows : At(g, "stop", "save")' => At(g, "stop", "save")
      BY <1>2, <3>2 DEF StartPush, At
    <3>4. ActiveInv'
      <4>1. UNCHANGED <<active, raw>> /\ \A r \in Recordings : index[r] # "none" => index'[r] # "none"
        BY <1>2, <2>2 DEF StartPush
      <4>2. active \in Recordings \cup {None} /\ \A g \in Flows : flow[g].do # "none" => flow[g].id \in Recordings
        BY <1>t DEF TypeOK, Typed, FlowInv
      <4>3. \A g \in Flows : At(g, "start", "save")' => g = f \/ At(g, "start", "save")
        BY <3>2 DEF At
      <4>4. active' # None => index'[active'] # "none" \/ Kept(active)'
        BY <2>1, <4>1, <4>2 DEF SafeInv, ActiveInv
      <4>5. ASSUME NEW g \in Flows, At(g, "start", "save")' PROVE index'[flow'[g].id] # "none" \/ Kept(flow[g].id)'
        BY <2>1, <3>1, <3>2, <4>1, <4>2, <4>3, <4>5 DEF SafeInv, ActiveInv, At
      <4>6. ASSUME NEW g \in Flows, At(g, "stop", "save")' PROVE flow'[g].id \in raw' \/ Kept(flow[g].id)'
        BY <2>1, <3>2, <3>3, <4>1, <4>2, <4>6 DEF SafeInv, ActiveInv, At
      <4> QED BY <4>4, <4>5, <4>6 DEF ActiveInv
    <3> QED BY <2>3, <2>4, <3>4 DEF SafeInv
  <2> QED BY <1>2, <2>6, <2>7 DEF StartPush
<1>3. ASSUME NEW f \in Flows, StartSaved(f) PROVE SafeInv'
  <2>1. \A r \in Recordings : Kept(r)' <=> Kept(r)
    BY <1>3 DEF StartSaved, history, Kept
  <2>2. LogInv' /\ PromiseInv'
    BY <1>3, SafeFrame DEF StartSaved, history
  <2>3. UploadInv'
    BY <1>3, <2>1 DEF StartSaved, SafeInv, UploadInv
  <2>4. flow[f].id \in Recordings /\ (index[flow[f].id] # "none" \/ Kept(flow[f].id))
    BY <1>3 DEF StartSaved, At, Typed, FlowInv, SafeInv, ActiveInv
  <2>5. \A g \in Flows : flow'[g] \in {flow[g], NoFlow}
    BY <1>3, <1>t DEF StartSaved, Over, TypeOK
  <2>6. \A g \in Flows, do \in {"start", "stop"} :
           At(g, do, "save")' => At(g, do, "save") /\ flow'[g] = flow[g] /\ flow[g].id \in Recordings
    BY <2>5 DEF At, NoFlow, Typed, FlowInv
  <2>7. ActiveInv'
    BY <1>3, <2>1, <2>4, <2>6 DEF StartSaved, SafeInv, ActiveInv
  <2> QED BY <2>2, <2>3, <2>7 DEF SafeInv
<1>4. ASSUME NEW f \in Flows, Paused(f) \/ Resumed(f) PROVE SafeInv'
  <2>1. \A r \in Recordings : index'[r] \in {index[r], "paused", "recording"}
                              /\ (index'[r] = "none" <=> index[r] = "none")
    BY <1>4, <1>t DEF Paused, Resumed, Switch, Marked, TypeOK
  <2>2. \A r \in Recordings : disk'[r] \in {disk[r], index'[r]}
    BY <1>4 DEF Paused, Resumed, Switch
  <2>3. UNCHANGED <<raw, gpx, task, active, stored, dropped>> /\ Over(f)
    BY <1>4 DEF Paused, Resumed, Switch, history
  <2>4. LogInv' /\ PromiseInv'
    BY <2>1, <2>2, <2>3, SafeFrame
  <2>5. ActiveInv'
    BY <2>1, <2>3, FlowFrame DEF Over
  <2>6. UploadInv'
    BY <2>3 DEF SafeInv, UploadInv, Kept
  <2> QED BY <2>4, <2>5, <2>6 DEF SafeInv
<1>5. ASSUME NEW f \in Flows, Stopped(f) PROVE SafeInv'
  <2>1. UNCHANGED <<index, disk, raw, gpx, task, stored, dropped>>
    BY <1>5 DEF Stopped, history
  <2>2. LogInv' /\ PromiseInv' /\ UploadInv'
    BY <2>1 DEF SafeInv, LogInv, PromiseInv, UploadInv, Kept
  <2>3. \A g \in Flows : flow'[g] \in {flow[g], NoFlow} \/ flow'[g].at = "finalize"
    BY <1>5, <1>t DEF Stopped, Goto, Over, TypeOK
  <2>4. \A g \in Flows, do \in {"start", "stop"} :
           At(g, do, "save")' => At(g, do, "save") /\ flow'[g] = flow[g]
    BY <2>3 DEF At, NoFlow
  <2>5. ActiveInv'
    BY <1>5, <2>1, <2>4 DEF Stopped, SafeInv, ActiveInv, Kept
  <2> QED BY <2>2, <2>5 DEF SafeInv
<1>6. ASSUME NEW f \in Flows, Finalized(f) PROVE SafeInv'
  <2> DEFINE r == flow[f].id
  <2>1. r \in Recordings
    BY <1>6 DEF Finalized, At, Typed, FlowInv
  <2>2. \A q \in Recordings : Kept(q)' <=> Kept(q)
    BY <1>6 DEF Finalized, history, Kept
  <2>3. UNCHANGED <<disk, active, raw, task>>
    BY <1>6 DEF Finalized
  <2>4. UploadInv'
    BY <2>2, <2>3 DEF SafeInv, UploadInv
  <2>5. CASE r \notin raw
    <3>1. UNCHANGED <<index, gpx>> /\ Over(f)
      BY <1>6, <2>5 DEF Finalized
    <3>2. LogInv' /\ PromiseInv'
      BY <2>2, <2>3, <3>1 DEF Typed, TypeOK, SafeInv, LogInv, PromiseInv
    <3>3. ActiveInv'
      BY <1>6, <2>3, <3>1, FlowFrame DEF Over, Finalized, history
    <3> QED BY <2>4, <3>2, <3>3 DEF SafeInv
  <2>6. CASE r \in raw
    <3>1. gpx' = gpx \cup {r} /\ index' = Marked(r, "stopped") /\ Goto(f, "save")
      BY <1>6, <2>6 DEF Finalized
    <3>2. \A q \in Recordings : /\ index'[q] = "none" <=> index[q] = "none"
                                /\ q # r => index'[q] = index[q]
      BY <3>1, <1>t DEF Marked, TypeOK
    <3>3. LogInv' /\ PromiseInv'
      BY <2>2, <2>3, <2>6, <3>1, <3>2 DEF Typed, TypeOK, SafeInv, LogInv, PromiseInv
    <3>4. \A g \in Flows : flow'[g].id = flow[g].id /\ flow'[g].do = flow[g].do
                           /\ (g # f => flow'[g] = flow[g])
      BY <3>1, <1>t DEF Goto, TypeOK
    <3>5. \A g \in Flows : At(g, "start", "save")' => At(g, "start", "save") /\ flow[g].id \in Recordings
      BY <1>6, <3>4 DEF Finalized, At, Typed, FlowInv
    <3>6. ActiveInv'
      BY <1>t, <2>1, <2>2, <2>3, <2>6, <3>2, <3>4, <3>5
         DEF SafeInv, ActiveInv, At, Typed, TypeOK, FlowInv
    <3> QED BY <2>4, <3>3, <3>6 DEF SafeInv
  <2> QED BY <2>5, <2>6
<1>7. ASSUME NEW f \in Flows, StopSaved(f) PROVE SafeInv'
  <2> DEFINE r == flow[f].id
  <2>1. r \in Recordings /\ (r \in raw \/ Kept(r))
    BY <1>7 DEF StopSaved, At, Typed, FlowInv, SafeInv, ActiveInv
  <2>2. UNCHANGED <<active, raw, gpx, stored, dropped>> /\ disk' = index /\ Over(f)
    BY <1>7 DEF StopSaved, history
  <2>3. \A q \in Recordings : /\ index'[q] = "none" <=> index[q] = "none"
                              /\ q # r => index'[q] = index[q]
    BY <1>7, <1>t DEF StopSaved, Marked, TypeOK
  <2>4. LogInv' /\ PromiseInv'
    BY <2>1, <2>2, <2>3, SafeFrame
  <2>5. ActiveInv'
    BY <2>2, <2>3, FlowFrame DEF Over
  <2>6. task' = task \/ task' = [task EXCEPT ![r]["page"] = "read"]
    BY <1>7 DEF StopSaved
  <2>7. "page" \in Callers /\ \A q \in Recordings : Kept(q) <=> Kept(q)'
    BY <2>2 DEF Callers, Kept
  <2>8. UploadInv'
    BY <2>1, <2>2, <2>6, <2>7, UploadFrame DEF SafeInv, UploadInv
  <2> QED BY <2>4, <2>5, <2>8 DEF SafeInv
<1>8. CASE Fix
  <2>1. \A r \in Recordings : Kept(r)' <=> Kept(r)
    BY <1>8 DEF Fix, history, Kept
  <2>2. LogInv'
    BY <1>8, <1>t, <2>1 DEF Fix, TypeOK, SafeInv, LogInv, ActiveInv
  <2>3. PromiseInv' /\ UploadInv'
    BY <1>8, <2>1 DEF Fix, SafeInv, PromiseInv, UploadInv
  <2>4. ActiveInv'
    BY <1>8, <1>t, <2>1 DEF Fix, SafeInv, ActiveInv, At, Typed, TypeOK, FlowInv
  <2> QED BY <2>2, <2>3, <2>4 DEF SafeInv
<1>9. CASE PermissionLost
  <2>1. \A q \in Recordings : /\ index'[q] = "none" <=> index[q] = "none"
                              /\ index'[q] \in {index[q], "permission_error"}
    BY <1>9, <1>t DEF PermissionLost, Marked, TypeOK
  <2>2. UNCHANGED <<raw, gpx, flow, task, stored, dropped>> /\ disk' = index' /\ active' = None
    BY <1>9 DEF PermissionLost, history
  <2>3. LogInv' /\ PromiseInv'
    BY <2>1, <2>2, SafeFrame
  <2>4. UploadInv'
    BY <2>2 DEF SafeInv, UploadInv, Kept
  <2>5. ActiveInv'
    BY <2>1, <2>2 DEF SafeInv, ActiveInv, At, Typed, FlowInv, Kept
  <2> QED BY <2>3, <2>4, <2>5 DEF SafeInv
<1>10. CASE Kill
  <2>1. /\ \A r \in Recordings : Kept(r) => Kept(r)'
        /\ \A r \in Recordings : disk[r] = "none" \/ disk'[r] = disk[r] \/ Kept(r)'
        /\ \A r \in Recordings : disk'[r] \in {disk[r], "none"} /\ index'[r] = disk'[r]
    BY <1>10, <1>t DEF Kill, Kept, TypeOK
  <2>2. LogInv' /\ PromiseInv'
    BY <1>10, <1>t, <2>1 DEF Kill, TypeOK, SafeInv, LogInv, PromiseInv
  <2>3. ActiveInv'
    BY <1>10 DEF Kill, ActiveInv, At, NoFlow
  <2>4. UploadInv'
    BY <1>10, IdleType DEF Kill, UploadInv
  <2> QED BY <2>2, <2>3, <2>4 DEF SafeInv
<1>11. ASSUME NEW r \in Recordings, Retry(r) \/ UploadByHand(r) PROVE SafeInv'
  <2>1. Waiting(r) /\ UNCHANGED <<disk, active, raw, gpx, flow, stored, dropped>>
        /\ index' = [index EXCEPT ![r] = "uploading"]
    BY <1>11 DEF Retry, UploadByHand, Begin
  <2>2. r \in raw \/ Kept(r)
    BY <2>1 DEF Waiting, SafeInv, PromiseInv
  <2>3. \A q \in Recordings : index'[q] = IF q = r THEN "uploading" ELSE index[q]
    BY <2>1, <1>t DEF TypeOK
  <2>4. LogInv' /\ PromiseInv'
    BY <2>1, <2>2, <2>3, SafeFrame
  <2>5. \A q \in Recordings : Kept(q) <=> Kept(q)'
    BY <2>1 DEF Kept
  <2>6. UploadInv'
    BY <1>11, <2>1, <2>2, <2>5, UploadFrame DEF Retry, UploadByHand, Begin, Callers
  <2>7. ActiveInv'
    BY <2>1, <2>3, <2>5, ActiveFrame
  <2> QED BY <2>4, <2>6, <2>7 DEF SafeInv
<1>12. ASSUME NEW r \in Recordings, Remove(r) PROVE SafeInv'
  <2>1. \A q \in Recordings : Kept(q)' <=> Kept(q) \/ q = r
    BY <1>12 DEF Remove, Kept
  <2>2. \A q \in Recordings : index'[q] = IF q = r THEN "none" ELSE index[q]
    BY <1>12, <1>t DEF Remove, TypeOK
  <2>3. LogInv' /\ PromiseInv'
    BY <1>12, <1>t, <2>1, <2>2 DEF Remove, TypeOK, SafeInv, LogInv, PromiseInv
  <2>4. \A q \in Recordings, c \in Callers : q # r => task'[q][c] = task[q][c]
    BY <1>12, <1>t DEF Remove, TypeOK
  <2>5. UploadInv'
    BY <1>12, <2>1, <2>4 DEF Remove, SafeInv, UploadInv
  <2>6. ActiveInv'
    BY <1>12, <2>1, <2>2, ActiveFrame DEF Remove
  <2> QED BY <2>3, <2>5, <2>6 DEF SafeInv
<1>13. ASSUME NEW r \in Recordings, NEW who \in Callers, Failed(r, who), task[r][who] # "idle",
              UNCHANGED <<stored, dropped>>
       PROVE SafeInv'
  <2>1. r \in raw \/ Kept(r)
    BY <1>13 DEF SafeInv, UploadInv
  <2>2. \A q \in Recordings : /\ index'[q] = "none" <=> index[q] = "none"
                              /\ q # r => index'[q] = index[q]
    BY <1>13, <1>t DEF Failed, Marked, TypeOK
  <2>3. LogInv' /\ PromiseInv'
    BY <1>13, <2>1, <2>2, SafeFrame DEF Failed
  <2>4. \A q \in Recordings : Kept(q) <=> Kept(q)'
    BY <1>13 DEF Kept
  <2>5. UploadInv'
    BY <1>13, <2>4, UploadFrame DEF Failed
  <2>6. ActiveInv'
    BY <1>13, <2>2, <2>4, ActiveFrame DEF Failed
  <2> QED BY <2>3, <2>5, <2>6 DEF SafeInv
<1>14. ASSUME NEW r \in Recordings, NEW who \in Callers,
              Read(r, who) \/ Refused(r, who) \/ AnswerLost(r, who)
       PROVE SafeInv'
  <2>1. CASE Failed(r, who)
    BY <1>13, <1>14, <2>1 DEF Read, Refused, AnswerLost, history
  <2>2. CASE Read(r, who) /\ disk' = index /\ Step2(r, who, "read", "send")
             /\ UNCHANGED <<index, active, watching, raw, gpx, flow>>
    <3>1. LogInv' /\ PromiseInv'
      BY <2>2, SafeFrame DEF Read, history
    <3>2. \A q \in Recordings : Kept(q) <=> Kept(q)'
      BY <2>2 DEF Read, history, Kept
    <3>3. UploadInv'
      BY <2>2, <3>2, UploadFrame DEF Step2, SafeInv, UploadInv
    <3>4. ActiveInv'
      BY <2>2, <3>2, ActiveFrame
    <3> QED BY <3>1, <3>3, <3>4 DEF SafeInv
  <2> QED BY <1>14, <2>1, <2>2 DEF Read, Refused, AnswerLost
<1>15. ASSUME NEW r \in Recordings, NEW who \in Callers, Send(r, who) PROVE SafeInv'
  <2>1. \A q \in Recordings : Kept(q) <=> Kept(q)'
    BY <1>15 DEF Send, history, Kept
  <2>2. LogInv' /\ PromiseInv' /\ ActiveInv'
    BY <1>15, <2>1, SafeFrame, ActiveFrame DEF Send, history
  <2>3. UploadInv'
    BY <1>15, <2>1, UploadFrame DEF Send, Step2, SafeInv, UploadInv
  <2> QED BY <2>2, <2>3 DEF SafeInv
<1>16. ASSUME NEW r \in Recordings, NEW who \in Callers, Complete(r, who) PROVE SafeInv'
  <2>1. \A q \in Recordings : stored'[q] = IF q = r THEN stored[q] + 1 ELSE stored[q]
    BY <1>16, <1>t DEF Complete, TypeOK
  <2>2. (\A q \in Recordings : Kept(q) => Kept(q)') /\ Kept(r)'
    BY <1>16, <1>t, <2>1 DEF Complete, Kept, TypeOK
  <2>3. LogInv' /\ PromiseInv'
    BY <1>16, <1>t, <2>2 DEF Complete, TypeOK, SafeInv, LogInv, PromiseInv
  <2>4. ActiveInv'
    BY <1>16, <2>2, ActiveFrame DEF Complete
  <2>5. UploadInv'
    BY <1>16, <2>2, UploadFrame DEF Complete, Step2, SafeInv, UploadInv
  <2> QED BY <2>3, <2>4, <2>5 DEF SafeInv
<1>17. ASSUME NEW r \in Recordings, NEW who \in Callers, Answered(r, who) \/ Forget(r, who)
       PROVE SafeInv'
  <2>1. Kept(r) /\ \A q \in Recordings : Kept(q) <=> Kept(q)'
    BY <1>17 DEF Answered, Forget, Step2, history, Kept, SafeInv, UploadInv
  <2>2. \A q \in Recordings : q # r => index'[q] = index[q]
    BY <1>17, <1>t DEF Answered, Forget, Marked, TypeOK
  <2>3. UNCHANGED <<active, raw, gpx, flow, stored, dropped>>
        /\ (disk' = index \/ disk' = disk)
    BY <1>17 DEF Answered, Forget, history
  <2>4. LogInv' /\ PromiseInv'
    BY <2>1, <2>2, <2>3, SafeFrame
  <2>5. ActiveInv'
    BY <2>1, <2>2, <2>3, ActiveFrame
  <2>6. UploadInv'
    BY <1>17, <2>1, <2>3, UploadFrame DEF Answered, Forget, Step2
  <2> QED BY <2>4, <2>5, <2>6 DEF SafeInv
<1>18. ASSUME NEW r \in Recordings, NEW who \in Callers, Delete(r, who) PROVE SafeInv'
  <2>1. Kept(r) /\ \A q \in Recordings : Kept(q) <=> Kept(q)'
    BY <1>18 DEF Delete, Step2, history, Kept, SafeInv, UploadInv
  <2>2. UNCHANGED <<index, active, flow>> /\ disk' = index /\ raw' = raw \ {r} /\ gpx' = gpx \ {r}
    BY <1>18 DEF Delete
  <2>3. LogInv' /\ PromiseInv'
    BY <1>t, <2>1, <2>2 DEF TypeOK, SafeInv, LogInv, PromiseInv
  <2>4. ActiveInv'
    BY <2>1, <2>2 DEF SafeInv, ActiveInv, At, Typed, FlowInv, TypeOK
  <2>5. \A q \in Recordings, c \in Callers : task'[q][c] = task[q][c] \/ task'[q][c] = "idle"
    BY <1>18, <1>t DEF Delete, Step2, TypeOK
  <2>6. UploadInv'
    BY <2>1, <2>2, <2>5 DEF SafeInv, UploadInv
  <2> QED BY <2>3, <2>4, <2>6 DEF SafeInv
<1>19. CASE UNCHANGED vars
  BY <1>19 DEF SafeInv, LogInv, PromiseInv, ActiveInv, UploadInv, At, Kept, vars, phone
<1> QED
  BY <1>1, <1>2, <1>3, <1>4, <1>5, <1>6, <1>7, <1>8, <1>9, <1>10, <1>11, <1>12, <1>14,
     <1>15, <1>16, <1>17, <1>18, <1>19 DEF Next, FlowStep, TaskStep

\* A finished track is on the phone, under an entry of its index, until it is
\* registered or deleted, however the app is used, killed or cut off; unless
\* a kill leaves the index half written.
THEOREM TrackAlwaysSafe == Spec => []TrackIsSafe
<1>1. Init => Typed /\ SafeInv
  BY TypedInit, SafeInit
<1>2. Typed /\ SafeInv /\ [Next]_vars => (Typed /\ SafeInv)'
  BY TypedStep, SafeStep
<1>3. Typed /\ SafeInv => TrackIsSafe
  <2> SUFFICES ASSUME Typed, SafeInv,
                      NEW r \in gpx \cup {r \in Recordings : disk[r] \notin {"none", "recording", "paused"}}
               PROVE  (r \in raw /\ disk[r] # "none") \/ Kept(r) \/ disk[r] = "permission_error"
    BY DEF TrackIsSafe, Kept
  <2>1. r \in Recordings
    BY DEF Typed, TypeOK
  <2>2. disk[r] \in Status
    BY <2>1 DEF Typed, TypeOK
  <2> QED BY <2>1, <2>2 DEF SafeInv, LogInv, PromiseInv, Status
<1> QED BY <1>1, <1>2, <1>3, PTL DEF Spec
-----------------------------------------------------------------------------
(* A track is registered once.                                             *)

\* While no answer was lost and no tap overlapped another:
Calm == lost = 0 /\ ~doubled
Sending(r, who) == task[r][who] \in {"read", "send", "complete", "answer"}
Posting(r, who) == task[r][who] \in {"send", "complete", "answer"}
\* one tap is worked on at a time,
OneTap == \A f, g \in Flows : flow[f] # NoFlow /\ flow[g] # NoFlow => f = g
\* a track is sent by one caller, and marked as being sent,
OneSender ==
    \A r \in Recordings :
        /\ \A who \in Callers : Sending(r, who) => index[r] \in {"uploading", "none"}
        /\ \A who \in Callers : Posting(r, who) => disk[r] \in {"uploading", "none"}
        /\ ~(Sending(r, "page") /\ Sending(r, "row"))
\* what is recorded or being stopped was never sent,
NewTrack ==
    /\ \A r \in Recordings :
         active = r \/ (\E f \in Flows : flow[f].id = r /\ ~At(f, "stop", "save"))
         => /\ stored[r] = 0
            /\ index[r] \in {"none", "recording", "paused", "permission_error"}
            /\ \A who \in Callers : ~Sending(r, who)
    /\ \A f \in Flows :
         LET r == flow[f].id IN
         /\ At(f, "start", "asked") => index[r] = "none" /\ task[r] = Idle
         /\ At(f, "stop", "finalize") \/ At(f, "stop", "save") => active # r
         /\ At(f, "stop", "save") => ~Sending(r, "row")
\* and what is registered is not sent again.
SentOnce ==
    /\ \A r \in Recordings : stored[r] > 0 =>
        /\ stored[r] = 1
        /\ index[r] \in {"uploading", "uploaded", "none"}
        /\ disk[r] \in {"uploading", "uploaded", "none"}
        /\ \A who \in Callers :
              /\ task[r][who] \notin {"send", "complete"}
              /\ task[r][who] = "read" => r \notin gpx /\ index[r] = "none"
        /\ \A f \in Flows : At(f, "stop", "save") /\ flow[f].id = r
              => task[r]["page"] # "idle" \/ (r \notin gpx /\ index[r] = "none")
    /\ \A r \in Recordings, who \in Callers : task[r][who] = "delete" => index[r] = "none"
OnceInv == Calm => OneTap /\ OneSender /\ NewTrack /\ SentOnce

Once == Typed /\ SafeInv /\ OneTap /\ OneSender /\ NewTrack /\ SentOnce /\ Calm

LEMMA BothCallers == "page" \in Callers /\ "row" \in Callers
BY DEF Callers

LEMMA OnceInit == Init => OnceInv
BY DEF Init, OnceInv, OneTap, OneSender, NewTrack, SentOnce, At, NoFlow, Idle, Callers, Sending, Posting

\* A kind of step: the taps, which begin only while no other is worked on.
LEMMA OnceTap ==
    ASSUME Once, Calm', NEW f \in Flows, NEW do \in {"start", "pause", "resume", "stop"},
           NEW r \in Recordings, Tap(f, do, r),
           (r = active /\ do # "start") \/ (do = "start" /\ index[r] = "none" /\ stored[r] = 0 /\ task[r] = Idle)
    PROVE  OneTap' /\ OneSender' /\ NewTrack' /\ SentOnce'
<1>1. \A g \in Flows : flow[g] = NoFlow /\ flow'[g] = IF g = f THEN [do |-> do, at |-> "asked", id |-> r] ELSE NoFlow
  BY DEF Tap, Calm, Once, Typed, TypeOK
<1>2. UNCHANGED <<index, disk, active, gpx, task, stored>>
  BY DEF Tap
<1>3. OneTap'
  BY <1>1 DEF OneTap
<1>4. OneSender'
  BY <1>2 DEF Once, OneSender, Sending, Posting
<1>5. \A g \in Flows : ~At(g, "stop", "save")' /\ ~At(g, "stop", "finalize")' /\ (flow'[g].id = r \/ flow'[g].id = None)
  BY <1>1 DEF At, NoFlow
<1>6. \A who \in Callers : r # active => ~Sending(r, who)
  BY DEF Sending, Idle
<1>7. NewTrack'
  <2>1. \A q \in Recordings : 
         active = q \/ q = r
         => /\ stored[q] = 0
            /\ index[q] \in {"none", "recording", "paused", "permission_error"}
            /\ \A who \in Callers : ~Sending(q, who)
    BY <1>6 DEF Once, NewTrack
  <2>2. \A q \in Recordings, who \in Callers : Sending(q, who)' <=> Sending(q, who)
    BY <1>2 DEF Sending
  <2>3. \A q \in Recordings : 
         active' = q \/ (\E g \in Flows : flow'[g].id = q /\ ~At(g, "stop", "save")')
         => /\ stored'[q] = 0
            /\ index'[q] \in {"none", "recording", "paused", "permission_error"}
            /\ \A who \in Callers : ~Sending(q, who)'
    BY <1>2, <1>5, <2>1, <2>2
  <2>4. \A g \in Flows : At(g, "start", "asked")' => do = "start" /\ flow'[g].id = r
    BY <1>1 DEF At, NoFlow
  <2> QED BY <1>2, <1>5, <2>3, <2>4 DEF NewTrack
<1>8. SentOnce'
  BY <1>2, <1>5 DEF Once, SentOnce
<1> QED BY <1>3, <1>4, <1>7, <1>8

\* A kind of step: the steps of a tap, while no other is worked on.
LEMMA OnceFlow ==
    ASSUME Once, NEW f \in Flows, flow[f] # NoFlow
    PROVE  /\ \A g \in Flows : g # f => flow[g] = NoFlow
           /\ (Over(f) => \A g \in Flows : flow'[g] = NoFlow)
           /\ \A step : Goto(f, step) =>
                \A g \in Flows : IF g = f
                   THEN flow'[g].do = flow[g].do /\ flow'[g].id = flow[g].id /\ flow'[g].at = step
                   ELSE flow'[g] = NoFlow
BY DEF Once, OneTap, Over, Goto, Typed, TypeOK

LEMMA OnceStartPush ==
    ASSUME Once, NEW f \in Flows, StartPush(f)
    PROVE  OneTap' /\ OneSender' /\ NewTrack' /\ SentOnce'
<1> DEFINE r == flow[f].id
<1>0. At(f, "start", "asked") /\ r \in Recordings /\ flow[f] # NoFlow
  BY DEF StartPush, At, Once, Typed, FlowInv, NoFlow
<1>1. /\ stored[r] = 0 /\ index[r] = "none" /\ task[r] = Idle
      /\ \A who \in Callers : ~Sending(r, who)
  BY <1>0 DEF Once, NewTrack, At, Sending, Idle
<1>2. UNCHANGED <<disk, active, gpx, task, stored>>
  BY DEF StartPush, history
<1>3. \A q \in Recordings : index'[q] = index[q] \/ (q = r /\ index'[q] = "recording")
  BY <1>0 DEF StartPush, Once, Typed, TypeOK
<1>4. \A g \in Flows : flow'[g] = NoFlow \/ (g = f /\ flow'[g].do = "start" /\ flow'[g].id = r /\ flow'[g].at = "save")
  BY <1>0, OnceFlow DEF StartPush, At
<1>5. OneTap'
  BY <1>4 DEF OneTap
<1>6. \A q \in Recordings, who \in Callers : /\ Sending(q, who)' <=> Sending(q, who)
                                             /\ Posting(q, who)' <=> Posting(q, who)
  BY <1>2 DEF Sending, Posting
<1>7. OneSender'
  BY <1>1, <1>2, <1>3, <1>6, BothCallers DEF Once, OneSender
<1>8. \A g \in Flows : ~At(g, "stop", "save")' /\ ~At(g, "stop", "finalize")' /\ ~At(g, "start", "asked")'
  BY <1>4 DEF At, NoFlow
<1>9. \A q \in Recordings, g \in Flows : flow'[g].id = q => q = r
  BY <1>4 DEF NoFlow
<1>10. NewTrack'
  BY <1>1, <1>2, <1>3, <1>6, <1>8, <1>9 DEF Once, NewTrack
<1>11. SentOnce'
  BY <1>1, <1>2, <1>3, <1>8 DEF Once, SentOnce, Idle
<1> QED BY <1>5, <1>7, <1>10, <1>11

LEMMA OnceFlowEnds ==
    ASSUME Once, NEW f \in Flows, StartSaved(f) \/ Paused(f) \/ Resumed(f)
    PROVE  OneTap' /\ OneSender' /\ NewTrack' /\ SentOnce'
<1>0. flow[f] # NoFlow /\ Over(f)
  BY DEF StartSaved, Paused, Resumed, Switch, At, NoFlow
<1>1. \A g \in Flows : flow'[g] = NoFlow
  BY <1>0, OnceFlow
<1>2. UNCHANGED <<gpx, task, stored>>
  BY DEF StartSaved, Paused, Resumed, Switch, history
<1>3. \A q \in Recordings : active' = q => active = q \/ (flow[f].id = q /\ ~At(f, "stop", "save"))
  BY DEF StartSaved, Paused, Resumed, Switch, At
<1>4. \A q \in Recordings : index'[q] = index[q] \/
        (active = q /\ index[q] # "none" /\ index'[q] \in {"recording", "paused"})
  BY DEF StartSaved, Paused, Resumed, Switch, Marked, Once, Typed, TypeOK
<1>5. \A q \in Recordings : disk'[q] = disk[q] \/ disk'[q] = index'[q]
  BY DEF StartSaved, Paused, Resumed, Switch
<1>6. \A q \in Recordings, who \in Callers : /\ Sending(q, who)' <=> Sending(q, who)
                                             /\ Posting(q, who)' <=> Posting(q, who)
                                             /\ Posting(q, who) => Sending(q, who)
  BY <1>2 DEF Sending, Posting
<1>7. OneTap'
  BY <1>1 DEF OneTap
<1>8. OneSender'
  BY <1>2, <1>4, <1>5, <1>6, BothCallers DEF Once, OneSender, NewTrack
<1>9. \A g \in Flows : ~At(g, "stop", "save")' /\ ~At(g, "stop", "finalize")' /\ ~At(g, "start", "asked")'
                       /\ flow'[g].id = None
  BY <1>1 DEF At, NoFlow
<1>10. NewTrack'
  BY <1>2, <1>3, <1>4, <1>6, <1>9 DEF Once, NewTrack
<1>11. SentOnce'
  BY <1>2, <1>4, <1>5, <1>9 DEF Once, SentOnce, NewTrack
<1> QED BY <1>7, <1>8, <1>10, <1>11

LEMMA OnceStopped ==
    ASSUME Once, NEW f \in Flows, Stopped(f)
    PROVE  OneTap' /\ OneSender' /\ NewTrack' /\ SentOnce'
<1>0. At(f, "stop", "asked") /\ flow[f] # NoFlow /\ flow[f].id \in Recordings
  BY DEF Stopped, At, NoFlow, Once, Typed, FlowInv
<1>1. UNCHANGED <<index, disk, gpx, task, stored>>
  BY DEF Stopped, history
<1>2. \A g \in Flows : flow'[g] = NoFlow \/ (g = f /\ flow'[g].do = "stop" /\ flow'[g].id = flow[f].id
                                              /\ flow'[g].at = "finalize" /\ active' = None)
  BY <1>0, OnceFlow DEF Stopped, At
<1>3. active' \in {active, None}
  BY DEF Stopped
<1>4. OneTap'
  BY <1>2 DEF OneTap
<1>5. OneSender'
  BY <1>1 DEF Once, OneSender, Sending, Posting
<1>6. \A g \in Flows : /\ ~At(g, "stop", "save")' /\ ~At(g, "start", "asked")'
                       /\ (At(g, "stop", "finalize")' => active' = None /\ flow'[g].id \in Recordings)
                       /\ flow'[g].id = None \/ flow'[g].id = flow[f].id
  BY <1>0, <1>2 DEF At, NoFlow
<1>7. \A q \in Recordings, who \in Callers : Sending(q, who)' <=> Sending(q, who)
  BY <1>1 DEF Sending
<1>8. \A q \in Recordings : flow[f].id = q => (\E g \in Flows : flow[g].id = q /\ ~At(g, "stop", "save"))
  BY <1>0 DEF At
<1>9. \A q \in Recordings :
         active' = q \/ (\E g \in Flows : flow'[g].id = q /\ ~At(g, "stop", "save")')
         => active = q \/ (\E g \in Flows : flow[g].id = q /\ ~At(g, "stop", "save"))
  BY <1>3, <1>6, <1>8
<1>10. NewTrack'
  BY <1>1, <1>6, <1>7, <1>9, RecordingAssumption DEF Once, NewTrack
<1>11. SentOnce'
  BY <1>1, <1>6 DEF Once, SentOnce
<1> QED BY <1>4, <1>5, <1>10, <1>11

LEMMA OnceFinalized ==
    ASSUME Once, NEW f \in Flows, Finalized(f)
    PROVE  OneTap' /\ OneSender' /\ NewTrack' /\ SentOnce'
<1> DEFINE r == flow[f].id
<1>0. At(f, "stop", "finalize") /\ flow[f] # NoFlow /\ r \in Recordings /\ ~At(f, "stop", "save")
  BY DEF Finalized, At, NoFlow, Once, Typed, FlowInv
<1>1. /\ stored[r] = 0 /\ active # r
      /\ \A who \in Callers : ~Sending(r, who)
  BY <1>0 DEF Once, NewTrack
<1>2. UNCHANGED <<disk, active, task, stored>>
  BY DEF Finalized, history
<1>3. \A q \in Recordings : index'[q] = index[q] \/ (q = r /\ index[q] # "none" /\ index'[q] = "stopped")
  BY <1>0 DEF Finalized, Marked, Once, Typed, TypeOK
<1>4. \A g \in Flows : flow'[g] = NoFlow \/ (g = f /\ flow'[g].do = "stop" /\ flow'[g].id = r /\ flow'[g].at = "save")
  BY <1>0, OnceFlow DEF Finalized, At
<1>5. OneTap'
  BY <1>4 DEF OneTap
<1>6. \A q \in Recordings, who \in Callers : /\ Sending(q, who)' <=> Sending(q, who)
                                             /\ Posting(q, who)' <=> Posting(q, who)
  BY <1>2 DEF Sending, Posting
<1>7. OneSender'
  BY <1>1, <1>2, <1>3, <1>6, BothCallers DEF Once, OneSender
<1>8. \A g \in Flows : /\ ~At(g, "start", "asked")' /\ ~At(g, "stop", "finalize")'
                       /\ At(g, "stop", "save")' => flow'[g].id = r
  BY <1>4 DEF At, NoFlow
<1>9. \A q \in Recordings, g \in Flows : flow'[g].id = q => At(g, "stop", "save")'
  BY <1>4 DEF NoFlow, At
<1>10. NewTrack'
  <2>1. \A q \in Recordings :
         active' = q \/ (\E g \in Flows : flow'[g].id = q /\ ~At(g, "stop", "save")')
         => /\ stored'[q] = 0
            /\ index'[q] \in {"none", "recording", "paused", "permission_error"}
            /\ \A who \in Callers : ~Sending(q, who)'
    BY <1>1, <1>2, <1>3, <1>6, <1>9 DEF Once, NewTrack
  <2>2. \A g \in Flows : At(g, "stop", "save")' => active' # flow'[g].id /\ ~Sending(flow[g].id, "row")'
    BY <1>1, <1>2, <1>8, BothCallers DEF Sending
  <2> QED BY <1>8, <2>1, <2>2 DEF NewTrack
<1>11. \A q \in Recordings : stored[q] > 0 => q # r
  BY <1>1
<1>12. gpx' \in {gpx, gpx \cup {r}}
  BY DEF Finalized
<1>13. SentOnce'
  BY <1>2, <1>3, <1>8, <1>11, <1>12 DEF Once, SentOnce
<1> QED BY <1>5, <1>7, <1>10, <1>13

LEMMA OnceStopSaved ==
    ASSUME Once, NEW f \in Flows, StopSaved(f)
    PROVE  OneTap' /\ OneSender' /\ NewTrack' /\ SentOnce'
<1> DEFINE r == flow[f].id
<1>0. At(f, "stop", "save") /\ flow[f] # NoFlow /\ r \in Recordings /\ Over(f)
  BY DEF StopSaved, At, NoFlow, Once, Typed, FlowInv
<1>1. active # r /\ ~Sending(r, "row")
  BY <1>0 DEF Once, NewTrack
<1>2. UNCHANGED <<active, gpx, stored>> /\ disk' = index
  BY DEF StopSaved, history
<1>3. \A g \in Flows : flow'[g] = NoFlow
  BY <1>0, OnceFlow
<1>4. \A q \in Recordings : index'[q] = index[q]
         \/ (q = r /\ index[q] # "none" /\ index'[q] = "uploading" /\ task[r]["page"] = "idle")
  BY <1>0 DEF StopSaved, Marked, Once, Typed, TypeOK
<1>5. \A q \in Recordings, who \in Callers : task'[q][who] = task[q][who]
         \/ (q = r /\ who = "page" /\ task[q][who] = "idle" /\ task'[q][who] = "read"
              /\ index'[q] \in {"uploading", "none"})
  BY <1>0 DEF StopSaved, Marked, Once, Typed, TypeOK
<1>6. \A g \in Flows : ~At(g, "stop", "save")' /\ ~At(g, "stop", "finalize")' /\ ~At(g, "start", "asked")'
                       /\ flow'[g].id = None
  BY <1>3 DEF At, NoFlow
<1>7. OneTap'
  BY <1>3 DEF OneTap
<1>8. OneSender'
  <2>1. \A q \in Recordings, who \in Callers : Posting(q, who)' => Sending(q, who)
    BY <1>5 DEF Sending, Posting
  <2>2. \A q \in Recordings, who \in Callers : Posting(q, who)' => disk'[q] \in {"uploading", "none"}
    BY <1>2, <2>1 DEF Once, OneSender
  <2>3. \A q \in Recordings, who \in Callers :
           Sending(q, who)' => Sending(q, who) \/ (q = r /\ who = "page" /\ index'[q] \in {"uploading", "none"})
    BY <1>5 DEF Sending
  <2>4. \A q \in Recordings, who \in Callers : Sending(q, who)' => index'[q] \in {"uploading", "none"}
    BY <1>4, <2>3 DEF Once, OneSender
  <2>5. \A q \in Recordings : ~(Sending(q, "page")' /\ Sending(q, "row")')
    BY <1>1, <2>3, BothCallers DEF Once, OneSender
  <2> QED BY <2>2, <2>4, <2>5 DEF OneSender
<1>9. NewTrack'
  <2>1. \A q \in Recordings : active' = q => q # r
    BY <1>1, <1>2
  <2>2. \A q \in Recordings, who \in Callers : q # r => (Sending(q, who)' <=> Sending(q, who))
    BY <1>5 DEF Sending
  <2> QED BY <1>2, <1>4, <1>6, <2>1, <2>2 DEF Once, NewTrack
<1>10. SentOnce'
  <2>1. \A q \in Recordings, who \in Callers : task'[q][who] = "delete" => index'[q] = "none"
    BY <1>4, <1>5 DEF Once, SentOnce
  <2>2. ASSUME NEW q \in Recordings, stored[q] > 0
        PROVE  /\ stored[q] = 1
               /\ index[q] \in {"uploading", "uploaded", "none"}
               /\ \A who \in Callers :
                     /\ task[q][who] \notin {"send", "complete"}
                     /\ task[q][who] = "read" => q \notin gpx /\ index[q] = "none"
               /\ q = r => task[q]["page"] # "idle" \/ (q \notin gpx /\ index[q] = "none")
    BY <1>0, <2>2 DEF Once, SentOnce
  <2>3. ASSUME NEW q \in Recordings, stored'[q] > 0
        PROVE  /\ stored'[q] = 1
               /\ index'[q] \in {"uploading", "uploaded", "none"}
               /\ disk'[q] \in {"uploading", "uploaded", "none"}
               /\ \A who \in Callers :
                     /\ task'[q][who] \notin {"send", "complete"}
                     /\ task'[q][who] = "read" => q \notin gpx' /\ index'[q] = "none"
    BY <1>2, <1>4, <1>5, <2>2, <2>3
  <2> QED BY <1>6, <2>1, <2>3 DEF SentOnce
<1> QED BY <1>7, <1>8, <1>9, <1>10

\* The recorder's own steps.
LEMMA OnceRecorder ==
    ASSUME Once, Fix \/ PermissionLost
    PROVE  OneTap' /\ OneSender' /\ NewTrack' /\ SentOnce'
<1>1. UNCHANGED <<gpx, flow, task, stored>> /\ disk' = index' /\ active' \in {active, None}
  BY DEF Fix, PermissionLost, history
<1>2. \A q \in Recordings : index'[q] = index[q]
         \/ (q = active /\ index[q] # "none" /\ index'[q] = "permission_error")
  BY DEF Fix, PermissionLost, Marked, Once, Typed, TypeOK
<1>3. OneTap' /\ (\A g \in Flows : /\ At(g, "stop", "save")' <=> At(g, "stop", "save")
                                   /\ At(g, "stop", "finalize")' <=> At(g, "stop", "finalize")
                                   /\ At(g, "start", "asked")' <=> At(g, "start", "asked"))
  BY <1>1 DEF Once, OneTap, At
<1>4. \A q \in Recordings, who \in Callers : /\ Sending(q, who)' <=> Sending(q, who)
                                             /\ Posting(q, who)' <=> Posting(q, who)
                                             /\ Posting(q, who) => Sending(q, who)
  BY <1>1 DEF Sending, Posting
<1>5. OneSender'
  BY <1>1, <1>2, <1>4, BothCallers DEF Once, OneSender, NewTrack
<1>6. NewTrack'
  <2>1. \A q \in Recordings :
         active' = q \/ (\E g \in Flows : flow'[g].id = q /\ ~At(g, "stop", "save")')
         => /\ stored'[q] = 0
            /\ index'[q] \in {"none", "recording", "paused", "permission_error"}
            /\ \A who \in Callers : ~Sending(q, who)'
    BY <1>1, <1>2, <1>3, <1>4 DEF Once, NewTrack
  <2>2. \A g \in Flows : At(g, "start", "asked") => flow[g].id \in Recordings
    BY DEF At, Once, Typed, FlowInv
  <2>3. \A g \in Flows : At(g, "start", "asked") => index'[flow[g].id] = "none" /\ task[flow[g].id] = Idle
    BY <1>2, <2>2 DEF Once, NewTrack
  <2>4. \A g \in Flows : At(g, "stop", "save") \/ At(g, "stop", "finalize") => flow[g].id \in Recordings
    BY DEF At, Once, Typed, FlowInv
  <2>5. \A g \in Flows : /\ At(g, "stop", "finalize") \/ At(g, "stop", "save") => active' # flow[g].id
                         /\ At(g, "stop", "save") => ~Sending(flow[g].id, "row")'
    BY <1>1, <1>4, <2>4, BothCallers, RecordingAssumption DEF Once, NewTrack, Sending
  <2> QED BY <1>1, <1>3, <2>1, <2>3, <2>5 DEF NewTrack, Sending
<1>7. SentOnce'
  BY <1>1, <1>2, <1>3 DEF Once, SentOnce, NewTrack
<1> QED BY <1>3, <1>5, <1>6, <1>7

LEMMA OnceKill ==
    ASSUME Once, Kill
    PROVE  OneTap' /\ OneSender' /\ NewTrack' /\ SentOnce'
<1>1. /\ index' = disk' /\ active' = None /\ UNCHANGED <<gpx, stored>>
      /\ \A q \in Recordings : disk'[q] \in {disk[q], "none"}
      /\ \A g \in Flows : flow'[g] = NoFlow
      /\ \A q \in Recordings, who \in Callers : task'[q][who] = "idle"
  BY DEF Kill, Idle, Once, Typed, TypeOK
<1>2. OneTap'
  BY <1>1 DEF OneTap
<1>3. OneSender'
  BY <1>1, BothCallers DEF OneSender, Sending, Posting
<1>4. \A g \in Flows : ~At(g, "stop", "save")' /\ ~At(g, "stop", "finalize")' /\ ~At(g, "start", "asked")'
                       /\ flow'[g].id = None
  BY <1>1 DEF At, NoFlow
<1>5. NewTrack'
  BY <1>1, <1>4, RecordingAssumption DEF NewTrack
<1>6. SentOnce'
  BY <1>1, <1>4 DEF Once, SentOnce
<1> QED BY <1>2, <1>3, <1>5, <1>6

\* A kind of step: the steps of the upload of r.
New(r) == active = r \/ \E f \in Flows : flow[f].id = r /\ ~At(f, "stop", "save")

LEMMA OnceUpload ==
    ASSUME Once, NEW r \in Recordings, UNCHANGED <<flow, active>>,
           \A q \in Recordings : q # r =>
              index'[q] = index[q] /\ stored'[q] = stored[q] /\ task'[q] = task[q],
           New(r) => /\ stored'[r] = 0
                     /\ index'[r] \in {"none", "recording", "paused", "permission_error"}
                     /\ \A who \in Callers : ~Sending(r, who)',
           (\E f \in Flows : At(f, "start", "asked") /\ flow[f].id = r) =>
              index'[r] = "none" /\ task'[r] = Idle,
           (\E f \in Flows : At(f, "stop", "save") /\ flow[f].id = r) => ~Sending(r, "row")'
    PROVE  OneTap' /\ NewTrack'
<1>1. OneTap'
  BY DEF Once, OneTap
<1>2. \A f \in Flows : /\ At(f, "stop", "save")' <=> At(f, "stop", "save")
                       /\ At(f, "stop", "finalize")' <=> At(f, "stop", "finalize")
                       /\ At(f, "start", "asked")' <=> At(f, "start", "asked")
  BY DEF At
<1>3. \A q \in Recordings, who \in Callers : q # r => (Sending(q, who)' <=> Sending(q, who))
  BY DEF Sending
<1>4. \A q \in Recordings : 
         active' = q \/ (\E g \in Flows : flow'[g].id = q /\ ~At(g, "stop", "save")')
         => /\ stored'[q] = 0
            /\ index'[q] \in {"none", "recording", "paused", "permission_error"}
            /\ \A who \in Callers : ~Sending(q, who)'
  BY <1>2, <1>3 DEF New, Once, NewTrack
<1>5. \A g \in Flows : At(g, "start", "asked") => /\ index'[flow[g].id] = "none"
                                                  /\ task'[flow[g].id] = Idle
  <2>1. \A g \in Flows : At(g, "start", "asked") => flow[g].id \in Recordings
    BY DEF At, Once, Typed, FlowInv
  <2> QED BY <2>1 DEF Once, NewTrack
<1>6. \A g \in Flows : At(g, "stop", "save") => ~Sending(flow[g].id, "row")'
  <2>1. \A g \in Flows : At(g, "stop", "save") => flow[g].id \in Recordings
    BY DEF At, Once, Typed, FlowInv
  <2> QED BY <1>3, <2>1, BothCallers DEF Once, NewTrack, Sending
<1>7. \A g \in Flows : At(g, "stop", "save") \/ At(g, "stop", "finalize") => active' # flow'[g].id
  BY DEF Once, NewTrack
<1>8. NewTrack'
  BY <1>2, <1>4, <1>5, <1>6, <1>7 DEF NewTrack, Sending
<1> QED BY <1>1, <1>8

\* What is sent is not new, nor being started.
LEMMA SentNotNew ==
    ASSUME Once, NEW r \in Recordings, NEW who \in Callers, Sending(r, who)
    PROVE  /\ ~New(r)
           /\ ~ \E f \in Flows : At(f, "start", "asked") /\ flow[f].id = r
           /\ (\E f \in Flows : At(f, "stop", "save") /\ flow[f].id = r) => who = "page"
           /\ index[r] \in {"uploading", "none"}
           /\ \A c \in Callers : c # who => ~Sending(r, c)
           /\ Posting(r, who) => disk[r] \in {"uploading", "none"}
<1>1. ~New(r)
  BY DEF Once, NewTrack, New
<1>2. ~ \E f \in Flows : At(f, "start", "asked") /\ flow[f].id = r
  BY DEF Once, NewTrack, Sending, Idle
<1>3. (\E f \in Flows : At(f, "stop", "save") /\ flow[f].id = r) => who = "page"
  BY DEF Once, NewTrack, Callers
<1>4. \A c \in Callers : c # who => ~Sending(r, c)
  BY DEF Once, OneSender, Callers
<1> QED BY <1>1, <1>2, <1>3, <1>4 DEF Once, OneSender

LEMMA OnceBegin ==
    ASSUME Once, Calm', NEW r \in Recordings, Retry(r) \/ UploadByHand(r)
    PROVE  OneTap' /\ OneSender' /\ NewTrack' /\ SentOnce'
<1>0. PICK who \in Callers : /\ Begin(r, who) /\ Waiting(r)
                             /\ who = "row" => \A f \in Flows : flow[f] = NoFlow
  BY BothCallers DEF Retry, UploadByHand, Calm
<1>1. index[r] \in {"stopped", "failed"} /\ task[r][who] = "idle"
      /\ UNCHANGED <<disk, active, gpx, flow, stored>>
  BY <1>0 DEF Begin, Waiting
<1>2. \A q \in Recordings : index'[q] = IF q = r THEN "uploading" ELSE index[q]
  BY <1>0 DEF Begin, Once, Typed, TypeOK
<1>3. /\ \A q \in Recordings : q # r => task'[q] = task[q]
      /\ \A c \in Callers : task'[r][c] = IF c = who THEN "read" ELSE task[r][c]
  <2>1. task' = [task EXCEPT ![r][who] = "read"]
    BY <1>0 DEF Begin
  <2> QED BY <2>1 DEF Once, Typed, TypeOK
<1>4. ~(stored[r] > 0) /\ ~New(r) /\ \A c \in Callers : ~Sending(r, c) /\ task[r][c] # "delete"
  BY <1>1 DEF Once, SentOnce, OneSender, NewTrack, New
<1>5. ~ \E f \in Flows : At(f, "start", "asked") /\ flow[f].id = r
  BY <1>1 DEF Once, NewTrack
<1>6. (\E f \in Flows : At(f, "stop", "save") /\ flow[f].id = r) => ~Sending(r, "row")'
  BY <1>0, <1>3, <1>4, BothCallers DEF At, NoFlow, Sending
<1>7. OneTap' /\ NewTrack'
  BY <1>1, <1>2, <1>3, <1>4, <1>5, <1>6, OnceUpload
<1>8. OneSender'
  <2>1. \A q \in Recordings, c \in Callers : /\ Posting(q, c)' => Posting(q, c)
                                             /\ Sending(q, c)' => Sending(q, c) \/ (q = r /\ c = who)
    BY <1>3 DEF Sending, Posting
  <2> QED BY <1>1, <1>2, <1>4, <2>1, BothCallers DEF Once, OneSender
<1>9. SentOnce'
  <2>1. \A f \in Flows : At(f, "stop", "save")' <=> At(f, "stop", "save")
    BY <1>1 DEF At
  <2> QED BY <1>1, <1>2, <1>3, <1>4, <2>1 DEF Once, SentOnce
<1> QED BY <1>7, <1>8, <1>9

\* A failed attempt: nothing was registered, or the track and its entry are gone.
LEMMA OnceFailed ==
    ASSUME Once, NEW r \in Recordings, NEW who \in Callers, Failed(r, who), UNCHANGED stored,
           Sending(r, who), stored[r] > 0 => r \notin gpx /\ index[r] = "none"
    PROVE  OneTap' /\ OneSender' /\ NewTrack' /\ SentOnce'
<1>1. UNCHANGED <<active, gpx, flow, stored>> /\ disk' = index'
  BY DEF Failed
<1>2. \A q \in Recordings : index'[q] = IF q = r /\ index[q] # "none" THEN "failed" ELSE index[q]
  BY DEF Failed, Marked, Once, Typed, TypeOK
<1>3. /\ \A q \in Recordings : q # r => task'[q] = task[q]
      /\ \A c \in Callers : task'[r][c] = IF c = who THEN "idle" ELSE task[r][c]
  <2>1. task' = [task EXCEPT ![r][who] = "idle"]
    BY DEF Failed
  <2> QED BY <2>1 DEF Once, Typed, TypeOK
<1>4. \A q \in Recordings, c \in Callers :
         /\ Sending(q, c)' => Sending(q, c) /\ q # r
         /\ Posting(q, c) => Sending(q, c)
         /\ Posting(q, c)' => Sending(q, c)'
  BY <1>3, SentNotNew DEF Sending, Posting
<1>5. OneTap' /\ NewTrack'
  BY <1>1, <1>2, <1>3, <1>4, SentNotNew, BothCallers, OnceUpload
<1>6. OneSender'
  BY <1>1, <1>2, <1>4, BothCallers DEF Once, OneSender
<1>7. SentOnce'
  <2>1. \A f \in Flows : At(f, "stop", "save")' <=> At(f, "stop", "save")
    BY <1>1 DEF At
  <2> QED BY <1>1, <1>2, <1>3, <2>1 DEF Once, SentOnce
<1> QED BY <1>5, <1>6, <1>7

LEMMA OnceReadSend ==
    ASSUME Once, NEW r \in Recordings, NEW who \in Callers,
           Read(r, who) \/ Send(r, who) \/ Refused(r, who)
    PROVE  OneTap' /\ OneSender' /\ NewTrack' /\ SentOnce'
<1>0. /\ Sending(r, who)
      /\ task[r][who] \in {"send", "complete"} \/ r \in gpx => ~(stored[r] > 0)
  BY DEF Read, Send, Refused, Step2, Sending, Once, SentOnce
<1>1. CASE Failed(r, who)
  <2>1. stored[r] > 0 => r \notin gpx /\ index[r] = "none"
    BY <1>0 DEF Read, Send, Refused, Step2, Once, SentOnce
  <2> QED BY <1>0, <1>1, <2>1, OnceFailed DEF Read, Send, Refused, history
<1>2. ASSUME NEW from \in {"read", "send"}, NEW s \in {"send", "complete"},
             Step2(r, who, from, s), ~(stored[r] > 0),
             UNCHANGED <<index, active, gpx, flow, stored>>, disk' \in {disk, index},
             from = "read" => disk' = index
      PROVE OneTap' /\ OneSender' /\ NewTrack' /\ SentOnce'
  <2>1. /\ \A q \in Recordings : q # r => task'[q] = task[q]
        /\ \A c \in Callers : task'[r][c] = IF c = who THEN s ELSE task[r][c]
    <3>1. task' = [task EXCEPT ![r][who] = s]
      BY <1>2 DEF Step2
    <3> QED BY <3>1 DEF Once, Typed, TypeOK
  <2>2. \A q \in Recordings, c \in Callers :
           /\ Sending(q, c)' <=> Sending(q, c)
           /\ Posting(q, c) => Sending(q, c)
           /\ Posting(q, c)' => Sending(q, c) /\ (Posting(q, c) \/ (from = "read" /\ q = r))
    BY <1>2, <2>1 DEF Step2, Sending, Posting
  <2>3. OneTap' /\ NewTrack'
    BY <1>0, <1>2, <2>1, <2>2, SentNotNew, BothCallers, OnceUpload
  <2>4. OneSender'
    <3>1. \A q \in Recordings, c \in Callers : Sending(q, c)' => index'[q] \in {"uploading", "none"}
      BY <1>2, <2>2 DEF Once, OneSender
    <3>2. \A q \in Recordings, c \in Callers : Posting(q, c)' => disk'[q] \in {"uploading", "none"}
      BY <1>2, <2>2 DEF Once, OneSender
    <3> QED BY <2>2, <3>1, <3>2, BothCallers DEF Once, OneSender
  <2>5. SentOnce'
    <3>1. \A f \in Flows : At(f, "stop", "save")' <=> At(f, "stop", "save")
      BY <1>2 DEF At
    <3>2. \A q \in Recordings : index[q] \in {"uploading", "uploaded", "none"} /\ disk[q] \in {"uploading", "uploaded", "none"}
             => disk'[q] \in {"uploading", "uploaded", "none"}
      BY <1>2
    <3>3. \A q \in Recordings, c \in Callers : task'[q][c] = "delete" => index'[q] = "none"
      BY <1>2, <2>1 DEF Once, SentOnce
    <3>4. ASSUME NEW q \in Recordings, stored'[q] > 0
          PROVE  task'[q] = task[q] /\ stored[q] > 0
      BY <1>2, <2>1, <3>4
    <3> QED BY <1>2, <3>1, <3>2, <3>3, <3>4 DEF Once, SentOnce
  <2> QED BY <2>3, <2>4, <2>5
<1>3. CASE Read(r, who) /\ ~Failed(r, who)
  <2>1. /\ r \in gpx /\ disk' = index /\ Step2(r, who, "read", "send")
        /\ UNCHANGED <<index, active, gpx, flow, stored>>
    BY <1>3 DEF Read, history
  <2> QED BY <1>0, <1>2, <2>1
<1>4. CASE Send(r, who)
  <2>1. Step2(r, who, "send", "complete") /\ UNCHANGED <<index, disk, active, gpx, flow, stored>>
    BY <1>4 DEF Send, history
  <2>2. task[r][who] = "send"
    BY <2>1 DEF Step2
  <2> QED BY <1>0, <1>2, <2>1, <2>2
<1> QED BY <1>1, <1>3, <1>4 DEF Refused

LEMMA OnceComplete ==
    ASSUME Once, NEW r \in Recordings, NEW who \in Callers, Complete(r, who)
    PROVE  OneTap' /\ OneSender' /\ NewTrack' /\ SentOnce'
<1>0. Sending(r, who) /\ Posting(r, who) /\ task[r][who] = "complete"
  BY DEF Complete, Step2, Sending, Posting
<1>1. stored[r] = 0
  BY <1>0 DEF Once, SentOnce, Typed, TypeOK
<1>2. \A q \in Recordings : stored'[q] = IF q = r THEN 1 ELSE stored[q]
  BY <1>1 DEF Complete, Once, Typed, TypeOK
<1>3. /\ \A q \in Recordings : q # r => task'[q] = task[q]
      /\ \A c \in Callers : task'[r][c] = IF c = who THEN "answer" ELSE task[r][c]
  BY DEF Complete, Step2, Once, Typed, TypeOK
<1>4. UNCHANGED <<index, disk, active, gpx, flow>>
  BY DEF Complete
<1>5. \A q \in Recordings, c \in Callers : /\ Sending(q, c)' <=> Sending(q, c)
                                           /\ Posting(q, c)' <=> Posting(q, c)
  BY <1>0, <1>3 DEF Sending, Posting
<1>6. OneSender'
  BY <1>4, <1>5, BothCallers DEF Once, OneSender
<1>7. OneTap' /\ NewTrack'
  BY <1>0, <1>2, <1>3, <1>4, <1>5, SentNotNew, BothCallers, OnceUpload
<1>8. SentOnce'
  <2>1. \A f \in Flows : At(f, "stop", "save")' <=> At(f, "stop", "save")
    BY <1>4 DEF At
  <2>2. \A q \in Recordings, c \in Callers : task'[q][c] = "delete" => index'[q] = "none"
    BY <1>3, <1>4 DEF Once, SentOnce
  <2>3. /\ index'[r] \in {"uploading", "none"} /\ disk'[r] \in {"uploading", "none"}
        /\ \A c \in Callers : task'[r][c] \notin {"read", "send", "complete"}
        /\ \A f \in Flows : At(f, "stop", "save") /\ flow[f].id = r => task'[r]["page"] # "idle"
    BY <1>0, <1>3, <1>4, SentNotNew, BothCallers DEF Sending
  <2>4. ASSUME NEW q \in Recordings, q # r
        PROVE  stored'[q] = stored[q] /\ task'[q] = task[q] /\ index'[q] = index[q] /\ disk'[q] = disk[q]
    BY <1>2, <1>3, <1>4, <2>4
  <2> QED BY <1>2, <1>4, <2>1, <2>2, <2>3, <2>4 DEF Once, SentOnce
<1> QED BY <1>6, <1>7, <1>8

LEMMA OnceDone ==
    ASSUME Once, NEW r \in Recordings, NEW who \in Callers,
           Answered(r, who) \/ Forget(r, who) \/ Delete(r, who)
    PROVE  OneTap' /\ OneSender' /\ NewTrack' /\ SentOnce'
<1> DEFINE s == IF task[r][who] = "answer" THEN "forget"
                ELSE IF task[r][who] = "forget" THEN "delete" ELSE "idle"
<1>0. task[r][who] \in {"answer", "forget", "delete"}
  BY DEF Answered, Forget, Delete, Step2
<1>1. UNCHANGED <<active, flow, stored>> /\ (disk' = index \/ disk' = disk) /\ gpx' \in {gpx, gpx \ {r}}
  BY DEF Answered, Forget, Delete, history
<1>2. /\ \A q \in Recordings : q # r => task'[q] = task[q] /\ index'[q] = index[q]
      /\ \A c \in Callers : task'[r][c] = IF c = who THEN s ELSE task[r][c]
      /\ task[r][who] = "answer" => index'[r] = IF index[r] = "none" THEN "none" ELSE "uploaded"
      /\ task[r][who] = "forget" => index'[r] = "none"
      /\ task[r][who] = "delete" => index'[r] = index[r] /\ r \notin gpx'
  BY DEF Answered, Forget, Delete, Step2, Marked, Once, Typed, TypeOK
<1>3. \A q \in Recordings, c \in Callers : /\ Sending(q, c)' => Sending(q, c) /\ (q # r \/ c # who)
                                           /\ Posting(q, c)' => Posting(q, c) /\ Sending(q, c) /\ (q # r \/ c # who)
  BY <1>0, <1>2 DEF Sending, Posting
<1>4. task[r][who] = "answer" => Sending(r, who) /\ Posting(r, who)
  BY DEF Sending, Posting
<1>5. OneTap' /\ NewTrack'
  <2>1. New(r) => /\ stored'[r] = 0
                  /\ index'[r] \in {"none", "recording", "paused", "permission_error"}
                  /\ \A c \in Callers : ~Sending(r, c)'
    BY <1>0, <1>1, <1>2, <1>3, <1>4, SentNotNew DEF Once, NewTrack, New
  <2>2. ~ \E f \in Flows : At(f, "start", "asked") /\ flow[f].id = r
    BY <1>0 DEF Once, NewTrack, Idle
  <2>3. (\E f \in Flows : At(f, "stop", "save") /\ flow[f].id = r) => ~Sending(r, "row")'
    BY <1>3, BothCallers DEF Once, NewTrack
  <2> QED BY <1>1, <1>2, <2>1, <2>2, <2>3, OnceUpload
<1>6. OneSender'
  BY <1>0, <1>1, <1>2, <1>3, <1>4, SentNotNew, BothCallers DEF Once, OneSender
<1>7. SentOnce'
  <2>1. \A f \in Flows : At(f, "stop", "save")' <=> At(f, "stop", "save")
    BY <1>1 DEF At
  <2>2. task[r][who] = "delete" => index[r] = "none"
    BY DEF Once, SentOnce
  <2>3. \A q \in Recordings, c \in Callers : task'[q][c] = "delete" => index'[q] = "none"
    BY <1>0, <1>2, <2>2 DEF Once, SentOnce
  <2>4. ASSUME NEW q \in Recordings, q # r
        PROVE  stored'[q] = stored[q] /\ task'[q] = task[q] /\ index'[q] = index[q]
               /\ disk'[q] \in {disk[q], index[q]} /\ (q \notin gpx => q \notin gpx')
    BY <1>1, <1>2, <2>4
  <2>5. ASSUME stored[r] > 0
        PROVE  /\ index'[r] \in {"uploading", "uploaded", "none"}
               /\ disk'[r] \in {"uploading", "uploaded", "none"}
               /\ \A c \in Callers :
                     /\ task'[r][c] \notin {"send", "complete"}
                     /\ task'[r][c] = "read" => r \notin gpx' /\ index'[r] = "none"
               /\ \A f \in Flows : At(f, "stop", "save") /\ flow[f].id = r
                     => task'[r]["page"] # "idle" \/ (r \notin gpx' /\ index'[r] = "none")
    <3>1. \A c \in Callers : task[r][c] = "read" => r \notin gpx' /\ index'[r] = "none"
      BY <1>1, <1>2, <2>5, <1>0, <1>4 DEF Once, SentOnce
    <3> QED BY <1>0, <1>1, <1>2, <2>2, <2>5, <3>1, BothCallers DEF Once, SentOnce
  <2>6. ASSUME NEW q \in Recordings, stored'[q] > 0, q # r
        PROVE  /\ stored'[q] = 1
               /\ index'[q] \in {"uploading", "uploaded", "none"}
               /\ disk'[q] \in {"uploading", "uploaded", "none"}
               /\ \A c \in Callers :
                     /\ task'[q][c] \notin {"send", "complete"}
                     /\ task'[q][c] = "read" => q \notin gpx' /\ index'[q] = "none"
               /\ \A f \in Flows : At(f, "stop", "save") /\ flow[f].id = q
                     => task'[q]["page"] # "idle" \/ (q \notin gpx' /\ index'[q] = "none")
    BY <2>4, <2>6 DEF Once, SentOnce
  <2>7. stored'[r] > 0 => stored'[r] = 1
    BY <1>1 DEF Once, SentOnce
  <2> QED BY <1>1, <2>1, <2>3, <2>5, <2>6, <2>7 DEF SentOnce
<1> QED BY <1>5, <1>6, <1>7

LEMMA OnceRemove ==
    ASSUME Once, NEW r \in Recordings, Remove(r)
    PROVE  OneTap' /\ OneSender' /\ NewTrack' /\ SentOnce'
<1>0. index[r] # "none"
  BY DEF Remove
<1>1. UNCHANGED <<active, flow, disk, gpx, stored>>
  BY DEF Remove
<1>2. /\ \A q \in Recordings : q # r => task'[q] = task[q] /\ index'[q] = index[q]
      /\ \A c \in Callers : task'[r][c] = IF c = "row" THEN "delete" ELSE task[r][c]
      /\ index'[r] = "none"
  BY DEF Remove, Once, Typed, TypeOK
<1>3. \A q \in Recordings, c \in Callers : /\ Sending(q, c)' => Sending(q, c)
                                           /\ Posting(q, c)' => Posting(q, c)
  BY <1>2 DEF Sending, Posting
<1>5. OneTap' /\ NewTrack'
  <2>1. New(r) => stored'[r] = 0 /\ \A c \in Callers : ~Sending(r, c)'
    BY <1>1, <1>3 DEF Once, NewTrack, New
  <2>2. ~ \E f \in Flows : At(f, "start", "asked") /\ flow[f].id = r
    BY <1>0 DEF Once, NewTrack
  <2>3. (\E f \in Flows : At(f, "stop", "save") /\ flow[f].id = r) => ~Sending(r, "row")'
    BY <1>3, BothCallers DEF Once, NewTrack
  <2> QED BY <1>1, <1>2, <2>1, <2>2, <2>3, OnceUpload
<1>6. OneSender'
  BY <1>1, <1>2, <1>3, BothCallers DEF Once, OneSender
<1>7. SentOnce'
  <2>1. \A f \in Flows : At(f, "stop", "save")' <=> At(f, "stop", "save")
    BY <1>1 DEF At
  <2> QED BY <1>0, <1>1, <1>2, <2>1, BothCallers DEF Once, SentOnce
<1> QED BY <1>5, <1>6, <1>7

LEMMA OnceStep == Typed /\ SafeInv /\ OnceInv /\ [Next]_vars => OnceInv'
<1> SUFFICES ASSUME Typed, SafeInv, OnceInv, [Next]_vars, Calm'
             PROVE  OneTap' /\ OneSender' /\ NewTrack' /\ SentOnce'
  BY DEF OnceInv
<1>1. Calm
  <2>1. lost' = lost \/ lost' = lost + 1
    BY DEF Next, vars, phone, history, FlowStep, TaskStep, Tap, Pause, Resume, Stop, Start,
           StartPush, StartSaved, Paused, Resumed, Switch, Stopped, Finalized, StopSaved, Fix, PermissionLost,
           Retry, UploadByHand, Begin, Read, Send, Complete, Refused, AnswerLost, Answered, Forget, Delete,
           Remove, Kill
  <2>3. lost' = 0 => lost = 0
    BY <2>1 DEF Typed, TypeOK
  <2>2. doubled => doubled'
    BY DEF Next, vars, phone, history, FlowStep, TaskStep, Tap, Pause, Resume, Stop, Start,
           StartPush, StartSaved, Paused, Resumed, Switch, Stopped, Finalized, StopSaved, Fix, PermissionLost,
           Retry, UploadByHand, Begin, Read, Send, Complete, Refused, AnswerLost, Answered, Forget, Delete,
           Remove, Kill
  <2> QED BY <2>2, <2>3 DEF Calm
<1>2. Once
  BY <1>1 DEF OnceInv, Once
<1>3. ASSUME NEW f \in Flows, Pause(f) \/ Resume(f) \/ Stop(f)
      PROVE  OneTap' /\ OneSender' /\ NewTrack' /\ SentOnce'
  <2>1. active \in Recordings
    BY <1>3 DEF Typed, TypeOK, Pause, Resume, Stop
  <2> QED BY <1>2, <1>3, <2>1, OnceTap DEF Pause, Resume, Stop
<1>4. ASSUME NEW f \in Flows, NEW r \in Recordings, Start(f, r)
      PROVE  OneTap' /\ OneSender' /\ NewTrack' /\ SentOnce'
  <2>1. \A who \in Callers : task[r][who] = "idle"
    BY <1>4 DEF Start, SafeInv, UploadInv, Kept
  <2>2. task[r] = Idle
    BY <2>1 DEF Typed, TypeOK, Idle
  <2> QED BY <1>2, <1>4, <2>2, OnceTap DEF Start
<1>5. ASSUME NEW f \in Flows, FlowStep(f)
      PROVE  OneTap' /\ OneSender' /\ NewTrack' /\ SentOnce'
  BY <1>2, <1>5, OnceStartPush, OnceFlowEnds, OnceStopped, OnceFinalized, OnceStopSaved DEF FlowStep
<1>6. CASE Fix \/ PermissionLost \/ Kill
  BY <1>2, <1>6, OnceRecorder, OnceKill
<1>7. ASSUME NEW r \in Recordings, Retry(r) \/ UploadByHand(r) \/ Remove(r)
      PROVE  OneTap' /\ OneSender' /\ NewTrack' /\ SentOnce'
  BY <1>2, <1>7, OnceBegin, OnceRemove
<1>8. ASSUME NEW r \in Recordings, NEW who \in Callers,
             TaskStep(r, who) \/ Send(r, who) \/ Refused(r, who) \/ Answered(r, who)
      PROVE  OneTap' /\ OneSender' /\ NewTrack' /\ SentOnce'
  BY <1>2, <1>8, OnceReadSend, OnceComplete, OnceDone DEF TaskStep
<1>9. \A r \in Recordings, who \in Callers : ~AnswerLost(r, who)
  BY <1>1 DEF AnswerLost, Calm
<1>10. CASE UNCHANGED vars
  BY <1>2, <1>10 DEF Once, OneTap, OneSender, NewTrack, SentOnce, Sending, Posting, At, vars, phone
<1> QED BY <1>3, <1>4, <1>5, <1>6, <1>7, <1>8, <1>9, <1>10 DEF Next

\* A track is registered once, however often its upload is retried and whenever
\* the app is killed; unless an answer was lost, or taps overlapped.
THEOREM TrackRegisteredOnce == Spec => []RegisteredOnce
<1>1. Init => Typed /\ SafeInv /\ OnceInv
  BY TypedInit, SafeInit, OnceInit
<1>2. Typed /\ SafeInv /\ OnceInv /\ [Next]_vars => (Typed /\ SafeInv /\ OnceInv)'
  BY TypedStep, SafeStep, OnceStep
<1>3. Typed /\ SafeInv /\ OnceInv => RegisteredOnce
  <2> SUFFICES ASSUME Typed, OnceInv, NEW r \in Recordings, ~(lost > 0), ~doubled
               PROVE  stored[r] <= 1
    BY DEF RegisteredOnce
  <2>1. lost = 0
    BY DEF Typed, TypeOK
  <2>2. SentOnce
    BY <2>1 DEF OnceInv, Calm
  <2> QED BY <2>2 DEF SentOnce, Typed, TypeOK
<1> QED BY <1>1, <1>2, <1>3, PTL DEF Spec
=============================================================================
