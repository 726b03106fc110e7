-------------------------- MODULE SessionRegistry --------------------------
(***************************************************************************)
(* Which session an upload belongs to.  Devices, imports and race GPX      *)
(* files find or create the session of a boat and its activity; users      *)
(* announce activities, add sessions, move a standalone recording into an  *)
(* activity, match the sessions of a race, and delete.  Requests run       *)
(* concurrently, each as a sequence of short transactions.                 *)
(*                                                                         *)
(* extend_window is one action here; the race between its read and its     *)
(* write is modelled in IngestPipeline.  The users are those the           *)
(* permission checks let through (Clubhouse).                              *)
(***************************************************************************)
EXTENDS Integers, FiniteSets

CONSTANTS
    Boats,
    Races,
    RaceWindow,     \* [Races -> start_time and four hours later]
    Keys,           \* <<device, sequence_number>> of a device upload
    Windows,        \* windows an upload may declare; to = None when unknown
    Gap,            \* SESSION_MERGE_GAP_MINUTES
    Announced,      \* activities 1..Announced are announced from the start
    Handlers,       \* requests the server works on at a time
    MaxRequests,    \* bound: requests that write
    MaxSessions,    \* bounds: rows ever inserted
    MaxActivities,
    MaxUploads,
    None

Sessions == 1..MaxSessions
Activities == 1..MaxActivities
Uploads == 1..MaxUploads
Maybe(S) == S \cup {None}

ASSUME RegistryAssumption ==
    /\ MaxRequests \in Nat /\ MaxSessions \in Nat /\ MaxActivities \in Nat /\ MaxUploads \in Nat
    /\ Announced \in 0..MaxActivities
    /\ Gap \in Nat
    /\ Windows \subseteq [from : Int, to : Maybe(Int)]
    /\ \A w \in Windows : w.to # None => w.from <= w.to
    /\ RaceWindow \in [Races -> [from : Int, to : Int]]
    /\ None \notin Int \cup Boats \cup Races \cup Keys

VARIABLES
    session,    \* [Sessions -> row of sessions]
    activity,   \* [Activities -> row of activities]
    upload,     \* [Uploads -> row of session_uploads, and the window it declared]
    handler,    \* [Handlers -> request record]
    requests,   \* requests begun
    disturbed,  \* history: boats two requests worked on at once, or with a session
                \*          given its bounds by hand, cut short by Widen, given back
                \*          older bounds by MoveBest, or deleted while it was attached
    ambiguous   \* history: requests that had several sessions to choose from,
                \*          or whose session was moved

data == <<session, activity, upload>>
history == <<requests, disturbed, ambiguous>>
vars == <<session, activity, upload, handler, requests, disturbed, ambiguous>>

Stage == {"unused", "live", "gone"}
SessionRow == [stage : Stage, boat : Maybe(Boats), act : Maybe(Activities),
               from : Maybe(Int), to : Maybe(Int)]
NoSession == [stage |-> "unused", boat |-> None, act |-> None, from |-> None, to |-> None]
ActivityRow == [stage : Stage, type : {"race", "training", "solo"}, race : Maybe(Races),
                from : Maybe(Int), to : Maybe(Int)]
NoActivity == [stage |-> "unused", type |-> "solo", race |-> None, from |-> None, to |-> None]
UploadRow == [stage : Stage, session : Maybe(Sessions), key : Maybe(Keys),
              win : Windows \cup {None}, asked : Maybe(Activities)]
NoUpload == [stage |-> "unused", session |-> None, key |-> None, win |-> None, asked |-> None]

\* A session as match_sessions has listed it.
Listed == [sid : Sessions, from : Maybe(Int), to : Maybe(Int)]
Request == [pc : {"idle", "race", "newRace", "bind", "list", "find", "solo", "create", "widen",
                  "key", "insert", "overlaps", "move", "count", "target", "drop"},
            op : {"none", "device", "import", "gpx", "match", "attach"},
            boat : Maybe(Boats), win : Maybe([from : Int, to : Maybe(Int)]), key : Maybe(Keys),
            race : Maybe(Races), asked : Maybe(Activities), act : Maybe(Activities),
            sid : Maybe(Sessions), left : SUBSET Listed]
Idle == [pc |-> "idle", op |-> "none", boat |-> None, win |-> None, key |-> None,
         race |-> None, asked |-> None, act |-> None, sid |-> None, left |-> {}]

Init ==
    /\ session = [s \in Sessions |-> NoSession]
    /\ activity = [a \in Activities |-> IF a <= Announced
                     THEN [NoActivity EXCEPT !.stage = "live", !.type = "training"] ELSE NoActivity]
    /\ upload = [u \in Uploads |-> NoUpload]
    /\ handler = [h \in Handlers |-> Idle]
    /\ requests = 0
    /\ disturbed = {} /\ ambiguous = {}

Stored(table) == {i \in DOMAIN table : table[i].stage = "live"}
Known(table) == {i \in DOMAIN table : table[i].stage # "unused"}
\* The next row of a table: ids are never used twice.
Fresh(table) == {i \in DOMAIN table : table[i].stage = "unused"
                   /\ \A j \in 1..(i - 1) : table[j].stage # "unused"}

ByHand(op) == op \in {"match", "attach"}
Touched(r) == IF ByHand(r.op) THEN Boats ELSE {r.boat}
Busy == UNION {Touched(handler[h]) : h \in {h \in Handlers : handler[h].pc # "idle"}}

Begin(h, request) ==
    /\ handler[h].pc = "idle" /\ requests < MaxRequests
    /\ requests' = requests + 1
    /\ handler' = [handler EXCEPT ![h] = request]
    /\ disturbed' = disturbed \cup (Touched(request) \cap Busy)
    /\ UNCHANGED <<data, ambiguous>>

Goto(h, pc) == handler' = [handler EXCEPT ![h].pc = pc]
Done(h) == handler' = [handler EXCEPT ![h] = Idle]

-----------------------------------------------------------------------------
(* Requests.                                                               *)

\* POST /devices/me/session-uploads; a device that was given an activity names it.
DeviceUpload(h, b, w, k, a) ==
    Begin(h, [Idle EXCEPT !.op = "device", !.boat = b, !.win = w, !.key = k, !.asked = a,
                !.act = a, !.pc = IF a = None THEN "find" ELSE "bind"])

\* complete_import with a session of the boat, an activity, or neither.
Import(h, b, w, a) ==
    Begin(h, [Idle EXCEPT !.op = "import", !.boat = b, !.win = w, !.asked = a, !.act = a,
                !.pc = IF a = None THEN "find" ELSE "bind"])

ImportInto(h, s, w) ==
    /\ s \in Stored(session)
    /\ Begin(h, [Idle EXCEPT !.op = "import", !.boat = session[s].boat, !.win = w, !.sid = s,
                   !.pc = "widen"])

\* POST /races/{id}/boats/{id}/gpx and POST /races/{id}/match-sessions.
RaceGpx(h, r, b, w) ==
    Begin(h, [Idle EXCEPT !.op = "gpx", !.race = r, !.boat = b, !.win = w, !.pc = "race"])

MatchSessions(h, r) ==
    Begin(h, [Idle EXCEPT !.op = "match", !.race = r, !.pc = "race"])

\* POST /sessions/{id}/attach-to-activity: the session names its old activity.
Attach(h, s, a) ==
    /\ s \in Stored(session)
    /\ Begin(h, [Idle EXCEPT !.op = "attach", !.sid = s, !.asked = a, !.act = session[s].act,
                   !.pc = "count"])

-----------------------------------------------------------------------------
(* THE activity of a race, created on first use.                           *)

Tracking(r) == {a \in Stored(activity) : activity[a].race = r}
\* Matching goes on with the bounds the activity has now.
WithRace(r, a, from, to) ==
    IF r.op = "match" THEN [r EXCEPT !.act = a, !.win = [from |-> from, to |-> to], !.pc = "overlaps"]
                      ELSE [r EXCEPT !.act = a, !.pc = "bind"]

FindRaceActivity(h) ==
    /\ handler[h].pc = "race"
    /\ \/ /\ Tracking(handler[h].race) = {}
          /\ Goto(h, "newRace")
       \/ \E a \in Tracking(handler[h].race) :
             handler' = [handler EXCEPT ![h] = WithRace(@, a, activity[a].from, activity[a].to)]
    /\ UNCHANGED <<data, history>>

NewRaceActivity(h) ==
    /\ handler[h].pc = "newRace"
    /\ \E a \in Fresh(activity) : LET r == handler[h].race  w == RaceWindow[r] IN
         /\ activity' = [activity EXCEPT ![a] = [NoActivity EXCEPT !.stage = "live", !.type = "race",
                           !.race = r, !.from = w.from, !.to = w.to]]
         /\ handler' = [handler EXCEPT ![h] = WithRace(@, a, w.from, w.to)]
    /\ UNCHANGED <<session, upload, history>>

-----------------------------------------------------------------------------
(* find_or_create_session.                                                 *)

End(w) == IF w.to = None THEN w.from ELSE w.to
Least(x, y) == IF x = None \/ y < x THEN y ELSE x
Most(x, y) == IF y = None \/ (x # None /\ x >= y) THEN x ELSE y
Moments(row) == IF row.from = None THEN {} ELSE row.from..End(row)
Widened(row, w) == [row EXCEPT !.from = Least(@, w.from), !.to = Most(@, w.to)]

\* activities.extend_window: nothing when the activity is gone.
Bind(h) ==
    /\ handler[h].pc = "bind"
    /\ LET a == handler[h].act IN
         activity' = IF activity[a].stage = "live"
                     THEN [activity EXCEPT ![a] = Widened(@, handler[h].win)] ELSE activity
    /\ Goto(h, "list")
    /\ UNCHANGED <<session, upload, history>>

\* The handler goes on with one of S in whatever order the table is scanned.
Choose(h, S, otherwise) ==
    LET r == handler[h] IN
    /\ \/ S = {} /\ Goto(h, otherwise)
       \/ \E s \in S : handler' = [handler EXCEPT ![h] = [@ EXCEPT !.sid = s, !.pc = "widen"]]
    /\ ambiguous' = IF Cardinality(S) > 1 THEN ambiguous \cup {<<r.boat, r.win, r.asked>>} ELSE ambiguous
    /\ UNCHANGED <<data, requests, disturbed>>

List(h) ==
    /\ handler[h].pc = "list"
    /\ Choose(h, {s \in Stored(session) : session[s].act = handler[h].act
                                          /\ session[s].boat = handler[h].boat}, "create")

\* Mutant: the gap is only allowed after the session, not before it.
NearAfter(row, w) ==
    /\ row.from # None
    /\ row.from <= End(w)
    /\ End(row) + Gap >= w.from

\* A window overlaps the session or comes within the gap of it.
Near(row, w) ==
    /\ row.from # None
    /\ row.from - Gap <= End(w)
    /\ End(row) + Gap >= w.from

NearSessions(b, w) == {s \in Stored(session) : session[s].boat = b /\ Near(session[s], w)}

\* Mutant: the first request of a boat only.
FindNone(h) ==
    /\ handler[h].pc = "find"
    /\ Choose(h, {}, "solo")

Find(h) ==
    /\ handler[h].pc = "find"
    /\ Choose(h, NearSessions(handler[h].boat, handler[h].win), "solo")

NewSolo(h) ==
    /\ handler[h].pc = "solo"
    /\ \E a \in Fresh(activity) : LET w == handler[h].win IN
         /\ activity' = [activity EXCEPT ![a] = [NoActivity EXCEPT !.stage = "live",
                           !.from = w.from, !.to = w.to]]
         /\ handler' = [handler EXCEPT ![h] = [@ EXCEPT !.act = a, !.pc = "create"]]
    /\ UNCHANGED <<session, upload, history>>

\* The foreign key refuses an activity that is gone: 500.
NewSession(h) ==
    /\ handler[h].pc = "create"
    /\ LET r == handler[h] IN
         \/ /\ activity[r.act].stage = "live"
            /\ \E s \in Fresh(session) :
                 /\ session' = [session EXCEPT ![s] = [stage |-> "live", boat |-> r.boat,
                                  act |-> r.act, from |-> r.win.from, to |-> r.win.to]]
                 /\ handler' = [handler EXCEPT ![h] = [@ EXCEPT !.sid = s, !.pc = "key"]]
         \/ /\ activity[r.act].stage = "gone"
            /\ Done(h)
            /\ UNCHANGED session
    /\ UNCHANGED <<activity, upload, history>>

\* Mutant: the bounds are overwritten, not widened.
WidenSets(h) ==
    /\ handler[h].pc = "widen"
    /\ LET s == handler[h].sid  w == handler[h].win IN
         session' = IF session[s].stage = "live"
                    THEN [session EXCEPT ![s] = [@ EXCEPT !.from = w.from, !.to = w.to]] ELSE session
    /\ Goto(h, "key")
    /\ UNCHANGED <<activity, upload, history>>

\* sessions.extend_window: the activity of the session is left as it is.
Widen(h) ==
    /\ handler[h].pc = "widen"
    /\ LET s == handler[h].sid IN
         /\ session' = IF session[s].stage = "live"
                       THEN [session EXCEPT ![s] = Widened(@, handler[h].win)] ELSE session
         /\ disturbed' = IF session[s].stage = "live" /\ ~(Moments(session[s]) \subseteq Moments(session'[s]))
                         THEN disturbed \cup {session[s].boat} ELSE disturbed
    /\ Goto(h, "key")
    /\ UNCHANGED <<activity, upload, requests, ambiguous>>

-----------------------------------------------------------------------------
(* The session_upload: a device's is unique by session, device, sequence.  *)

WithKey(s, k) == {u \in Stored(upload) : upload[u].session = s /\ upload[u].key = k}

LookupKey(h) ==
    /\ handler[h].pc = "key"
    /\ IF handler[h].key # None /\ WithKey(handler[h].sid, handler[h].key) # {}
       THEN Done(h) ELSE Goto(h, "insert")
    /\ UNCHANGED <<data, history>>

\* A session that is gone, or a key another request has inserted: 500.
InsertUpload(h) ==
    /\ handler[h].pc = "insert"
    /\ LET r == handler[h] IN
         \/ /\ session[r.sid].stage = "live"
            /\ r.key = None \/ WithKey(r.sid, r.key) = {}
            /\ \E u \in Fresh(upload) :
                 upload' = [upload EXCEPT ![u] = [stage |-> "live", session |-> r.sid,
                              key |-> r.key, win |-> r.win, asked |-> r.asked]]
         \/ /\ \/ session[r.sid].stage = "gone"
               \/ r.key # None /\ WithKey(r.sid, r.key) # {}
            /\ UNCHANGED upload
    /\ Done(h)
    /\ UNCHANGED <<session, activity, history>>

-----------------------------------------------------------------------------
(* Users move sessions.                                                    *)

Bounds(row) == <<row.from, row.to>>

\* What a move does to retries: their request named another activity.
Moved(S) == {<<session[s].boat, w, a>> : s \in S, w \in Windows, a \in Maybe(Activities)}

\* Seconds a session shares with the window of the race.
Overlap(row, w) ==
    IF row.from = None THEN 0
    ELSE LET late == IF w.from > row.from THEN w.from ELSE row.from
             early == IF w.to < End(row) THEN w.to ELSE End(row)
         IN IF early > late THEN early - late ELSE 0

\* The session of each boat that overlaps most, of those elsewhere.
ChooseBest(h) ==
    /\ handler[h].pc = "overlaps"
    /\ LET w == handler[h].win
           away == {s \in Stored(session) : session[s].act # handler[h].act /\ Overlap(session[s], w) > 0}
           best == {s \in away : \A t \in away : session[t].boat = session[s].boat
                                    => Overlap(session[t], w) <= Overlap(session[s], w)}
       IN \E S \in SUBSET best :
            /\ \A s \in best : Cardinality({t \in S : session[t].boat = session[s].boat}) = 1
            /\ handler' = [handler EXCEPT ![h] = [@ EXCEPT !.pc = "move",
                 !.left = {[sid |-> s, from |-> session[s].from, to |-> session[s].to] : s \in S}]]
    /\ UNCHANGED <<data, history>>

\* One update per session, then extend_window with the bounds it was listed with:
\* they only matter when a user has narrowed the session meanwhile, whose choice
\* is undone.  The foreign key refuses an activity that is gone.
MoveBest(h) ==
    /\ handler[h].pc = "move"
    /\ LET r == handler[h] IN
         \/ /\ r.left = {} /\ Done(h)
            /\ UNCHANGED <<session, disturbed, ambiguous>>
         \/ \E x \in r.left : LET s == x.sid IN
              IF session[s].stage = "live" /\ activity[r.act].stage = "gone"
              THEN Done(h) /\ UNCHANGED <<session, disturbed, ambiguous>>
              ELSE /\ session' = IF session[s].stage = "live"
                                 THEN [session EXCEPT ![s] = [Widened(@, x) EXCEPT !.act = r.act]] ELSE session
                   /\ disturbed' = IF Bounds(session'[s]) # Bounds(session[s])
                                   THEN disturbed \cup {session[s].boat} ELSE disturbed
                   /\ ambiguous' = ambiguous \cup Moved({s} \cap Stored(session))
                   /\ handler' = [handler EXCEPT ![h].left = @ \ {x}]
    /\ UNCHANGED <<activity, upload, requests>>

\* Mutant: any solo activity may be left, however many sessions it has.
CountAny(h) ==
    /\ handler[h].pc = "count"
    /\ LET old == handler[h].act IN
         IF activity[old].stage = "live" /\ activity[old].type = "solo"
         THEN Goto(h, "target") ELSE Done(h)
    /\ UNCHANGED <<data, history>>

\* Only a standalone recording may move: else 409.
Count(h) ==
    /\ handler[h].pc = "count"
    /\ LET old == handler[h].act IN
         IF /\ activity[old].stage = "live" /\ activity[old].type = "solo"
            /\ Cardinality({s \in Stored(session) : session[s].act = old}) = 1
         THEN Goto(h, "target") ELSE Done(h)
    /\ UNCHANGED <<data, history>>

\* The target must exist: 404, or 500 when it goes before the update.
MoveToTarget(h) ==
    /\ handler[h].pc = "target"
    /\ LET r == handler[h] IN
         \/ /\ activity[r.asked].stage = "live" /\ session[r.sid].stage = "live"
            /\ session' = [session EXCEPT ![r.sid].act = r.asked]
            /\ ambiguous' = ambiguous \cup Moved({r.sid})
            /\ Goto(h, "drop")
         \/ /\ activity[r.asked].stage # "live" /\ Done(h)
            /\ UNCHANGED <<session, ambiguous>>
         \/ /\ activity[r.asked].stage = "live" /\ session[r.sid].stage = "gone"
            /\ Goto(h, "drop")
            /\ UNCHANGED <<session, ambiguous>>
    /\ UNCHANGED <<activity, upload, requests, disturbed>>

-----------------------------------------------------------------------------
(* Deleting cascades: activity, its sessions, their uploads.               *)

DropSessions(S) ==
    /\ session' = [s \in Sessions |-> IF s \in S THEN [NoSession EXCEPT !.stage = "gone"] ELSE session[s]]
    /\ upload' = [u \in Uploads |-> IF upload[u].session \in S
                                    THEN [NoUpload EXCEPT !.stage = "gone"] ELSE upload[u]]

DropActivity(a) ==
    /\ activity' = [activity EXCEPT ![a] = [NoActivity EXCEPT !.stage = "gone"]]
    /\ DropSessions({s \in Stored(session) : session[s].act = a})

\* The last step of attach: the emptied activity goes.
DropOld(h) ==
    /\ handler[h].pc = "drop"
    /\ DropActivity(handler[h].act)
    /\ Done(h)
    /\ UNCHANGED history

ByUser(boats) ==
    /\ requests < MaxRequests /\ requests' = requests + 1
    /\ disturbed' = disturbed \cup boats
    /\ UNCHANGED <<handler, ambiguous>>

\* Attaching looks once whether its session exists, and counts without it.
BeingAttached(s) == \E h \in Handlers : handler[h].op = "attach" /\ handler[h].sid = s

DeleteSession(s) ==
    /\ ByUser(IF BeingAttached(s) THEN Boats ELSE {}) /\ s \in Stored(session)
    /\ DropSessions({s})
    /\ UNCHANGED activity

DeleteActivity(a) ==
    /\ ByUser({}) /\ a \in Stored(activity)
    /\ DropActivity(a)

\* POST /activities: an announced event, or an outing described by hand.
CreateActivity(type) ==
    /\ ByUser({})
    /\ \E a \in Fresh(activity) :
         activity' = [activity EXCEPT ![a] = [NoActivity EXCEPT !.stage = "live", !.type = type]]
    /\ UNCHANGED <<session, upload>>

\* POST /sessions by the creator of the activity; the bounds may be left out.
CreateSession(a, b) ==
    /\ ByUser({b} \cap Busy) /\ a \in Stored(activity)
    /\ \E s \in Fresh(session) :
         session' = [session EXCEPT ![s] = [NoSession EXCEPT !.stage = "live", !.boat = b, !.act = a]]
    /\ UNCHANGED <<activity, upload>>

\* PATCH /sessions/{id}: a user may give other bounds, or none.
UpdateSession(s, w) ==
    /\ s \in Stored(session) /\ ByUser({session[s].boat})
    /\ session' = [session EXCEPT ![s] = [@ EXCEPT !.from = w.from, !.to = w.to]]
    /\ UNCHANGED <<activity, upload>>

-----------------------------------------------------------------------------
Ask(h) ==
    \/ \E b \in Boats, w \in Windows, a \in Maybe(Known(activity)) :
          (\E k \in Keys : DeviceUpload(h, b, w, k, a)) \/ Import(h, b, w, a)
    \/ \E s \in Sessions, w \in Windows : ImportInto(h, s, w)
    \/ \E r \in Races : MatchSessions(h, r) \/ \E b \in Boats, w \in Windows : RaceGpx(h, r, b, w)
    \/ \E s \in Sessions, a \in Known(activity) : Attach(h, s, a)

Work(h) ==
    \/ FindRaceActivity(h) \/ NewRaceActivity(h)
    \/ Bind(h) \/ List(h) \/ Find(h) \/ NewSolo(h) \/ NewSession(h) \/ Widen(h)
    \/ LookupKey(h) \/ InsertUpload(h)
    \/ ChooseBest(h) \/ MoveBest(h)
    \/ Count(h) \/ MoveToTarget(h) \/ DropOld(h)

Next ==
    \/ \E h \in Handlers : Ask(h) \/ Work(h)
    \/ \E s \in Sessions : DeleteSession(s) \/ \E w \in Windows : UpdateSession(s, w)
    \/ \E a \in Activities : DeleteActivity(a) \/ \E b \in Boats : CreateSession(a, b)
    \/ \E type \in {"training", "solo"} : CreateActivity(type)

Spec == Init /\ [][Next]_vars

-----------------------------------------------------------------------------
(* Properties.                                                             *)

TypeOK ==
    /\ session \in [Sessions -> SessionRow]
    /\ activity \in [Activities -> ActivityRow]
    /\ upload \in [Uploads -> UploadRow]
    /\ handler \in [Handlers -> Request]
    /\ requests \in 0..MaxRequests
    /\ disturbed \subseteq Boats
    /\ ambiguous \subseteq Boats \X Windows \X Maybe(Activities)

\* Some moment of the outing and one of the window are at most Gap apart.
SameOuting(row, w) ==
    /\ row.from # None
    /\ \E t \in row.from..End(row), u \in w.from..End(w) : t - u <= Gap /\ u - t <= Gap

\* A standalone session opens only when the boat has no session of the same
\* outing, so an outing is one session however many uploads it takes; unless
\* requests for the boat overlapped, of which each may open one.
OpensOnlyApart ==
    [][\A h \in Handlers :
          LET r == handler[h] IN
          r.pc = "create" /\ session' # session /\ r.asked = None /\ r.race = None
          /\ handler'[h].sid # r.sid /\ r.boat \notin disturbed
             => \A s \in Stored(session) : session[s].boat = r.boat => ~SameOuting(session[s], r.win)]_vars

\* A device that repeats its request, as it does when the answer was lost, is
\* given the upload it has; unless requests for the boat overlapped, several
\* sessions were near, or the session was moved in between.
RetrySameUpload ==
    \A u, v \in Stored(upload) :
       LET boat == session[upload[u].session].boat IN
       /\ u # v /\ upload[u].key # None
       /\ upload[u].key = upload[v].key /\ upload[u].win = upload[v].win
       /\ upload[u].asked = upload[v].asked /\ session[upload[v].session].boat = boat
       => boat \in disturbed \/ <<boat, upload[u].win, upload[u].asked>> \in ambiguous

\* A session, with the uploads in it, goes only when a user deletes it or its
\* activity: attaching removes the emptied wrapper and nothing else.  Unless it
\* is attached to the activity it is in, or requests overlapped.
SessionsKept ==
    [][\A s \in Stored(session) :
          session'[s].stage = "live" \/ requests' # requests
          \/ session[s].boat \in disturbed
          \/ \E h \in Handlers : handler[h].pc = "drop" /\ handler[h].asked = handler[h].act]_vars

\* The window of a session holds the window every upload in it declared, so
\* that what is cut to it loses nothing.
SessionCoversUploads ==
    \A u \in Stored(upload) :
       LET row == session[upload[u].session]  w == upload[u].win IN
       row.boat \in disturbed
       \/ /\ row.from # None /\ row.from <= w.from
          /\ w.to # None => row.to # None /\ row.to >= w.to

\* The doc of extend_window says it widens the bounds monotonically: no moment
\* of a session leaves its window but by a user's hand.
\* Not kept by the code: see README, section 6.
WindowsOnlyWiden ==
    [][\A s \in Stored(session) :
          session'[s].stage = "live" /\ requests' = requests
             => Moments(session[s]) \subseteq Moments(session'[s])]_vars
=============================================================================
